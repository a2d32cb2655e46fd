------------------------------ MODULE TvPairing ------------------------------
(***************************************************************************)
(* A television that is paired from a browser and then renews its access:  *)
(* tables tv_pairing and tv_device (tv_query.go), the handlers of          *)
(* tv_auth_controller.go, authenticateTVDevice, and the app's              *)
(* TvAuthRepository.kt.  A transaction is a step; an answer may be lost    *)
(* while the server still works on the call, and the television asks again.*)
(***************************************************************************)
EXTENDS Naturals, FiniteSets

CONSTANTS
    Approvers,          \* accounts that may approve
    Pairings,           \* rows of tv_pairing
    Devices,            \* rows of tv_device
    Browsers,           \* decisions in flight
    Calls,              \* token requests the server works on
    MaxAccountVersion,  \* bound on account changes
    MaxDevices,         \* televisions of one account (50 in the code)
    TvScenarios,        \* [users, pairings, browsers, calls, media]: which of them a behaviour uses
    NoOne

ASSUME TvAssumption ==
    /\ NoOne \notin Pairings \cup Devices \cup Calls
    /\ IsFiniteSet(Devices)
    /\ MaxDevices \in Nat

VARIABLES account, pairing, device, decider, call, media, tv, household

tvars == <<account, pairing, device, decider, call, media, tv, household>>

Free == [state |-> "free", decision |-> "pending", user |-> NoOne, version |-> 0,
         device |-> NoOne, polled |-> FALSE]
NoDevice == [state |-> "free", user |-> NoOne, version |-> 0]
IdleCall == [pc |-> "idle", code |-> NoOne, d |-> NoOne, answer |-> "none"]

\* waits: the call whose answer the television holds its lock for.
Unpaired == [state |-> "UNPAIRED", cred |-> NoOne, access |-> FALSE, code |-> NoOne, waits |-> NoOne]

TvInit ==
    /\ account = [u \in Approvers |-> [ok |-> TRUE, version |-> 1]]
    /\ pairing = [p \in Pairings |-> Free]
    /\ device = [d \in Devices |-> NoDevice]
    /\ decider = [b \in Browsers |-> [user |-> NoOne, p |-> NoOne, version |-> 0]]
    /\ call = [k \in Calls |-> IdleCall]
    /\ media = [pc |-> "idle", d |-> NoOne, current |-> FALSE]
    /\ tv = Unpaired
    /\ household \in TvScenarios

\* An account enabled, with no password to change, that is still at a version.
AccountIs(u, version) == account[u].ok /\ account[u].version = version

DeviceValid(d) == device[d].state = "live" /\ AccountIs(device[d].user, device[d].version)

LiveDevices(u) == {d \in Devices : device[d].state = "live" /\ device[d].user = u}

(***************************************************************************)
(* What happens to accounts, devices and pairings meanwhile.               *)
(***************************************************************************)

\* Every change of an account advances its version (see Accounts).
AccountChanges(u, ok) ==
    /\ u \in household.users /\ account[u].version < MaxAccountVersion
    /\ account' = [account EXCEPT ![u] = [ok |-> ok, version |-> @.version + 1]]
    /\ UNCHANGED <<pairing, device, decider, call, media, tv, household>>

\* RevokeUserTVDevices and RevokeTVDevice by the owner.
Revoke(ds) ==
    /\ ds # {} /\ \A d \in ds : device[d].state = "live"
    /\ device' = [d \in Devices |-> IF d \in ds THEN [device[d] EXCEPT !.state = "revoked"] ELSE device[d]]
    /\ UNCHANGED <<account, pairing, decider, call, media, tv, household>>

\* A row past expires_at is not found any more; the television gives up too.
Expire(p) ==
    /\ pairing[p].state = "open"
    /\ pairing' = [pairing EXCEPT ![p].state = "gone"]
    /\ tv' = IF tv.code = p /\ tv.waits = NoOne THEN [tv EXCEPT !.code = NoOne] ELSE tv
    /\ UNCHANGED <<account, device, decider, call, media, household>>

FiveSecondsPass(p) ==
    /\ pairing[p].polled
    /\ pairing' = [pairing EXCEPT ![p].polled = FALSE]
    /\ UNCHANGED <<account, device, decider, call, media, tv, household>>

(***************************************************************************)
(* The decision in the browser (V2TVDecision): the row and the account are *)
(* read, then the row is decided if it still is pending.                   *)
(***************************************************************************)
DecisionLookup(b, u, p) ==
    /\ b \in household.browsers /\ decider[b].p = NoOne /\ u \in household.users /\ account[u].ok
    /\ pairing[p].state = "open" /\ pairing[p].decision = "pending"
    /\ decider' = [decider EXCEPT ![b] = [user |-> u, p |-> p, version |-> account[u].version]]
    /\ UNCHANGED <<account, pairing, device, call, media, tv, household>>

DecideTVPairing(b, decision) ==
    LET q == decider[b] IN
    /\ q.p # NoOne
    /\ pairing' = IF pairing[q.p].state = "open" /\ pairing[q.p].decision = "pending"
                  THEN [pairing EXCEPT ![q.p].decision = decision, ![q.p].user = q.user,
                                       ![q.p].version = q.version]
                  ELSE pairing
    /\ decider' = [decider EXCEPT ![b] = [user |-> NoOne, p |-> NoOne, version |-> 0]]
    /\ UNCHANGED <<account, device, call, media, tv, household>>

(***************************************************************************)
(* The server's side of V2TVToken.                                         *)
(***************************************************************************)
\* The answer reaches a television that still waits for it.
Answer(k, answer, d) ==
    call' = [call EXCEPT ![k] = IF tv.waits = k
                                THEN [@ EXCEPT !.pc = "answered", !.answer = answer, !.d = d]
                                ELSE IdleCall]

Exchangeable(p) ==
    /\ pairing[p].decision = "approved"
    /\ AccountIs(pairing[p].user, pairing[p].version)
    /\ IF pairing[p].device = NoOne THEN Cardinality(LiveDevices(pairing[p].user)) < MaxDevices
                                   ELSE device[pairing[p].device].state = "live"

Enrol(p, d) ==
    /\ device[d].state = "free"
    /\ device' = [device EXCEPT ![d] = [state |-> "live", user |-> pairing[p].user,
                                        version |-> pairing[p].version]]
    /\ pairing' = [pairing EXCEPT ![p].polled = TRUE, ![p].device = d]

ExchangeTVPairing_NewDevice(k) ==
    LET p == call[k].code IN
    /\ call[k].pc = "exchange" /\ p # NoOne
    /\ \/ /\ pairing[p].state = "open" /\ Exchangeable(p)
          /\ \E d \in Devices : Enrol(p, d) /\ call' = [call EXCEPT ![k].pc = "read", ![k].d = d]
       \/ /\ ~(pairing[p].state = "open" /\ Exchangeable(p))
          /\ Answer(k, IF pairing[p].state = "open" /\ pairing[p].decision = "pending" THEN "wait" ELSE "invalid_grant", NoOne)
          /\ UNCHANGED <<pairing, device>>
    /\ UNCHANGED <<account, decider, media, tv, household>>

\* The transaction: too early, not decided, refused, enrolled now, or enrolled by
\* an earlier call whose answer was lost.  An error rolls last_polled_at back.
ExchangeTVPairing(k) ==
    LET p == call[k].code  row == pairing[p] IN
    /\ call[k].pc = "exchange" /\ p # NoOne
    /\ \/ /\ row.state # "open" \/ (~row.polled /\ row.decision # "pending" /\ ~Exchangeable(p))
          /\ Answer(k, "invalid_grant", NoOne) /\ UNCHANGED <<pairing, device>>
       \/ /\ row.state = "open" /\ row.polled
          /\ Answer(k, "wait", NoOne) /\ UNCHANGED <<pairing, device>>
       \/ /\ row.state = "open" /\ ~row.polled /\ row.decision = "pending"
          /\ pairing' = [pairing EXCEPT ![p].polled = TRUE]
          /\ Answer(k, "wait", NoOne) /\ UNCHANGED device
       \/ /\ row.state = "open" /\ ~row.polled /\ Exchangeable(p)
          /\ IF row.device = NoOne
             THEN \E d \in Devices : Enrol(p, d) /\ call' = [call EXCEPT ![k].pc = "read", ![k].d = d]
             ELSE /\ pairing' = [pairing EXCEPT ![p].polled = TRUE]
                  /\ call' = [call EXCEPT ![k].pc = "read", ![k].d = row.device]
                  /\ UNCHANGED device
    /\ UNCHANGED <<account, decider, media, tv, household>>

\* The device row as read (GetTVDeviceByRefresh has no condition on it) and the account.
CheckAccount(k) ==
    LET d == call[k].d IN
    /\ call[k].pc = "read"
    /\ IF DeviceValid(d) THEN call' = [call EXCEPT ![k].pc = "issue"] ELSE Answer(k, "invalid_grant", NoOne)
    /\ UNCHANGED <<account, pairing, device, decider, media, tv, household>>

\* The conditions again, in the statement that inserts the access token.
IssueTVAccess(k) ==
    LET d == call[k].d IN
    /\ call[k].pc = "issue"
    /\ IF DeviceValid(d) THEN Answer(k, "token", d) ELSE Answer(k, "invalid_grant", NoOne)
    /\ UNCHANGED <<account, pairing, device, decider, media, tv, household>>

(***************************************************************************)
(* The television.  lock: one token request at a time.                     *)
(***************************************************************************)

\* beginPairing: V2TVDevice makes a row; an older code is forgotten.
BeginPairing(p) ==
    /\ tv.waits = NoOne /\ tv.state \in {"UNPAIRED", "REVOKED"}
    /\ p \in household.pairings /\ pairing[p].state = "free"
    /\ pairing' = [pairing EXCEPT ![p].state = "open"]
    /\ tv' = [tv EXCEPT !.code = p]
    /\ UNCHANGED <<account, device, decider, call, media, household>>

Poll(k) ==
    /\ tv.waits = NoOne /\ tv.code # NoOne
    /\ k \in household.calls /\ call[k].pc = "idle"
    /\ call' = [call EXCEPT ![k] = [IdleCall EXCEPT !.pc = "exchange", !.code = tv.code]]
    /\ tv' = [tv EXCEPT !.waits = k]
    /\ UNCHANGED <<account, pairing, device, decider, media, household>>

\* renew: at start, before the access token runs out, or after invalid_token.
Renew(k) ==
    /\ tv.waits = NoOne /\ tv.cred # NoOne
    /\ k \in household.calls /\ call[k].pc = "idle"
    /\ call' = [call EXCEPT ![k] = [IdleCall EXCEPT !.pc = "read", !.d = tv.cred]]
    /\ tv' = [tv EXCEPT !.waits = k]
    /\ UNCHANGED <<account, pairing, device, decider, media, household>>

\* What renew does with an answer that is no token.
Refused(answer) ==
    IF answer = "invalid_grant" THEN "REVOKED"
    ELSE IF tv.state = "REVOKED" THEN tv.state ELSE "DISCONNECTED"

\* persist: the credential is stored before the state says so.
Receive(k) ==
    LET q == call[k] IN
    /\ tv.waits = k /\ q.pc = "answered"
    /\ tv' = IF q.answer = "token"
             THEN [state |-> "AUTHENTICATED", cred |-> q.d, access |-> TRUE, code |-> NoOne, waits |-> NoOne]
             ELSE IF q.code = NoOne THEN [tv EXCEPT !.state = Refused(q.answer), !.waits = NoOne]
             ELSE [tv EXCEPT !.waits = NoOne, !.code = IF q.answer = "invalid_grant" THEN NoOne ELSE @]
    /\ media' = IF q.answer = "token" THEN [media EXCEPT !.current = FALSE] ELSE media
    /\ call' = [call EXCEPT ![k] = IdleCall]
    /\ UNCHANGED <<account, pairing, device, decider, household>>

\* The answer is lost or late: the television goes on, the server finishes the call.
TimeOut(k) ==
    /\ tv.waits = k
    /\ tv' = [tv EXCEPT !.waits = NoOne, !.state = IF call[k].code = NoOne THEN Refused("error") ELSE @]
    /\ call' = IF call[k].pc = "answered" THEN [call EXCEPT ![k] = IdleCall] ELSE call
    /\ UNCHANGED <<account, pairing, device, decider, media, household>>

\* The app restarts: the credential is all that is left.
Restart ==
    /\ tv # Unpaired
    /\ tv' = [Unpaired EXCEPT !.cred = tv.cred, !.state = IF tv.cred = NoOne THEN "UNPAIRED" ELSE "CONNECTING"]
    /\ media' = [pc |-> "idle", d |-> NoOne, current |-> FALSE]
    /\ call' = [k \in Calls |-> IF call[k].pc = "answered" THEN IdleCall ELSE call[k]]
    /\ UNCHANGED <<account, pairing, device, decider, household>>

\* A request with the access token (the player, artwork, preferences) ...
MediaRequest ==
    /\ household.media /\ media.pc = "idle" /\ tv.access /\ tv.waits = NoOne
    /\ media' = [pc |-> "sent", d |-> tv.cred, current |-> TRUE]
    /\ UNCHANGED <<account, pairing, device, decider, call, tv, household>>

\* ... that authenticateTVDevice lets through or refuses ...
AuthenticateTVDevice ==
    /\ media.pc = "sent"
    /\ media' = IF DeviceValid(media.d) THEN [pc |-> "idle", d |-> NoOne, current |-> FALSE]
                ELSE [media EXCEPT !.pc = "refused"]
    /\ UNCHANGED <<account, pairing, device, decider, call, tv, household>>

PairingRevoked_Always ==
    /\ media.pc = "refused" /\ tv.waits = NoOne
    /\ tv' = [tv EXCEPT !.state = "REVOKED"]
    /\ media' = [pc |-> "idle", d |-> NoOne, current |-> FALSE]
    /\ UNCHANGED <<account, pairing, device, decider, call, household>>

\* ... and the interceptor takes as the end of the pairing, if the token it sent
\* is still the one in use.
PairingRevoked ==
    /\ media.pc = "refused" /\ tv.waits = NoOne
    /\ tv' = IF media.current THEN [tv EXCEPT !.state = "REVOKED"] ELSE tv
    /\ media' = [pc |-> "idle", d |-> NoOne, current |-> FALSE]
    /\ UNCHANGED <<account, pairing, device, decider, call, household>>

\* V2TVLogout, and then the local part; the answer may be lost in between.
Logout ==
    /\ tv.access /\ tv.waits = NoOne /\ DeviceValid(tv.cred)
    /\ device' = [device EXCEPT ![tv.cred].state = "revoked"]
    /\ tv' \in {Unpaired, tv}
    /\ media' = [media EXCEPT !.current = @ /\ tv' = tv]
    /\ UNCHANGED <<account, pairing, decider, call, household>>

-----------------------------------------------------------------------------
Environment ==
    \/ \E u \in Approvers, ok \in BOOLEAN : AccountChanges(u, ok)
    \/ \E u \in Approvers : Revoke(LiveDevices(u))
    \/ \E d \in Devices : Revoke({d})
    \/ \E p \in Pairings : Expire(p) \/ FiveSecondsPass(p)

Browser ==
    \E b \in Browsers :
        \/ \E u \in Approvers, p \in Pairings : DecisionLookup(b, u, p)
        \/ \E decision \in {"approved", "denied"} : DecideTVPairing(b, decision)

Server(k) == ExchangeTVPairing(k) \/ CheckAccount(k) \/ IssueTVAccess(k)

Television ==
    \/ \E p \in Pairings : BeginPairing(p)
    \/ \E k \in Calls : Poll(k) \/ Renew(k) \/ Receive(k) \/ TimeOut(k)
    \/ Restart \/ MediaRequest \/ AuthenticateTVDevice \/ PairingRevoked \/ Logout

TvNext == Environment \/ Browser \/ (\E k \in Calls : Server(k)) \/ Television

TvSpec == TvInit /\ [][TvNext]_tvars

-----------------------------------------------------------------------------
(* A pairing enrols one television for the account whose decision counted, *)
(* however often a lost answer makes the television ask again and however  *)
(* many browsers decide at once; and no account has more than its number.  *)
PairingEnrolsOnce ==
    /\ \A d \in Devices : device[d].state # "free" =>
          \E p \in Pairings : /\ pairing[p].device = d
                              /\ pairing[p].decision = "approved"
                              /\ pairing[p].user = device[d].user
    /\ \A p, q \in Pairings : (p # q /\ pairing[p].device # NoOne) => pairing[p].device # pairing[q].device
    /\ \A u \in Approvers : Cardinality(LiveDevices(u)) <= MaxDevices

(* The television says that its pairing was revoked only when it was: no   *)
(* lost or late answer, restart or second pairing makes it give up one     *)
(* that the server still honours.                                          *)
RevokedIsGenuine == (tv.state = "REVOKED" /\ tv.cred # NoOne) => ~DeviceValid(tv.cred)

=============================================================================
