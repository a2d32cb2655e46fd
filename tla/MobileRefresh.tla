---------------------------- MODULE MobileRefresh ----------------------------
(***************************************************************************)
(* The phone's session: mobile_session and mobile_refresh_history with     *)
(* their queries (security_query.go), V2MobileRefresh and its neighbours   *)
(* (mobile_auth_controller.go), and the app's AuthRepository.kt.           *)
(*                                                                         *)
(* A refresh token is a session and a generation; the history holds the    *)
(* generations before the current one.  The app refreshes one at a time,   *)
(* but an answer may be lost while the server still works on the call, and *)
(* the answers of a sign-in or a password change are stored beside it.     *)
(***************************************************************************)
EXTENDS Naturals, FiniteSets

CONSTANTS
    Sessions,       \* rows of mobile_session
    Refreshes,          \* refreshes the server works on
    MaxGeneration,  \* bound on rotations of a session
    MaxChanges,     \* bound on account changes
    Nil

ASSUME PhoneAssumption == MaxGeneration \in Nat /\ Nil \notin Sessions \cup Refreshes

VARIABLES
    owner,     \* [version, ok]
    session,   \* rows
    spent,     \* how often a token was exchanged (history of the model)
    exchange,  \* the server's side of V2MobileRefresh
    app        \* the phone: stored token, and the refresh and change under way

mvars == <<owner, session, spent, exchange, app>>

Generations == 0 .. MaxGeneration
NoToken == [s |-> Nil, n |-> 0]
NoRefresh == [pc |-> "idle", token |-> NoToken, answer |-> "none"]

\* token: SecureTokenStore; refresh: the call whose answer refreshLock waits for;
\* envelope: an answer with a new session on its way; overlap: one was stored
\* while refreshLock was held.
PhoneInit ==
    /\ owner = [version |-> 1, ok |-> TRUE]
    /\ session = [s \in Sessions |-> [state |-> "free", n |-> 0, version |-> 0]]
    /\ spent = [s \in Sessions |-> [n \in Generations |-> 0]]
    /\ exchange = [k \in Refreshes |-> NoRefresh]
    /\ app = [token |-> NoToken, refresh |-> Nil, envelope |-> Nil, overlap |-> FALSE]

\* V2MobileRefresh's own conditions (mobile_auth_controller.go:252).
Honoured(s) ==
    session[s].state = "live" /\ owner.ok /\ owner.version = session[s].version

(***************************************************************************)
(* Rows.                                                                   *)
(***************************************************************************)

\* CreateMobileSession for the account as it was read (createMobileSession).
NewSession(rows, s, version) ==
    [rows EXCEPT ![s] = [state |-> "live", n |-> 0, version |-> version]]

Revoked(rows, ss) ==
    [s \in Sessions |-> IF s \in ss /\ rows[s].state = "live"
                        THEN [rows[s] EXCEPT !.state = "revoked"] ELSE rows[s]]

\* V2MobileLogin, and the answer with the tokens; it may be lost.
SignIn(s) ==
    /\ app.token = NoToken /\ app.envelope = Nil /\ session[s].state = "free" /\ owner.ok
    /\ session' = NewSession(session, s, owner.version)
    /\ app' \in {[app EXCEPT !.envelope = s], app}
    /\ UNCHANGED <<owner, spent, exchange>>

\* V2MobileChangePassword: the other sessions end and the phone gets a new one.
ChangePassword(s) ==
    /\ app.token # NoToken /\ app.envelope = Nil /\ Honoured(app.token.s)
    /\ session[s].state = "free" /\ owner.version < MaxChanges
    /\ owner' = [owner EXCEPT !.version = @ + 1]
    /\ \E kept \in {Revoked(session, Sessions), session} :
          session' = NewSession(kept, s, owner.version + 1)
    /\ app' \in {[app EXCEPT !.envelope = s], app}
    /\ UNCHANGED <<spent, exchange>>

\* An administrator or another device changes the account, or ends the session.
OwnerChanges(ok) ==
    /\ owner.version < MaxChanges
    /\ owner' = [version |-> owner.version + 1, ok |-> ok]
    /\ UNCHANGED <<session, spent, exchange, app>>

RevokeMobileSession(s) ==
    /\ session[s].state = "live"
    /\ session' = Revoked(session, {s})
    /\ UNCHANGED <<owner, spent, exchange, app>>

(***************************************************************************)
(* V2MobileRefresh.                                                        *)
(***************************************************************************)
AnswerRefresh(k, answer) ==
    exchange' = [exchange EXCEPT ![k] = IF app.refresh = k THEN [@ EXCEPT !.pc = "answered", !.answer = answer]
                                ELSE NoRefresh]

\* The session is found by its current hash or in the history, and refused and
\* revoked when it or its account no longer holds.
RefreshLookup(k) ==
    LET s == exchange[k].token.s IN
    /\ exchange[k].pc = "sent"
    /\ IF Honoured(s)
       THEN exchange' = [exchange EXCEPT ![k].pc = "rotate"] /\ UNCHANGED session
       ELSE AnswerRefresh(k, "refused") /\ session' = Revoked(session, {s})
    /\ UNCHANGED <<owner, spent, app>>

Rotate(k, token) ==
    /\ session' = [session EXCEPT ![token.s].n = @ + 1]
    /\ spent' = [spent EXCEPT ![token.s][token.n] = @ + 1]
    /\ AnswerRefresh(k, "rotated")

RotateMobileSession_ById(k) ==
    LET token == exchange[k].token IN
    /\ exchange[k].pc = "rotate"
    /\ IF session[token.s].state = "live" /\ session[token.s].n < MaxGeneration
       THEN Rotate(k, token)
       ELSE AnswerRefresh(k, "refused") /\ UNCHANGED <<session, spent>>
    /\ UNCHANGED <<owner, app>>

\* The transaction: compare and swap on the hash; a hash of the history ends the
\* session; otherwise no row.
RotateMobileSession(k) ==
    LET token == exchange[k].token  row == session[token.s] IN
    /\ exchange[k].pc = "rotate"
    /\ IF row.state = "live" /\ row.n = token.n
       THEN Rotate(k, token)
       ELSE /\ AnswerRefresh(k, "refused")
            /\ session' = IF token.n < row.n THEN Revoked(session, {token.s}) ELSE session
            /\ UNCHANGED spent
    /\ UNCHANGED <<owner, app>>

(***************************************************************************)
(* The app.                                                                *)
(***************************************************************************)

\* refresh: the stored token is read under refreshLock.
Refresh(k) ==
    /\ app.refresh = Nil /\ app.token # NoToken /\ app.token.n < MaxGeneration
    /\ exchange[k].pc = "idle"
    /\ exchange' = [exchange EXCEPT ![k] = [NoRefresh EXCEPT !.pc = "sent", !.token = app.token]]
    /\ app' = [app EXCEPT !.refresh = k, !.overlap = FALSE]
    /\ UNCHANGED <<owner, session, spent>>

Unlock(token) == [app EXCEPT !.token = token, !.refresh = Nil, !.overlap = FALSE]

RefreshAnswered_Clears(k) ==
    /\ app.refresh = k /\ exchange[k].pc \in {"sent", "rotate", "answered"}
    /\ app' = Unlock(IF exchange[k].answer = "rotated" THEN [exchange[k].token EXCEPT !.n = @ + 1] ELSE NoToken)
    /\ exchange' = IF exchange[k].pc = "answered" THEN [exchange EXCEPT ![k] = NoRefresh] ELSE exchange
    /\ UNCHANGED <<owner, session, spent>>

\* The new token is stored, 401 clears the store, and anything else (a lost
\* answer, a server error) leaves the old token there to be tried again.
RefreshAnswered(k) ==
    /\ app.refresh = k
    /\ \/ /\ exchange[k].pc = "answered"
          /\ app' = Unlock(IF exchange[k].answer = "rotated" THEN [exchange[k].token EXCEPT !.n = @ + 1] ELSE NoToken)
       \/ app' = Unlock(app.token)
    /\ exchange' = IF exchange[k].pc = "answered" THEN [exchange EXCEPT ![k] = NoRefresh] ELSE exchange
    /\ UNCHANGED <<owner, session, spent>>

\* persistEnvelope of a sign-in or password change does not take refreshLock.
PersistEnvelope ==
    /\ app.envelope # Nil
    /\ app' = [app EXCEPT !.token = [s |-> app.envelope, n |-> 0], !.envelope = Nil,
                          !.overlap = app.refresh # Nil]
    /\ UNCHANGED <<owner, session, spent, exchange>>

\* V2MobileLogout; the store is cleared unless the server failed, and the answer
\* may be lost.
SignOut ==
    /\ app.token # NoToken
    /\ session' = Revoked(session, IF Honoured(app.token.s) THEN {app.token.s} ELSE {})
    /\ app' \in {[app EXCEPT !.token = NoToken], app}
    /\ UNCHANGED <<owner, spent, exchange>>

\* The app is killed: the store survives.
RestartApp ==
    /\ app.refresh # Nil \/ app.envelope # Nil
    /\ app' = [app EXCEPT !.refresh = Nil, !.envelope = Nil, !.overlap = FALSE]
    /\ exchange' = [k \in Refreshes |-> IF exchange[k].pc = "answered" THEN NoRefresh ELSE exchange[k]]
    /\ UNCHANGED <<owner, session, spent>>

PhoneNext ==
    \/ \E s \in Sessions : SignIn(s) \/ ChangePassword(s) \/ RevokeMobileSession(s)
    \/ \E ok \in BOOLEAN : OwnerChanges(ok)
    \/ \E k \in Refreshes : RefreshLookup(k) \/ RotateMobileSession(k) \/ Refresh(k) \/ RefreshAnswered(k)
    \/ PersistEnvelope \/ SignOut \/ RestartApp

PhoneSpec == PhoneInit /\ [][PhoneNext]_mvars

-----------------------------------------------------------------------------
(* A refresh token is exchanged for a new one at most once, although the   *)
(* phone asks again after a lost answer while the first call still runs.   *)
ExchangedOnce == \A s \in Sessions, n \in Generations : spent[s][n] <= 1

(* A refresh signs the phone out only when the server no longer honours    *)
(* the stored session, unless a new one was stored during that refresh.    *)
SignedOutForAReason ==
    [][\A k \in Refreshes :
          (app.refresh = k /\ app'.refresh = Nil /\ ~app.overlap
             /\ app.token # NoToken /\ app'.token = NoToken)
              => ~Honoured(app.token.s)]_mvars

=============================================================================
