------------------------------- MODULE Accounts -------------------------------
(***************************************************************************)
(* Accounts and the credentials that depend on them: the tables app_user,  *)
(* user_mfa, auth_session, mobile_session, trusted_browser,                *)
(* media_access_key and auth_login_challenge (security_query.go) and the   *)
(* handlers that write them (auth_controller.go, mobile_auth_controller.go)*)
(*                                                                         *)
(* SQLite runs one writing transaction at a time, so a statement or a      *)
(* transaction is one step and a handler is a sequence of such steps: the  *)
(* statements still to run are request[r].todo.  The handlers discard the  *)
(* error of a revocation, so each of those may also do nothing.            *)
(***************************************************************************)
EXTENDS Naturals, Sequences, FiniteSets

CONSTANTS
    Users,        \* account ids; an id is never given twice
    Creds,        \* rows of the credential tables
    Challenges,   \* rows of auth_login_challenge
    Requests,     \* handlers in flight
    Streams,      \* MPEG-TS responses
    MaxVersion,   \* bound on auth_version: account changes beyond it are left out
    MaxCode,      \* one-time codes are the time steps 1 .. MaxCode
    MaxFailures,  \* loginChallengeFailures
    Scenarios     \* [users, creds, challenges, requests, ops, client, temp]: the rows and the
                  \* handlers of a behaviour, the client that signs in, and whether first
                  \* passwords are temporary

ASSUME AccountsAssumption ==
    /\ IsFiniteSet(Users) /\ MaxCode \in Nat
    /\ \A s \in Scenarios : s.temp \in BOOLEAN /\ s.client \in {"browser", "mobile"}

None == "none"
Kinds == {"browser", "mobile", "trusted", "key"}
Recovery == 0     \* the recovery code, beside the one-time codes

VARIABLES user, cred, challenge, request, stream, scenario

vars == <<user, cred, challenge, request, stream, scenario>>

NoCode == MaxCode + 1
\* role: "new", "admin", "viewer" or "gone"; mfa: "never" enrolled, "on" or "off"
\* again; counter: last time step used.
FreeUser == [role |-> "new", disabled |-> FALSE, version |-> 1, temp |-> FALSE, pass |-> 1,
             grant |-> FALSE, mfa |-> "never", counter |-> 0, recovery |-> FALSE]

\* version: of the account when it was issued; pass: the password proved by the
\* sign-in that made it (0: made by the account's own change); ch, code: what
\* second factor was spent on it.
FreeCred == [kind |-> None, owner |-> None, state |-> "free", version |-> 0, pass |-> 0,
             ch |-> None, code |-> NoCode]
FreeChallenge == [state |-> "free", owner |-> None, version |-> 0, pass |-> 0, failures |-> 0]

\* todo: the statements still to run, kinds of credentials to revoke among them;
\* u: the account; row: its row as read; pass: the password proved.
IdleRequest == [pc |-> "idle", u |-> None, row |-> FreeUser, kind |-> None, ch |-> None,
                code |-> NoCode, pass |-> 0, todo |-> <<>>]

IdleStream == [pc |-> "idle", cred |-> None]

Exists(u) == user[u].role \in {"admin", "viewer"}
EndsAdmin(u, role, disabled) ==
    user[u].role = "admin" /\ ~user[u].disabled /\ (role # "admin" \/ disabled)
EnabledAdmins(table) == {u \in Users : table[u].role = "admin" /\ ~table[u].disabled}

\* The row an INSERT into app_user makes.
NewRow(role, grant) == [FreeUser EXCEPT !.role = role, !.temp = scenario.temp, !.grant = grant /\ role = "viewer"]

(***************************************************************************)
(* Whether a credential is honoured now, by the middleware and by the      *)
(* queries that a running stream asks again: of a media key its row and    *)
(* its owner, of a session the password version as well.                   *)
(***************************************************************************)
RowHonoured(c) == cred[c].state = "live" /\ Exists(cred[c].owner) /\ ~user[cred[c].owner].disabled
OfThisVersion(c) == cred[c].version = user[cred[c].owner].version
Valid(c) == RowHonoured(c) /\ (cred[c].kind # "key" => OfThisVersion(c))

\* SessionCanAccessChannel, MobileSessionCanAccessChannel, MediaKeyAllowsChannel.
CanAccessChannel(c) ==
    /\ Valid(c)
    /\ user[cred[c].owner].role = "admin" \/ user[cred[c].owner].grant

(***************************************************************************)
(* Queries.  Each maps a table to the table after it.                      *)
(***************************************************************************)
\* RevokeUserSessions, RevokeUserMobileSessions, RevokeUserTrustedBrowsers,
\* RevokeUserMediaKeys: UPDATE ... WHERE user_id = ? AND revoked_at IS NULL.
RevokeUser(table, u, kind) ==
    [c \in Creds |-> IF table[c].kind = kind /\ table[c].owner = u /\ table[c].state = "live"
                     THEN [table[c] EXCEPT !.state = "revoked"] ELSE table[c]]

\* ON DELETE CASCADE of a deleted account.
Cascade(table, u) ==
    [x \in DOMAIN table |-> IF table[x].owner = u
                            THEN [table[x] EXCEPT !.state = "deleted"] ELSE table[x]]

InsertCred(c, kind, u, version, pass, ch, code) ==
    /\ c \in scenario.creds /\ cred[c].state = "free"
    /\ cred' = [cred EXCEPT ![c] = [kind |-> kind, owner |-> u, state |-> "live", version |-> version,
                                    pass |-> pass, ch |-> ch, code |-> code]]

CredsOf(u) == {c \in Creds : cred[c].owner = u}

\* DisconnectAuthorizedClients: registered viewers only.
Disconnect(creds) ==
    stream' = [s \in Streams |-> IF stream[s].pc = "playing" /\ stream[s].cred \in creds
                                 THEN [stream[s] EXCEPT !.pc = "ended"] ELSE stream[s]]

May(op) == op \in scenario.ops
Start(r, op) == May(op) /\ r \in scenario.requests /\ request[r].pc = "idle"
Finish(r) == request' = [request EXCEPT ![r] = IdleRequest]

\* Goes on with a list of statements, or is done when there are none.
ThenRun(r, u, pass, code, todo) ==
    request' = [request EXCEPT ![r] = [IdleRequest EXCEPT !.pc = "running", !.u = u, !.pass = pass,
                                                          !.code = code, !.todo = todo]]

Init ==
    /\ user = [u \in Users |-> FreeUser]
    /\ cred = [c \in Creds |-> FreeCred]
    /\ challenge = [h \in Challenges |-> FreeChallenge]
    /\ request = [r \in Requests |-> IdleRequest]
    /\ stream = [s \in Streams |-> IdleStream]
    /\ scenario \in Scenarios

(***************************************************************************)
(* Account rows.                                                           *)
(***************************************************************************)

\* The server creates the first administrator when the table is empty.
CreateInitialAdminIfEmpty(u) ==
    /\ u \in scenario.users /\ \A x \in Users : user[x].role = "new"
    /\ user' = [user EXCEPT ![u] = NewRow("admin", FALSE)]
    /\ UNCHANGED <<cred, challenge, request, stream, scenario>>

CreateUser(u, role, grant) ==
    /\ u \in scenario.users /\ user[u].role = "new" /\ \E x \in Users : Exists(x)
    /\ user' = [user EXCEPT ![u] = NewRow(role, grant)]
    /\ UNCHANGED <<cred, challenge, request, stream, scenario>>

Written(u, role, disabled, grant) ==
    [user EXCEPT ![u].role = role, ![u].disabled = disabled, ![u].grant = grant /\ role = "viewer"]

UpdateUser_KeepsVersion(u, role, disabled, grant) ==
    /\ EndsAdmin(u, role, disabled) => Cardinality(EnabledAdmins(user)) > 1
    /\ user' = Written(u, role, disabled, grant)

UpdateUser_Unchecked(u, role, disabled, grant) ==
    user' = [Written(u, role, disabled, grant) EXCEPT ![u].version = @ + 1]

\* The transaction: the administrators are counted where the row is written.
UpdateUser(u, role, disabled, grant) ==
    /\ EndsAdmin(u, role, disabled) => Cardinality(EnabledAdmins(user)) > 1
    /\ user' = [Written(u, role, disabled, grant) EXCEPT ![u].version = @ + 1]

Everything == <<"browser", "mobile", "trusted", "key", "disconnect">>

\* The handler's own count of administrators can only refuse earlier.
V2UpdateStudioUser(r, u, role, disabled, grant) ==
    /\ Start(r, "update") /\ Exists(u) /\ user[u].version < MaxVersion
    /\ UpdateUser(u, role, disabled, grant)
    /\ ThenRun(r, u, 0, NoCode, Everything)
    /\ UNCHANGED <<cred, challenge, stream, scenario>>

\* V2DeleteStudioUser: viewers are disconnected before the transaction, so a
\* stream that registers in between is left to its own check.
V2DeleteStudioUser(r, u) ==
    /\ Start(r, "delete") /\ Exists(u)
    /\ Disconnect(CredsOf(u))
    /\ request' = [request EXCEPT ![r] = [IdleRequest EXCEPT !.pc = "deleting", !.u = u]]
    /\ UNCHANGED <<user, cred, challenge, scenario>>

DeleteUser(r) ==
    LET u == request[r].u IN
    /\ request[r].pc = "deleting"
    /\ IF Exists(u) /\ (u \in EnabledAdmins(user) => Cardinality(EnabledAdmins(user)) > 1)
       THEN /\ user' = [user EXCEPT ![u] = [FreeUser EXCEPT !.role = "gone"]]
            /\ cred' = Cascade(cred, u)
            /\ challenge' = Cascade(challenge, u)
       ELSE UNCHANGED <<user, cred, challenge>>
    /\ Finish(r)
    /\ UNCHANGED <<stream, scenario>>

\* A new name advances the version; media keys survive it.
UpdateUserIdentity(u) ==
    /\ Exists(u) /\ user[u].version < MaxVersion
    /\ user' = [user EXCEPT ![u].version = @ + 1]

V2UpdateStudioUserProfile(r, u) ==
    /\ Start(r, "identity") /\ UpdateUserIdentity(u)
    /\ ThenRun(r, u, 0, NoCode, <<"browser", "mobile", "trusted", "disconnect">>)
    /\ UNCHANGED <<cred, challenge, stream, scenario>>

\* The user's own change, after which a new session follows.
V2UpdateAccountProfile(r, u) ==
    /\ Start(r, "identity") /\ UpdateUserIdentity(u)
    /\ ThenRun(r, u, 0, NoCode, <<"browser", "mobile", "trusted", "disconnect", "reload", "session">>)
    /\ UNCHANGED <<cred, challenge, stream, scenario>>

\* Both passwords are written whatever the row is by then.
SetUserPassword(u, temp) ==
    /\ Exists(u) /\ user[u].version < MaxVersion
    /\ user' = [user EXCEPT ![u].version = @ + 1, ![u].pass = user[u].version + 1, ![u].temp = temp]

V2ResetStudioUserPassword(r, u) ==
    /\ Start(r, "passwords") /\ SetUserPassword(u, TRUE)
    /\ ThenRun(r, u, 0, NoCode, Everything)
    /\ UNCHANGED <<cred, challenge, stream, scenario>>

\* The accounts after a second factor of one was verified outside a sign-in.
FactorSpent(u) ==
    {[user EXCEPT ![u].counter = code] : code \in (user[u].counter + 1) .. MaxCode}
      \cup (IF user[u].recovery THEN {[user EXCEPT ![u].recovery = FALSE]} ELSE {})

\* The current password and factor are verified against a row read before the write.
V2ChangePassword(r, u) ==
    /\ Start(r, "passwords") /\ Exists(u)
    /\ request' = [request EXCEPT ![r] = [IdleRequest EXCEPT !.pc = "changing", !.u = u]]
    /\ user' \in (IF user[u].mfa = "on" THEN FactorSpent(u) ELSE {user})
    /\ UNCHANGED <<cred, challenge, stream, scenario>>

WriteNewPassword(r) ==
    LET u == request[r].u IN
    /\ request[r].pc = "changing" /\ SetUserPassword(u, FALSE)
    /\ ThenRun(r, u, 0, NoCode, Everything \o <<"reload", "session">>)
    /\ UNCHANGED <<cred, challenge, stream, scenario>>

\* Once for each account: SaveMFA; the list follows.
V2MFAConfirm(r, u, code) ==
    /\ Start(r, "enrol") /\ Exists(u) /\ user[u].mfa = "never"
    /\ user' = [user EXCEPT ![u].mfa = "on", ![u].counter = 0]
    /\ ThenRun(r, u, 0, code, <<"counter", "recovery", "browser", "mobile", "trusted", "reload", "session">>)
    /\ UNCHANGED <<cred, challenge, stream, scenario>>

DisableMFA(u) ==
    /\ Exists(u) /\ user[u].mfa = "on"
    /\ user' = [user EXCEPT ![u].mfa = "off", ![u].recovery = FALSE]

V2MFADisable(r, u) ==
    /\ Start(r, "unenrol") /\ DisableMFA(u)
    /\ ThenRun(r, u, 0, NoCode, <<"browser", "mobile", "trusted", "disconnect">>)
    /\ UNCHANGED <<cred, challenge, stream, scenario>>

V2ResetStudioUserMFA(r, u) ==
    /\ Start(r, "unenrol") /\ DisableMFA(u)
    /\ ThenRun(r, u, 0, NoCode, <<"browser", "mobile", "trusted", "disconnect">>)
    /\ UNCHANGED <<cred, challenge, stream, scenario>>

(***************************************************************************)
(* The statements that follow in those handlers.                           *)
(***************************************************************************)

Rest(r) == [request EXCEPT ![r].todo = Tail(@)]

RunRevocation(r) ==
    /\ request[r].pc = "running" /\ request[r].todo # <<>>
    /\ Head(request[r].todo) \in Kinds
    /\ \/ cred' = RevokeUser(cred, request[r].u, Head(request[r].todo))
       \/ UNCHANGED cred
    /\ request' = Rest(r)
    /\ UNCHANGED <<user, challenge, stream, scenario>>

RunDisconnect(r) ==
    /\ request[r].pc = "running" /\ request[r].todo # <<>> /\ Head(request[r].todo) = "disconnect"
    /\ Disconnect(CredsOf(request[r].u))
    /\ request' = Rest(r)
    /\ UNCHANGED <<user, cred, challenge, scenario>>

\* UseMFACounter and ReplaceRecoveryCodes of V2MFAConfirm; when the codes cannot
\* be stored the factor is taken back and the handler ends.
RunEnrolment(r) ==
    LET u == request[r].u IN
    /\ request[r].pc = "running" /\ request[r].todo # <<>>
    /\ \/ /\ Head(request[r].todo) = "counter"
          /\ user' = IF user[u].mfa = "on" /\ user[u].counter < request[r].code
                     THEN [user EXCEPT ![u].counter = request[r].code] ELSE user
          /\ request' = Rest(r)
       \/ /\ Head(request[r].todo) = "recovery" /\ Exists(u)
          /\ user' = [user EXCEPT ![u].recovery = TRUE]
          /\ request' = Rest(r)
       \/ /\ Head(request[r].todo) = "recovery"
          /\ user' = IF user[u].mfa = "on"
                     THEN [user EXCEPT ![u].mfa = "off", ![u].recovery = FALSE] ELSE user
          /\ Finish(r)
    /\ UNCHANGED <<cred, challenge, stream, scenario>>

\* The account is read again and the caller goes on with a session of its own.
RunReload(r) ==
    /\ request[r].pc = "running" /\ request[r].todo # <<>> /\ Head(request[r].todo) = "reload"
    /\ Exists(request[r].u)
    /\ request' = [request EXCEPT ![r].todo = Tail(@), ![r].row = user[request[r].u]]
    /\ UNCHANGED <<user, cred, challenge, stream, scenario>>

RunSession(r, c, kind) ==
    LET u == request[r].u IN
    /\ request[r].pc = "running" /\ request[r].todo # <<>> /\ Head(request[r].todo) = "session"
    /\ Exists(u)
    /\ InsertCred(c, kind, u, request[r].row.version, 0, None, NoCode)
    /\ Finish(r)
    /\ UNCHANGED <<user, challenge, stream, scenario>>

\* The list is done, or the account is gone, or the answer failed.
RunEnds(r) ==
    /\ request[r].pc \in {"running", "changing"}
    /\ \/ request[r].todo = <<>> /\ request[r].pc = "running"
       \/ request[r].pc = "running" /\ request[r].todo # <<>> /\ Head(request[r].todo) \in {"reload", "session"}
       \/ ~Exists(request[r].u)
    /\ Finish(r)
    /\ UNCHANGED <<user, cred, challenge, stream, scenario>>

(***************************************************************************)
(* Sign-in.                                                                *)
(***************************************************************************)

\* The account is read and the password verified against the row as read (a
\* wrong password changes nothing here; see LoginThrottle).
LoginLookup(r, u, kind) ==
    /\ Start(r, "login") /\ Exists(u) /\ ~user[u].disabled
    /\ request' = [request EXCEPT ![r] = [IdleRequest EXCEPT !.pc = "login", !.u = u, !.row = user[u],
                                                             !.kind = kind, !.pass = user[u].pass]]
    /\ UNCHANGED <<user, cred, challenge, stream, scenario>>

V2Login(r, u) == scenario.client = "browser" /\ LoginLookup(r, u, "browser")
V2MobileLogin(r, u) == scenario.client = "mobile" /\ LoginLookup(r, u, "mobile")

\* trustedBrowserValid: no second factor from a browser that is trusted.
TrustedBrowser(r) ==
    \E c \in Creds : /\ request[r].kind = "browser"
                     /\ cred[c].kind = "trusted" /\ cred[c].owner = request[r].u
                     /\ cred[c].state = "live" /\ cred[c].version = request[r].row.version

\* A row is inserted for the account that was read; a deleted one is refused by
\* the foreign key.
LoginSession_Rereads(r, c) ==
    /\ request[r].pc = "login" /\ Exists(request[r].u)
    /\ request[r].row.mfa = "on" => TrustedBrowser(r)
    /\ InsertCred(c, request[r].kind, request[r].u, user[request[r].u].version, request[r].pass, None, NoCode)
    /\ Finish(r)
    /\ UNCHANGED <<user, challenge, stream, scenario>>

LoginSession(r, c) ==
    /\ request[r].pc = "login" /\ Exists(request[r].u)
    /\ request[r].row.mfa = "on" => TrustedBrowser(r)
    /\ InsertCred(c, request[r].kind, request[r].u, request[r].row.version, request[r].pass, None, NoCode)
    /\ Finish(r)
    /\ UNCHANGED <<user, challenge, stream, scenario>>

CreateLoginChallenge(r, h) ==
    /\ request[r].pc = "login" /\ Exists(request[r].u)
    /\ request[r].row.mfa = "on" /\ ~TrustedBrowser(r)
    /\ h \in scenario.challenges /\ challenge[h].state = "free"
    /\ challenge' = [challenge EXCEPT ![h] =
          [state |-> "open", owner |-> request[r].u, version |-> request[r].row.version,
           pass |-> request[r].pass, failures |-> 0]]
    /\ Finish(r)
    /\ UNCHANGED <<user, cred, stream, scenario>>

\* The challenge and the account are read and compared.
CompleteLookup(r, h, kind) ==
    LET u == challenge[h].owner IN
    /\ Start(r, "login") /\ challenge[h].state = "open" /\ challenge[h].failures < MaxFailures
    /\ Exists(u) /\ ~user[u].disabled /\ user[u].mfa = "on" /\ user[u].version = challenge[h].version
    /\ request' = [request EXCEPT ![r] = [IdleRequest EXCEPT !.pc = "verify", !.u = u, !.row = user[u],
                                             !.kind = kind, !.ch = h, !.pass = challenge[h].pass]]
    /\ UNCHANGED <<user, cred, challenge, stream, scenario>>

V2CompleteMFALogin(r, h) == scenario.client = "browser" /\ CompleteLookup(r, h, "browser")
V2MobileCompleteMFALogin(r, h) == scenario.client = "mobile" /\ CompleteLookup(r, h, "mobile")

\* verifyUserMFA with a one-time code: a time step later than the last one used.
UseMFACounter(r, code) ==
    /\ request[r].pc = "verify" /\ user[request[r].u].mfa = "on"
    /\ code > user[request[r].u].counter
    /\ user' = [user EXCEPT ![request[r].u].counter = code]
    /\ request' = [request EXCEPT ![r].pc = "proved", ![r].code = code]
    /\ UNCHANGED <<cred, challenge, stream, scenario>>

\* verifyUserMFA with a recovery code.
UseRecoveryCode(r) ==
    /\ request[r].pc = "verify" /\ user[request[r].u].recovery
    /\ user' = [user EXCEPT ![request[r].u].recovery = FALSE]
    /\ request' = [request EXCEPT ![r].pc = "proved", ![r].code = Recovery]
    /\ UNCHANGED <<cred, challenge, stream, scenario>>

RecordLoginChallengeFailure(r) ==
    LET h == request[r].ch IN
    /\ request[r].pc = "verify"
    /\ challenge' = IF challenge[h].state = "open" /\ challenge[h].failures < MaxFailures
                    THEN [challenge EXCEPT ![h].failures = @ + 1] ELSE challenge
    /\ Finish(r)
    /\ UNCHANGED <<user, cred, stream, scenario>>

ConsumeLoginChallenge_Twice(r) ==
    /\ request[r].pc = "proved"
    /\ IF challenge[request[r].ch].failures < MaxFailures
       THEN /\ challenge' = [challenge EXCEPT ![request[r].ch].state = "consumed"]
            /\ request' = [request EXCEPT ![r].pc = "consumed"]
       ELSE Finish(r) /\ UNCHANGED challenge
    /\ UNCHANGED <<user, cred, stream, scenario>>

\* UPDATE ... WHERE consumed_at IS NULL AND failure_count < ?: one of several
\* requests with the same challenge goes on.
ConsumeLoginChallenge(r) ==
    LET h == request[r].ch IN
    /\ request[r].pc = "proved"
    /\ IF challenge[h].state = "open" /\ challenge[h].failures < MaxFailures
       THEN /\ challenge' = [challenge EXCEPT ![h].state = "consumed"]
            /\ request' = [request EXCEPT ![r].pc = "consumed"]
       ELSE Finish(r) /\ UNCHANGED challenge
    /\ UNCHANGED <<user, cred, stream, scenario>>

\* The session, and a trusted browser with it when the user asked for one.
CompleteSession(r, c, trust) ==
    LET q == request[r] IN
    /\ q.pc = "consumed" /\ Exists(q.u)
    /\ InsertCred(c, q.kind, q.u, q.row.version, q.pass, q.ch, q.code)
    /\ request' = IF trust /\ q.kind = "browser" THEN [request EXCEPT ![r].pc = "trusting"]
                  ELSE [request EXCEPT ![r] = IdleRequest]
    /\ UNCHANGED <<user, challenge, stream, scenario>>

CreateTrustedBrowser(r, c) ==
    LET q == request[r] IN
    /\ q.pc = "trusting" /\ Exists(q.u)
    /\ InsertCred(c, "trusted", q.u, q.row.version, q.pass, None, NoCode)
    /\ Finish(r)
    /\ UNCHANGED <<user, challenge, stream, scenario>>

\* The insert is refused (the account is gone) or the answer failed.
SignInFails(r) ==
    /\ request[r].pc \in {"login", "consumed", "trusting"}
    /\ Finish(r)
    /\ UNCHANGED <<user, cred, challenge, stream, scenario>>

CreateMediaKey(u, c) ==
    /\ May("key") /\ Exists(u) /\ ~user[u].disabled /\ ~user[u].temp
    /\ user[u].role = "admin" \/ user[u].grant
    /\ InsertCred(c, "key", u, user[u].version, 0, None, NoCode)
    /\ UNCHANGED <<user, challenge, request, stream, scenario>>

(***************************************************************************)
(* Ends of credentials, and the streams they carry.                        *)
(***************************************************************************)

\* V2Logout, v2RevokeUserSession, V2RevokeAccountMediaKey and their like revoke
\* one row and disconnect its viewers; DisconnectAuthorizedClients is a later
\* step, as a stream may register in between.
RevokeOne(r, c) ==
    /\ Start(r, "logout") /\ cred[c].state = "live" /\ cred[c].kind # "trusted"
    /\ cred' = [cred EXCEPT ![c].state = "revoked"]
    /\ request' = [request EXCEPT ![r] = [IdleRequest EXCEPT !.pc = "revoked", !.kind = c]]
    /\ UNCHANGED <<user, challenge, stream, scenario>>

DisconnectOne(r) ==
    /\ request[r].pc = "revoked"
    /\ Disconnect({request[r].kind})
    /\ Finish(r)
    /\ UNCHANGED <<user, cred, challenge, scenario>>

\* A row runs out, is revoked by the middleware that found it invalid
\* (AuthenticateSession), or is revoked as a trusted browser.
CredEnds(c) ==
    /\ May("logout") /\ cred[c].state = "live"
    /\ cred' = [cred EXCEPT ![c].state = "revoked"]
    /\ UNCHANGED <<user, challenge, request, stream, scenario>>

\* PruneSecurityData deletes rows that ended, and login challenges that ran out.
PruneSecurityData ==
    /\ May("prune")
    /\ cred' = [c \in Creds |-> IF cred[c].state = "revoked"
                                THEN [cred[c] EXCEPT !.state = "deleted"] ELSE cred[c]]
    /\ challenge' = [h \in Challenges |-> IF challenge[h].state \in {"open", "consumed"}
                                          THEN [challenge[h] EXCEPT !.state = "deleted"] ELSE challenge[h]]
    /\ cred' # cred \/ challenge' # challenge
    /\ UNCHANGED <<user, request, stream, scenario>>

\* RequirePlayback admits the request ...
AdmitStream(s, c) ==
    /\ May("watch") /\ stream[s].pc = "idle" /\ cred[c].kind \in {"browser", "mobile", "key"} /\ CanAccessChannel(c)
    /\ cred[c].kind # "key" => ~user[cred[c].owner].temp
    /\ stream' = [stream EXCEPT ![s] = [pc |-> "admitted", cred |-> c]]
    /\ UNCHANGED <<user, cred, challenge, request, scenario>>

\* ... and the handler registers the viewer.
RegisterStream(s) ==
    /\ stream[s].pc = "admitted"
    /\ stream' = [stream EXCEPT ![s].pc = "playing"]
    /\ UNCHANGED <<user, cred, challenge, request, scenario>>

RecheckStream_RowOnly(s) ==
    /\ stream[s].pc = "playing" /\ cred[stream[s].cred].state \in {"revoked", "deleted"}
    /\ stream' = [stream EXCEPT ![s].pc = "ended"]
    /\ UNCHANGED <<user, cred, challenge, request, scenario>>

\* Every ten seconds the response asks whether it is still authorised.
RecheckStream(s) ==
    /\ stream[s].pc = "playing" /\ ~CanAccessChannel(stream[s].cred)
    /\ stream' = [stream EXCEPT ![s].pc = "ended"]
    /\ UNCHANGED <<user, cred, challenge, request, scenario>>

-----------------------------------------------------------------------------
AccountStep(r) ==
    \/ \E u \in Users :
          \/ \E role \in {"admin", "viewer"}, disabled, grant \in BOOLEAN :
                V2UpdateStudioUser(r, u, role, disabled, grant)
          \/ V2DeleteStudioUser(r, u)
          \/ V2UpdateStudioUserProfile(r, u) \/ V2UpdateAccountProfile(r, u)
          \/ V2ResetStudioUserPassword(r, u) \/ V2ChangePassword(r, u)
          \/ V2MFAConfirm(r, u, 1)   \* the first time step
          \/ V2MFADisable(r, u) \/ V2ResetStudioUserMFA(r, u)
    \/ DeleteUser(r)
    \/ WriteNewPassword(r)

FollowStep(r) ==
    \/ RunRevocation(r) \/ RunDisconnect(r) \/ RunEnrolment(r) \/ RunReload(r) \/ RunEnds(r)
    \/ \E c \in Creds : RunSession(r, c, scenario.client)

SignInStep(r) ==
    \/ \E u \in Users : V2Login(r, u) \/ V2MobileLogin(r, u)
    \/ \E c \in Creds : LoginSession(r, c) \/ CreateTrustedBrowser(r, c)
    \/ \E c \in Creds, trust \in BOOLEAN : CompleteSession(r, c, trust)
    \/ \E h \in Challenges :
          \/ CreateLoginChallenge(r, h)
          \/ V2CompleteMFALogin(r, h) \/ V2MobileCompleteMFALogin(r, h)
    \/ \E code \in 1 .. MaxCode : UseMFACounter(r, code)
    \/ UseRecoveryCode(r)
    \/ RecordLoginChallengeFailure(r)
    \/ ConsumeLoginChallenge(r)
    \/ SignInFails(r)

RowStep ==
    \/ \E u \in Users :
          \/ CreateInitialAdminIfEmpty(u)
          \/ \E role \in {"admin", "viewer"}, grant \in BOOLEAN : CreateUser(u, role, grant)
          \/ \E c \in Creds : CreateMediaKey(u, c)
    \/ \E c \in Creds : CredEnds(c)
    \/ PruneSecurityData

StreamStep(s) ==
    \/ \E c \in Creds : AdmitStream(s, c)
    \/ RegisterStream(s)
    \/ RecheckStream(s)

Next ==
    \/ RowStep
    \/ \E r \in Requests : AccountStep(r) \/ FollowStep(r) \/ SignInStep(r) \/ DisconnectOne(r)
    \/ \E r \in Requests, c \in Creds : RevokeOne(r, c)
    \/ \E s \in Streams : StreamStep(s)

Spec == Init /\ [][Next]_vars /\ \A s \in Streams : WF_vars(RecheckStream(s))

-----------------------------------------------------------------------------
(* Once the first administrator exists, an enabled administrator remains,  *)
(* however administrators demote, disable and delete each other at once.   *)
AdminRemains ==
    (\E u \in Users : user[u].role # "new") => EnabledAdmins(user) # {}

(* A session that is honoured was opened with the password the account has *)
(* now: one that proved an older password, however late it is inserted and *)
(* whichever revocations failed, is never honoured.                        *)
SignInsCurrent ==
    \A c \in Creds : (Valid(c) /\ cred[c].pass > 0) => cred[c].pass = user[cred[c].owner].pass

(* A login challenge opens one session, and so does a one-time code or a   *)
(* recovery code, whatever requests race with them.                        *)
SecondFactorOnce ==
    \A c, d \in Creds : c # d =>
        /\ cred[c].ch # None => cred[c].ch # cred[d].ch
        /\ cred[c].code # NoCode => <<cred[c].owner, cred[c].code>> # <<cred[d].owner, cred[d].code>>

(* A session or trusted browser that is not honoured is never honoured     *)
(* again, although revocations may fail and accounts are enabled again.    *)
NoRevival ==
    [][\A c \in Creds :
          (cred[c].kind \in {"browser", "mobile", "trusted"} /\ ~Valid(c)) => ~Valid(c)']_vars

(* A stream whose credential lost its access ends, also when it registered *)
(* too late to be disconnected, and unless a key's owner regains access.   *)
RevokedStreamsEnd ==
    \A s \in Streams, c \in Creds :
        (stream[s] = [pc |-> "playing", cred |-> c] /\ ~CanAccessChannel(c))
            ~> (stream[s].pc = "ended" \/ (cred[c].kind = "key" /\ CanAccessChannel(c)))

=============================================================================
