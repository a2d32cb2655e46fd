---------------------------- MODULE DeviceProofs -----------------------------
(***************************************************************************)
(* Safety of the devices that sign in without a browser: the sessions of   *)
(* phones (MobileRefresh) and the pairings of televisions (TvPairing).     *)
(***************************************************************************)
EXTENDS MobileRefresh, TvPairing, FiniteSetTheorems, TLAPS

-----------------------------------------------------------------------------
(***************************************************************************)
(* No refresh token of a phone is exchanged twice, for any number of       *)
(* sessions, of refreshes the server works on at once, and of rotations.   *)
(*                                                                         *)
(* ExchangedOnce is not inductive: the swap of RotateMobileSession counts  *)
(* an exchange of the generation the row shows, so the row must be beyond  *)
(* every generation spent, and a row that is still free must show          *)
(* generation 0, because CreateMobileSession starts there.                 *)
(***************************************************************************)

Tokens == [s : Sessions, n : Generations]

Rows == [Sessions -> [state : {"free", "live", "revoked"}, n : Generations, version : Nat]]
ServerCalls == [Refreshes -> [pc : {"idle", "sent", "rotate", "answered"}, token : Tokens \cup {NoToken},
                              answer : {"none", "rotated", "refused"}]]
AppStates == [token : Tokens \cup {NoToken}, refresh : Refreshes \cup {Nil},
              envelope : Sessions \cup {Nil}, overlap : BOOLEAN]

PhoneTypeOK ==
    /\ owner \in [version : Nat, ok : BOOLEAN]
    /\ session \in Rows
    /\ spent \in [Sessions -> [Generations -> Nat]]
    /\ exchange \in ServerCalls
    /\ app \in AppStates

\* A call carries a token of the store, with a generation left to move to.
CallsCarryTokens ==
    \A k \in Refreshes : exchange[k].pc # "idle" =>
        exchange[k].token \in Tokens /\ exchange[k].token.n < MaxGeneration

\* Only generations before the row's own were exchanged, each once.
SpentBehind ==
    \A s \in Sessions, n \in Generations :
        spent[s][n] <= 1 /\ (spent[s][n] # 0 => n < session[s].n)

FreshRows == \A s \in Sessions : session[s].state = "free" => session[s].n = 0

PhoneInv == PhoneTypeOK /\ CallsCarryTokens /\ SpentBehind /\ FreshRows

-----------------------------------------------------------------------------
(* Revoking rows changes neither their generations nor which are free.     *)
LEMMA RevokingKeepsRows ==
    ASSUME PhoneInv, NEW ss
    PROVE  /\ Revoked(session, ss) \in Rows
           /\ \A s \in Sessions : /\ Revoked(session, ss)[s].n = session[s].n
                                  /\ Revoked(session, ss)[s].state = "free" <=> session[s].state = "free"
  <1>1. session \in Rows  BY DEF PhoneInv, PhoneTypeOK
  <1>2. Revoked(session, ss) \in Rows
    <2>1. ASSUME NEW s \in Sessions
          PROVE  [session[s] EXCEPT !.state = "revoked"]
                    \in [state : {"free", "live", "revoked"}, n : Generations, version : Nat]
      BY <1>1 DEF Rows
    <2>. QED  BY <1>1, <2>1 DEF Rows, Revoked
  <1>3. ASSUME NEW s \in Sessions
        PROVE  /\ Revoked(session, ss)[s].n = session[s].n
               /\ Revoked(session, ss)[s].state = "free" <=> session[s].state = "free"
    BY <1>1 DEF Rows, Revoked
  <1>. QED  BY <1>2, <1>3

(* An answer leaves every call well formed.                                *)
LEMMA AnsweringKeepsCalls ==
    ASSUME PhoneInv, NEW k \in Refreshes, exchange[k].pc # "idle", NEW answer \in {"rotated", "refused"},
           AnswerRefresh(k, answer)
    PROVE  /\ exchange' \in ServerCalls
           /\ CallsCarryTokens'
  <1>. DEFINE answered == IF app.refresh = k THEN [exchange[k] EXCEPT !.pc = "answered", !.answer = answer]
                          ELSE NoRefresh
  <1>1. exchange \in ServerCalls /\ exchange[k].token \in Tokens /\ exchange[k].token.n < MaxGeneration
    BY DEF PhoneInv, PhoneTypeOK, CallsCarryTokens
  <1>2. exchange' = [exchange EXCEPT ![k] = answered]  BY DEF AnswerRefresh
  <1>3. /\ answered \in [pc : {"idle", "sent", "rotate", "answered"}, token : Tokens \cup {NoToken},
                         answer : {"none", "rotated", "refused"}]
        /\ answered.pc # "idle" => answered.token = exchange[k].token
    BY <1>1 DEF ServerCalls, NoRefresh
  <1>4. exchange' \in ServerCalls  BY <1>1, <1>2, <1>3 DEF ServerCalls
  <1>5. CallsCarryTokens'
    BY <1>1, <1>2, <1>3 DEF PhoneInv, CallsCarryTokens, ServerCalls
  <1>. QED  BY <1>4, <1>5

(* A step of the account, of the rows alone or of the phone.               *)
LEMMA RowsKeepInv ==
    ASSUME PhoneInv, UNCHANGED <<spent, exchange>>,
           owner' \in [version : Nat, ok : BOOLEAN],
           session' \in Rows,
           \A s \in Sessions : /\ session'[s].n = session[s].n
                               /\ session'[s].state = "free" => session[s].state = "free",
           app' \in AppStates
    PROVE  PhoneInv'
  <1>1. PhoneTypeOK'  BY DEF PhoneInv, PhoneTypeOK
  <1>2. CallsCarryTokens'  BY DEF PhoneInv, CallsCarryTokens
  <1>3. SpentBehind'  BY DEF PhoneInv, SpentBehind
  <1>4. FreshRows'  BY DEF PhoneInv, FreshRows
  <1>. QED  BY <1>1, <1>2, <1>3, <1>4 DEF PhoneInv

-----------------------------------------------------------------------------
LEMMA PhoneInitInv == PhoneInit => PhoneInv
  <1>. SUFFICES ASSUME PhoneInit PROVE PhoneInv
    OBVIOUS
  <1>1. 0 \in Generations  BY PhoneAssumption DEF Generations
  <1>2. PhoneTypeOK  BY <1>1 DEF PhoneInit, PhoneTypeOK, NoRefresh, Rows, ServerCalls, AppStates
  <1>3. CallsCarryTokens  BY DEF PhoneInit, CallsCarryTokens, NoRefresh
  <1>4. SpentBehind /\ FreshRows  BY DEF PhoneInit, SpentBehind, FreshRows
  <1>. QED  BY <1>2, <1>3, <1>4 DEF PhoneInv

(* A new session takes a free row, whose generation is 0 already.          *)
LEMMA NewSessionKeepsRows ==
    ASSUME PhoneInv, NEW s \in Sessions, session[s].state = "free", NEW version \in Nat,
           NEW rows \in Rows,
           \A q \in Sessions : /\ rows[q].n = session[q].n
                               /\ rows[q].state = "free" <=> session[q].state = "free"
    PROVE  /\ NewSession(rows, s, version) \in Rows
           /\ \A q \in Sessions : /\ NewSession(rows, s, version)[q].n = session[q].n
                                  /\ NewSession(rows, s, version)[q].state = "free" => session[q].state = "free"
  <1>1. 0 \in Generations  BY PhoneAssumption DEF Generations
  <1>. QED  BY <1>1 DEF PhoneInv, FreshRows, NewSession, Rows

LEMMA SignInKeepsInv ==
    ASSUME PhoneInv, NEW s \in Sessions, SignIn(s)
    PROVE  PhoneInv'
  <1>0. session \in Rows  BY DEF PhoneInv, PhoneTypeOK
  <1>1. owner.version \in Nat /\ session[s].state = "free"  BY DEF PhoneInv, PhoneTypeOK, Rows, SignIn
  <1>2. session' = NewSession(session, s, owner.version)  BY DEF SignIn
  <1>3. /\ session' \in Rows
        /\ \A q \in Sessions : /\ session'[q].n = session[q].n
                               /\ session'[q].state = "free" => session[q].state = "free"
    BY <1>1, <1>2, <1>0, NewSessionKeepsRows
  <1>4. app' \in AppStates
    BY DEF PhoneInv, PhoneTypeOK, AppStates, SignIn
  <1>5. owner' \in [version : Nat, ok : BOOLEAN] /\ UNCHANGED <<spent, exchange>>
    BY DEF PhoneInv, PhoneTypeOK, SignIn
  <1>. QED  BY <1>3, <1>4, <1>5, RowsKeepInv

LEMMA ChangePasswordKeepsInv ==
    ASSUME PhoneInv, NEW s \in Sessions, ChangePassword(s)
    PROVE  PhoneInv'
  <1>1. owner.version + 1 \in Nat /\ session[s].state = "free"  BY DEF PhoneInv, PhoneTypeOK, Rows, ChangePassword
  <1>2. PICK kept \in {Revoked(session, Sessions), session} :
          session' = NewSession(kept, s, owner.version + 1)
    BY DEF ChangePassword
  <1>3. /\ kept \in Rows
        /\ \A q \in Sessions : /\ kept[q].n = session[q].n
                               /\ kept[q].state = "free" <=> session[q].state = "free"
    BY RevokingKeepsRows DEF PhoneInv, PhoneTypeOK
  <1>4. /\ session' \in Rows
        /\ \A q \in Sessions : /\ session'[q].n = session[q].n
                               /\ session'[q].state = "free" => session[q].state = "free"
    BY <1>1, <1>2, <1>3, NewSessionKeepsRows
  <1>5. app' \in AppStates
    BY DEF PhoneInv, PhoneTypeOK, AppStates, ChangePassword
  <1>6. owner' \in [version : Nat, ok : BOOLEAN] /\ UNCHANGED <<spent, exchange>>
    BY DEF PhoneInv, PhoneTypeOK, ChangePassword
  <1>. QED  BY <1>4, <1>5, <1>6, RowsKeepInv

LEMMA RevokingKeepsInv ==
    ASSUME PhoneInv, (\E s \in Sessions : RevokeMobileSession(s)) \/ SignOut
    PROVE  PhoneInv'
  <1>1. \E ss : session' = Revoked(session, ss)
    BY DEF RevokeMobileSession, SignOut
  <1>2. /\ session' \in Rows
        /\ \A q \in Sessions : /\ session'[q].n = session[q].n
                               /\ session'[q].state = "free" => session[q].state = "free"
    BY <1>1, RevokingKeepsRows
  <1>3. app' \in AppStates
    BY DEF PhoneInv, PhoneTypeOK, AppStates, RevokeMobileSession, SignOut
  <1>4. owner' \in [version : Nat, ok : BOOLEAN] /\ UNCHANGED <<spent, exchange>>
    BY DEF PhoneInv, PhoneTypeOK, RevokeMobileSession, SignOut
  <1>. QED  BY <1>2, <1>3, <1>4, RowsKeepInv

LEMMA LookupKeepsInv ==
    ASSUME PhoneInv, NEW k \in Refreshes, RefreshLookup(k)
    PROVE  PhoneInv'
  <1>. DEFINE s == exchange[k].token.s
  <1>1. exchange[k].pc # "idle" /\ UNCHANGED <<owner, spent, app>>  BY DEF RefreshLookup
  <1>2. CASE Honoured(s)
    <2>1. exchange' = [exchange EXCEPT ![k].pc = "rotate"] /\ UNCHANGED session
      BY <1>2 DEF RefreshLookup
    <2>2. PhoneTypeOK' /\ CallsCarryTokens'
      BY <1>1, <2>1 DEF PhoneInv, PhoneTypeOK, ServerCalls, CallsCarryTokens
    <2>. QED  BY <1>1, <2>1, <2>2 DEF PhoneInv, SpentBehind, FreshRows
  <1>3. CASE ~Honoured(s)
    <2>1. AnswerRefresh(k, "refused") /\ session' = Revoked(session, {s})
      BY <1>3 DEF RefreshLookup
    <2>2. /\ session' \in Rows
          /\ \A q \in Sessions : /\ session'[q].n = session[q].n
                                 /\ session'[q].state = "free" <=> session[q].state = "free"
      BY <2>1, RevokingKeepsRows
    <2>3. PhoneTypeOK' /\ CallsCarryTokens'
      BY <1>1, <2>1, <2>2, AnsweringKeepsCalls DEF PhoneInv, PhoneTypeOK
    <2>. QED  BY <1>1, <2>2, <2>3 DEF PhoneInv, SpentBehind, FreshRows
  <1>. QED  BY <1>2, <1>3

(* The compare and swap: the generation exchanged is the row's own, which  *)
(* nothing has exchanged before, and the row moves beyond it.              *)
LEMMA RotateKeepsInv ==
    ASSUME PhoneInv, NEW k \in Refreshes, RotateMobileSession(k)
    PROVE  PhoneInv'
  <1>1. PICK token \in Tokens : token = exchange[k].token /\ token.n < MaxGeneration
    BY DEF PhoneInv, CallsCarryTokens, RotateMobileSession
  <1>2. /\ exchange[k].pc # "idle" /\ UNCHANGED <<owner, app>>
        /\ token.s \in Sessions /\ token.n \in Generations /\ token.n + 1 \in Generations
        /\ MaxGeneration \in Nat
    BY <1>1, PhoneAssumption DEF RotateMobileSession, Tokens, Generations
  <1>3. CASE session[token.s].state = "live" /\ session[token.s].n = token.n
    <2>1. /\ session' = [session EXCEPT ![token.s].n = @ + 1]
          /\ spent' = [spent EXCEPT ![token.s][token.n] = @ + 1]
          /\ AnswerRefresh(k, "rotated")
      BY <1>1, <1>3 DEF RotateMobileSession, Rotate
    <2>2. session' \in Rows
      <3>1. session' = [session EXCEPT ![token.s].n = token.n + 1]  BY <1>3, <2>1
      <3>. QED  BY <1>2, <3>1 DEF PhoneInv, PhoneTypeOK, Rows
    <2>3. spent' \in [Sessions -> [Generations -> Nat]]
      BY <1>2, <2>1 DEF PhoneInv, PhoneTypeOK
    <2>4. PhoneTypeOK' /\ CallsCarryTokens'
      BY <1>2, <2>1, <2>2, <2>3, AnsweringKeepsCalls DEF PhoneInv, PhoneTypeOK
    <2>5. ASSUME NEW s \in Sessions, NEW n \in Generations
          PROVE  spent'[s][n] <= 1 /\ (spent'[s][n] # 0 => n < session'[s].n)
      <3>1. /\ spent[s][n] \in Nat /\ spent[s][n] <= 1 /\ (spent[s][n] # 0 => n < session[s].n)
            /\ n \in Nat /\ session[s].n \in Nat
        <4>1. spent[s][n] \in Nat /\ session[s].n \in Generations
          BY DEF PhoneInv, PhoneTypeOK, Rows
        <4>2. spent[s][n] <= 1 /\ (spent[s][n] # 0 => n < session[s].n)
          BY DEF PhoneInv, SpentBehind
        <4>. QED  BY <1>2, <4>1, <4>2 DEF Generations
      <3>2. CASE s = token.s /\ n = token.n
        <4>1. spent[s][n] = 0  BY <1>3, <3>1, <3>2
        <4>2. spent'[s][n] = 1 /\ session'[s].n = n + 1
          BY <1>2, <1>3, <2>1, <3>2, <4>1 DEF PhoneInv, PhoneTypeOK, Rows
        <4>. QED  BY <3>1, <4>2
      <3>3. CASE s = token.s /\ n # token.n
        <4>1. spent'[s][n] = spent[s][n] /\ session'[s].n = session[s].n + 1
          BY <1>2, <2>1, <3>3 DEF PhoneInv, PhoneTypeOK, Rows
        <4>. QED  BY <3>1, <4>1
      <3>4. CASE s # token.s
        <4>1. spent'[s][n] = spent[s][n] /\ session'[s].n = session[s].n
          BY <1>2, <2>1, <3>4 DEF PhoneInv, PhoneTypeOK, Rows
        <4>. QED  BY <3>1, <4>1
      <3>. QED  BY <3>2, <3>3, <3>4
    <2>6. FreshRows'
      BY <1>2, <1>3, <2>1 DEF PhoneInv, PhoneTypeOK, Rows, FreshRows
    <2>. QED  BY <2>4, <2>5, <2>6 DEF PhoneInv, SpentBehind
  <1>4. CASE ~(session[token.s].state = "live" /\ session[token.s].n = token.n)
    <2>1. /\ AnswerRefresh(k, "refused") /\ UNCHANGED spent
          /\ session' = Revoked(session, {token.s}) \/ session' = session
      BY <1>1, <1>4 DEF RotateMobileSession
    <2>2. /\ session' \in Rows
          /\ \A q \in Sessions : /\ session'[q].n = session[q].n
                                 /\ session'[q].state = "free" <=> session[q].state = "free"
      BY <2>1, RevokingKeepsRows DEF PhoneInv, PhoneTypeOK
    <2>3. PhoneTypeOK' /\ CallsCarryTokens'
      BY <1>2, <2>1, <2>2, AnsweringKeepsCalls DEF PhoneInv, PhoneTypeOK
    <2>. QED  BY <2>1, <2>2, <2>3 DEF PhoneInv, SpentBehind, FreshRows
  <1>. QED  BY <1>3, <1>4

(* The phone's own steps leave the rows alone.                             *)
LEMMA PhoneKeepsInv ==
    ASSUME PhoneInv,
           \/ \E k \in Refreshes : Refresh(k) \/ RefreshAnswered(k)
           \/ PersistEnvelope \/ RestartApp
    PROVE  PhoneInv'
  <1>0. MaxGeneration \in Nat /\ 0 \in Generations  BY PhoneAssumption DEF Generations
  <1>1. ASSUME NEW k \in Refreshes, Refresh(k)
        PROVE  PhoneTypeOK' /\ CallsCarryTokens'
    <2>1. app.token \in Tokens /\ app.token.n < MaxGeneration
      BY <1>1 DEF Refresh, PhoneInv, PhoneTypeOK, AppStates
    <2>. QED  BY <1>1, <2>1 DEF Refresh, PhoneInv, PhoneTypeOK, AppStates, ServerCalls, CallsCarryTokens, NoRefresh
  <1>2. ASSUME NEW k \in Refreshes, RefreshAnswered(k)
        PROVE  PhoneTypeOK' /\ CallsCarryTokens'
    <2>1. /\ exchange' \in ServerCalls
          /\ CallsCarryTokens'
      BY <1>2 DEF RefreshAnswered, PhoneInv, PhoneTypeOK, AppStates, ServerCalls, CallsCarryTokens, NoRefresh
    <2>2. exchange[k].pc = "answered" => [exchange[k].token EXCEPT !.n = @ + 1] \in Tokens
      BY <1>0 DEF PhoneInv, CallsCarryTokens, Tokens, Generations
    <2>3. app' \in AppStates
      BY <1>2, <2>2 DEF RefreshAnswered, Unlock, PhoneInv, PhoneTypeOK, AppStates
    <2>. QED  BY <1>2, <2>1, <2>3 DEF RefreshAnswered, PhoneInv, PhoneTypeOK
  <1>3. ASSUME PersistEnvelope
        PROVE  PhoneTypeOK' /\ CallsCarryTokens'
    BY <1>0, <1>3 DEF PersistEnvelope, PhoneInv, PhoneTypeOK, AppStates, ServerCalls, CallsCarryTokens, Tokens
  <1>4. ASSUME RestartApp
        PROVE  PhoneTypeOK' /\ CallsCarryTokens'
    BY <1>4 DEF RestartApp, PhoneInv, PhoneTypeOK, AppStates, ServerCalls, CallsCarryTokens, NoRefresh
  <1>5. UNCHANGED <<session, spent>>
    BY DEF Refresh, RefreshAnswered, PersistEnvelope, RestartApp
  <1>6. SpentBehind' /\ FreshRows'
    BY <1>5 DEF PhoneInv, SpentBehind, FreshRows
  <1>. QED  BY <1>1, <1>2, <1>3, <1>4, <1>6 DEF PhoneInv

LEMMA PhoneStepInv == PhoneInv /\ [PhoneNext]_mvars => PhoneInv'
  <1>. SUFFICES ASSUME PhoneInv, [PhoneNext]_mvars PROVE PhoneInv'
    OBVIOUS
  <1>1. CASE \E s \in Sessions : SignIn(s)  BY <1>1, SignInKeepsInv
  <1>2. CASE \E s \in Sessions : ChangePassword(s)  BY <1>2, ChangePasswordKeepsInv
  <1>3. CASE (\E s \in Sessions : RevokeMobileSession(s)) \/ SignOut  BY <1>3, RevokingKeepsInv
  <1>4. CASE \E ok \in BOOLEAN : OwnerChanges(ok)
    <2>1. owner' \in [version : Nat, ok : BOOLEAN] /\ UNCHANGED <<session, spent, exchange, app>>
      BY <1>4 DEF OwnerChanges, PhoneInv, PhoneTypeOK
    <2>. QED  BY <2>1, RowsKeepInv DEF PhoneInv, PhoneTypeOK
  <1>5. CASE \E k \in Refreshes : RefreshLookup(k)  BY <1>5, LookupKeepsInv
  <1>6. CASE \E k \in Refreshes : RotateMobileSession(k)  BY <1>6, RotateKeepsInv
  <1>7. CASE (\E k \in Refreshes : Refresh(k) \/ RefreshAnswered(k)) \/ PersistEnvelope \/ RestartApp
    BY <1>7, PhoneKeepsInv
  <1>8. CASE UNCHANGED mvars
    BY <1>8 DEF mvars, PhoneInv, PhoneTypeOK, CallsCarryTokens, SpentBehind, FreshRows
  <1>. QED  BY <1>1, <1>2, <1>3, <1>4, <1>5, <1>6, <1>7, <1>8 DEF PhoneNext

-----------------------------------------------------------------------------
(* Types, the tokens under way and the generations spent hold of every     *)
(* reachable state of mobile_session and of the app's store.               *)
THEOREM PhoneSafety == PhoneSpec => []PhoneInv
  <1>. QED  BY PhoneInitInv, PhoneStepInv, PTL DEF PhoneSpec

(* RotateMobileSession exchanges no refresh token twice, whatever answers  *)
(* are lost and however the app's retries overlap with calls still running.*)
THEOREM NoTokenSpentTwice == PhoneSpec => []ExchangedOnce
  <1>1. PhoneInv => ExchangedOnce  BY DEF PhoneInv, SpentBehind, ExchangedOnce
  <1>. QED  BY <1>1, PhoneSafety, PTL

-----------------------------------------------------------------------------
(***************************************************************************)
(* A pairing enrols one television, for the account whose decision         *)
(* counted, and no account exceeds its number: for any number of accounts, *)
(* pairings, televisions, decisions and token requests.                    *)
(*                                                                         *)
(* PairingEnrolsOnce is not inductive: that ExchangeTVPairing never enrols *)
(* a device twice rests on a row of tv_pairing naming only devices that    *)
(* exist, and on a decision being final (PairingsOrderly).                 *)
(***************************************************************************)

Pairs == [state : {"free", "open", "gone"}, decision : {"pending", "approved", "denied"},
          user : Approvers \cup {NoOne}, version : Nat, device : Devices \cup {NoOne}, polled : BOOLEAN]
Enrolled == [state : {"free", "live", "revoked"}, user : Approvers \cup {NoOne}, version : Nat]
TokenRequests == [pc : {"idle", "exchange", "read", "issue", "answered"}, code : Pairings \cup {NoOne},
                  d : Devices \cup {NoOne}, answer : {"none", "wait", "invalid_grant", "token"}]
Decisions == [user : Approvers \cup {NoOne}, p : Pairings \cup {NoOne}, version : Nat]
Televisions == [state : {"UNPAIRED", "REVOKED", "DISCONNECTED", "CONNECTING", "AUTHENTICATED"},
                cred : Devices \cup {NoOne}, access : BOOLEAN, code : Pairings \cup {NoOne},
                waits : Calls \cup {NoOne}]

TvTypeOK ==
    /\ account \in [Approvers -> [ok : BOOLEAN, version : Nat]]
    /\ pairing \in [Pairings -> Pairs]
    /\ device \in [Devices -> Enrolled]
    /\ decider \in [Browsers -> Decisions]
    /\ call \in [Calls -> TokenRequests]
    /\ tv \in Televisions

\* A pairing names a device that was enrolled for it, or none.
PairingsOrderly ==
    \A p \in Pairings : pairing[p].device # NoOne =>
        /\ pairing[p].decision = "approved"
        /\ device[pairing[p].device].state # "free"
        /\ device[pairing[p].device].user = pairing[p].user

DevicesPaired ==
    \A d \in Devices : device[d].state # "free" => \E p \in Pairings : pairing[p].device = d

DevicesApart ==
    \A p, q \in Pairings : (p # q /\ pairing[p].device # NoOne) => pairing[p].device # pairing[q].device

NumberKept == \A u \in Approvers : Cardinality(LiveDevices(u)) <= MaxDevices

TvInv == TvTypeOK /\ PairingsOrderly /\ DevicesPaired /\ DevicesApart /\ NumberKept

-----------------------------------------------------------------------------
LEMMA LiveDevicesFinite ==
    \A u : IsFiniteSet(LiveDevices(u)) /\ Cardinality(LiveDevices(u)) \in Nat
  <1>. SUFFICES ASSUME NEW u PROVE IsFiniteSet(LiveDevices(u)) /\ Cardinality(LiveDevices(u)) \in Nat
    OBVIOUS
  <1>1. LiveDevices(u) \in SUBSET Devices /\ IsFiniteSet(Devices)
    BY TvAssumption DEF LiveDevices
  <1>2. IsFiniteSet(LiveDevices(u))  BY <1>1, FS_Subset
  <1>. QED  BY <1>2, FS_CardinalityType

(* A step that touches neither the pairings nor the devices.               *)
LEMMA RowsKept ==
    ASSUME TvInv, TvTypeOK', UNCHANGED <<pairing, device>>
    PROVE  TvInv'
  <1>1. \A u : LiveDevices(u)' = LiveDevices(u)  BY DEF LiveDevices
  <1>. QED  BY <1>1 DEF TvInv, PairingsOrderly, DevicesPaired, DevicesApart, NumberKept

(* A step that leaves the devices alone, and of each pairing the device    *)
(* and, once there is one, the decision.                                   *)
LEMMA LinksKept ==
    ASSUME TvInv, TvTypeOK', UNCHANGED device,
           \A p \in Pairings : /\ pairing'[p].device = pairing[p].device
                               /\ pairing[p].decision = "approved" =>
                                     pairing'[p].decision = "approved" /\ pairing'[p].user = pairing[p].user
    PROVE  TvInv'
  <1>1. \A u : LiveDevices(u)' = LiveDevices(u)  BY DEF LiveDevices
  <1>2. PairingsOrderly'  BY DEF TvInv, PairingsOrderly
  <1>3. DevicesPaired' /\ DevicesApart'  BY DEF TvInv, DevicesPaired, DevicesApart
  <1>4. NumberKept'  BY <1>1 DEF TvInv, NumberKept
  <1>. QED  BY <1>2, <1>3, <1>4 DEF TvInv

(* Revoking devices: each keeps its account, none becomes free or live.    *)
LEMMA RevokingKeeps ==
    ASSUME TvInv, TvTypeOK', UNCHANGED pairing,
           \A d \in Devices : /\ device'[d].user = device[d].user
                              /\ device'[d].state = "free" <=> device[d].state = "free"
                              /\ device'[d].state = "live" => device[d].state = "live"
    PROVE  TvInv'
  <1>1. PairingsOrderly'
    BY DEF TvInv, TvTypeOK, Pairs, PairingsOrderly
  <1>2. DevicesPaired' /\ DevicesApart'  BY DEF TvInv, DevicesPaired, DevicesApart
  <1>3. NumberKept'
    <2>. SUFFICES ASSUME NEW u \in Approvers PROVE Cardinality(LiveDevices(u)') <= MaxDevices
      BY DEF NumberKept
    <2>1. LiveDevices(u)' \in SUBSET LiveDevices(u)  BY DEF LiveDevices
    <2>2. /\ Cardinality(LiveDevices(u)') <= Cardinality(LiveDevices(u))
          /\ Cardinality(LiveDevices(u)') \in Nat
      BY <2>1, LiveDevicesFinite, FS_Subset, FS_CardinalityType
    <2>3. Cardinality(LiveDevices(u)) <= MaxDevices /\ Cardinality(LiveDevices(u)) \in Nat
      BY LiveDevicesFinite DEF TvInv, NumberKept
    <2>. QED  BY <2>2, <2>3, TvAssumption
  <1>. QED  BY <1>1, <1>2, <1>3 DEF TvInv

(* A device is enrolled for a pairing that names none yet, and for an      *)
(* account that is below its number.                                       *)
LEMMA EnrolKeeps ==
    ASSUME TvInv, TvTypeOK', NEW p \in Pairings, NEW d \in Devices,
           pairing[p].device = NoOne, Exchangeable(p), Enrol(p, d)
    PROVE  TvInv'
  <1>1. /\ device[d].state = "free" /\ pairing[p].decision = "approved"
        /\ Cardinality(LiveDevices(pairing[p].user)) < MaxDevices
    BY DEF Enrol, Exchangeable
  <1>2. /\ device'[d] = [state |-> "live", user |-> pairing[p].user, version |-> pairing[p].version]
        /\ \A e \in Devices : e # d => device'[e] = device[e]
    BY DEF Enrol, TvInv, TvTypeOK
  <1>3. /\ pairing'[p].device = d /\ pairing'[p].decision = "approved" /\ pairing'[p].user = pairing[p].user
        /\ \A q \in Pairings : q # p => pairing'[q] = pairing[q]
    BY <1>1 DEF Enrol, TvInv, TvTypeOK, Pairs
  <1>4. d # NoOne /\ \A q \in Pairings : pairing[q].device # d
    BY <1>1, TvAssumption DEF TvInv, PairingsOrderly
  <1>5. PairingsOrderly'
    <2>1. ASSUME NEW q \in Pairings, q # p, pairing[q].device # NoOne
          PROVE  /\ pairing[q].decision = "approved"
                 /\ device'[pairing[q].device].state # "free"
                 /\ device'[pairing[q].device].user = pairing[q].user
      <3>1. pairing[q].device \in Devices /\ pairing[q].device # d
        BY <1>4, <2>1 DEF TvInv, TvTypeOK, Pairs
      <3>. QED  BY <1>2, <2>1, <3>1 DEF TvInv, PairingsOrderly
    <2>. QED  BY <1>2, <1>3, <2>1 DEF PairingsOrderly
  <1>6. DevicesPaired'
    <2>1. ASSUME NEW e \in Devices, e # d, device[e].state # "free"
          PROVE  \E q \in Pairings : pairing'[q].device = e
      <3>1. PICK q \in Pairings : pairing[q].device = e  BY <2>1 DEF TvInv, DevicesPaired
      <3>2. q # p  BY <3>1, TvAssumption
      <3>. QED  BY <1>3, <3>1, <3>2
    <2>. QED  BY <1>2, <1>3, <2>1 DEF DevicesPaired
  <1>7. DevicesApart'
    BY <1>3, <1>4 DEF TvInv, DevicesApart
  <1>8. NumberKept'
    <2>. SUFFICES ASSUME NEW u \in Approvers PROVE Cardinality(LiveDevices(u)') <= MaxDevices
      BY DEF NumberKept
    <2>1. Cardinality(LiveDevices(u)) <= MaxDevices /\ Cardinality(LiveDevices(u)) \in Nat
      BY LiveDevicesFinite DEF TvInv, NumberKept
    <2>2. CASE u = pairing[p].user
      <3>1. LiveDevices(u)' = LiveDevices(u) \cup {d}
        BY <1>2, <2>2 DEF LiveDevices
      <3>2. d \notin LiveDevices(u)  BY <1>1 DEF LiveDevices
      <3>3. Cardinality(LiveDevices(u)') = Cardinality(LiveDevices(u)) + 1
        BY <3>1, <3>2, LiveDevicesFinite, FS_AddElement
      <3>. QED  BY <1>1, <2>1, <2>2, <3>3, TvAssumption
    <2>3. CASE u # pairing[p].user
      <3>1. LiveDevices(u)' = LiveDevices(u)
        BY <1>1, <1>2, <2>3 DEF LiveDevices
      <3>. QED  BY <2>1, <3>1
    <2>. QED  BY <2>2, <2>3
  <1>. QED  BY <1>5, <1>6, <1>7, <1>8 DEF TvInv

-----------------------------------------------------------------------------
LEMMA TvInitInv == TvInit => TvInv
  <1>. SUFFICES ASSUME TvInit PROVE TvInv
    OBVIOUS
  <1>1. TvTypeOK
    BY DEF TvInit, TvTypeOK, Free, NoDevice, IdleCall, Unpaired, Pairs, Enrolled, TokenRequests, Decisions, Televisions
  <1>2. PairingsOrderly /\ DevicesPaired /\ DevicesApart
    BY DEF TvInit, Free, NoDevice, PairingsOrderly, DevicesPaired, DevicesApart
  <1>3. NumberKept
    <2>1. \A u : LiveDevices(u) = {}  BY DEF TvInit, NoDevice, LiveDevices
    <2>. QED  BY <2>1, FS_EmptySet, TvAssumption DEF NumberKept
  <1>. QED  BY <1>1, <1>2, <1>3 DEF TvInv

(* Accounts change, devices are revoked, rows run out.                     *)
LEMMA EnvironmentKeepsInv ==
    ASSUME TvInv, Environment
    PROVE  TvInv'
  <1>1. ASSUME NEW u \in Approvers, NEW ok \in BOOLEAN, AccountChanges(u, ok)
        PROVE  TvInv'
    <2>1. account' = [account EXCEPT ![u] = [ok |-> ok, version |-> account[u].version + 1]]
      BY <1>1 DEF AccountChanges
    <2>2. account[u].version + 1 \in Nat  BY DEF TvInv, TvTypeOK
    <2>3. TvTypeOK'  BY <1>1, <2>1, <2>2 DEF AccountChanges, TvInv, TvTypeOK
    <2>. QED  BY <1>1, <2>3, RowsKept DEF AccountChanges
  <1>2. ASSUME NEW ds \in SUBSET Devices, Revoke(ds)
        PROVE  TvInv'
    <2>1. /\ device' = [d \in Devices |-> IF d \in ds THEN [device[d] EXCEPT !.state = "revoked"] ELSE device[d]]
          /\ \A d \in ds : device[d].state = "live"
          /\ UNCHANGED <<account, pairing, decider, call, tv>>
      BY <1>2 DEF Revoke
    <2>2. \A d \in Devices :
             /\ device'[d] \in Enrolled
             /\ device'[d].user = device[d].user
             /\ device'[d].state = "free" <=> device[d].state = "free"
             /\ device'[d].state = "live" => device[d].state = "live"
      BY <2>1 DEF TvInv, TvTypeOK, Enrolled
    <2>3. device' \in [Devices -> Enrolled]  BY <2>1, <2>2
    <2>4. TvTypeOK'  BY <2>1, <2>3 DEF TvInv, TvTypeOK
    <2>. QED  BY <2>1, <2>2, <2>4, RevokingKeeps
  <1>3. ASSUME NEW p \in Pairings, Expire(p) \/ FiveSecondsPass(p)
        PROVE  TvInv'
    <2>1. /\ UNCHANGED <<account, device, decider, call>>
          /\ \/ pairing' = [pairing EXCEPT ![p].state = "gone"]
             \/ pairing' = [pairing EXCEPT ![p].polled = FALSE]
          /\ tv' = tv \/ tv' = [tv EXCEPT !.code = NoOne]
      BY <1>3 DEF Expire, FiveSecondsPass
    <2>2. pairing' \in [Pairings -> Pairs]
      <3>1. [pairing[p] EXCEPT !.state = "gone"] \in Pairs /\ [pairing[p] EXCEPT !.polled = FALSE] \in Pairs
        BY DEF TvInv, TvTypeOK, Pairs
      <3>. QED  BY <2>1, <3>1 DEF TvInv, TvTypeOK
    <2>3. TvTypeOK'  BY <2>1, <2>2 DEF TvInv, TvTypeOK, Televisions
    <2>4. \A q \in Pairings : /\ pairing'[q].device = pairing[q].device
                              /\ pairing'[q].decision = pairing[q].decision
                              /\ pairing'[q].user = pairing[q].user
      BY <2>1 DEF TvInv, TvTypeOK, Pairs
    <2>. QED  BY <2>1, <2>3, <2>4, LinksKept
  <1>4. \A u : LiveDevices(u) \in SUBSET Devices  BY DEF LiveDevices
  <1>. QED  BY <1>1, <1>2, <1>3, <1>4 DEF Environment

(* A decision is made once: a row decided already is left alone.           *)
LEMMA BrowserKeepsInv ==
    ASSUME TvInv, Browser
    PROVE  TvInv'
  <1>1. ASSUME NEW b \in Browsers, NEW u \in Approvers, NEW p \in Pairings, DecisionLookup(b, u, p)
        PROVE  TvInv'
    <2>1. account[u].version \in Nat  BY DEF TvInv, TvTypeOK
    <2>2. TvTypeOK'  BY <1>1, <2>1 DEF DecisionLookup, TvInv, TvTypeOK, Decisions
    <2>. QED  BY <1>1, <2>2, RowsKept DEF DecisionLookup
  <1>2. ASSUME NEW b \in Browsers, NEW decision \in {"approved", "denied"}, DecideTVPairing(b, decision)
        PROVE  TvInv'
    <2>1. PICK p \in Pairings : p = decider[b].p
      BY <1>2 DEF DecideTVPairing, TvInv, TvTypeOK, Decisions
    <2>2. /\ UNCHANGED <<account, device, call, tv>>
          /\ decider' = [decider EXCEPT ![b] = [user |-> NoOne, p |-> NoOne, version |-> 0]]
          /\ pairing' = IF pairing[p].state = "open" /\ pairing[p].decision = "pending"
                        THEN [pairing EXCEPT ![p].decision = decision, ![p].user = decider[b].user,
                                             ![p].version = decider[b].version]
                        ELSE pairing
      BY <1>2, <2>1 DEF DecideTVPairing
    <2>3. decider[b].user \in Approvers \cup {NoOne} /\ decider[b].version \in Nat
      BY DEF TvInv, TvTypeOK, Decisions
    <2>4. decider' \in [Browsers -> Decisions]  BY <2>2 DEF TvInv, TvTypeOK, Decisions
    <2>5. pairing' \in [Pairings -> Pairs]
      <3>1. [pairing[p] EXCEPT !.decision = decision, !.user = decider[b].user,
                               !.version = decider[b].version] \in Pairs
        BY <2>3 DEF TvInv, TvTypeOK, Pairs
      <3>. QED  BY <2>2, <3>1 DEF TvInv, TvTypeOK
    <2>6. TvTypeOK'  BY <2>2, <2>4, <2>5 DEF TvInv, TvTypeOK
    <2>7. \A q \in Pairings : /\ pairing'[q].device = pairing[q].device
                              /\ pairing[q].decision = "approved" =>
                                    pairing'[q].decision = "approved" /\ pairing'[q].user = pairing[q].user
      BY <2>2 DEF TvInv, TvTypeOK, Pairs
    <2>. QED  BY <2>2, <2>6, <2>7, LinksKept
  <1>. QED  BY <1>1, <1>2 DEF Browser

(* An answer leaves every call well formed.                                *)
LEMMA AnswersOrderly ==
    ASSUME TvInv, NEW k \in Calls, NEW answer \in {"wait", "invalid_grant", "token"},
           NEW d \in Devices \cup {NoOne}, Answer(k, answer, d)
    PROVE  call' \in [Calls -> TokenRequests]
  <1>1. IdleCall \in TokenRequests  BY DEF IdleCall, TokenRequests
  <1>2. [call[k] EXCEPT !.pc = "answered", !.answer = answer, !.d = d] \in TokenRequests
    BY DEF TvInv, TvTypeOK, TokenRequests
  <1>. QED  BY <1>1, <1>2 DEF Answer, TvInv, TvTypeOK

LEMMA ExchangeKeepsInv ==
    ASSUME TvInv, NEW k \in Calls, ExchangeTVPairing(k)
    PROVE  TvInv'
  <1>1. PICK p \in Pairings : p = call[k].code
    BY DEF ExchangeTVPairing, TvInv, TvTypeOK, TokenRequests
  <1>2. UNCHANGED <<account, decider, tv>>  BY DEF ExchangeTVPairing
  <1>3. CASE UNCHANGED <<pairing, device>> /\ \E answer \in {"wait", "invalid_grant"} : Answer(k, answer, NoOne)
    <2>1. call' \in [Calls -> TokenRequests]  BY <1>3, AnswersOrderly
    <2>2. TvTypeOK'  BY <1>2, <1>3, <2>1 DEF TvInv, TvTypeOK
    <2>. QED  BY <1>3, <2>2, RowsKept
  <1>4. CASE /\ pairing' = [pairing EXCEPT ![p].polled = TRUE] /\ UNCHANGED device
             /\ \/ Answer(k, "wait", NoOne)
                \/ \E d \in Devices : call' = [call EXCEPT ![k].pc = "read", ![k].d = d]
    <2>1. call' \in [Calls -> TokenRequests]
      <3>1. \A d \in Devices : [call[k] EXCEPT !.pc = "read", !.d = d] \in TokenRequests
        BY DEF TvInv, TvTypeOK, TokenRequests
      <3>2. CASE Answer(k, "wait", NoOne)  BY <3>2, AnswersOrderly
      <3>3. ASSUME NEW d \in Devices, call' = [call EXCEPT ![k].pc = "read", ![k].d = d]
            PROVE  call' \in [Calls -> TokenRequests]
        BY <3>1, <3>3 DEF TvInv, TvTypeOK
      <3>. QED  BY <1>4, <3>2, <3>3
    <2>2. pairing' \in [Pairings -> Pairs]
      <3>1. [pairing[p] EXCEPT !.polled = TRUE] \in Pairs  BY DEF TvInv, TvTypeOK, Pairs
      <3>. QED  BY <1>4, <3>1 DEF TvInv, TvTypeOK
    <2>3. TvTypeOK'  BY <1>2, <1>4, <2>1, <2>2 DEF TvInv, TvTypeOK
    <2>4. \A q \in Pairings : /\ pairing'[q].device = pairing[q].device
                              /\ pairing'[q].decision = pairing[q].decision
                              /\ pairing'[q].user = pairing[q].user
      BY <1>4 DEF TvInv, TvTypeOK, Pairs
    <2>. QED  BY <1>4, <2>3, <2>4, LinksKept
  <1>5. ASSUME NEW d \in Devices, pairing[p].device = NoOne, Exchangeable(p), Enrol(p, d),
               call' = [call EXCEPT ![k].pc = "read", ![k].d = d]
        PROVE  TvInv'
    <2>1. call' \in [Calls -> TokenRequests]
      <3>1. [call[k] EXCEPT !.pc = "read", !.d = d] \in TokenRequests  BY DEF TvInv, TvTypeOK, TokenRequests
      <3>. QED  BY <1>5, <3>1 DEF TvInv, TvTypeOK
    <2>2. pairing[p].user \in Approvers \cup {NoOne} /\ pairing[p].version \in Nat
      BY DEF TvInv, TvTypeOK, Pairs
    <2>3. device' \in [Devices -> Enrolled]
      <3>1. [state |-> "live", user |-> pairing[p].user, version |-> pairing[p].version] \in Enrolled
        BY <2>2 DEF Enrolled
      <3>. QED  BY <1>5, <3>1 DEF Enrol, TvInv, TvTypeOK
    <2>4. pairing' \in [Pairings -> Pairs]
      <3>1. [pairing[p] EXCEPT !.polled = TRUE, !.device = d] \in Pairs  BY DEF TvInv, TvTypeOK, Pairs
      <3>. QED  BY <1>5, <3>1 DEF Enrol, TvInv, TvTypeOK
    <2>5. TvTypeOK'  BY <1>2, <2>1, <2>3, <2>4 DEF TvInv, TvTypeOK
    <2>. QED  BY <1>5, <2>5, EnrolKeeps
  <1>6. pairing[p].device # NoOne => pairing[p].device \in Devices
    BY DEF TvInv, TvTypeOK, Pairs
  <1>. QED  BY <1>1, <1>3, <1>4, <1>5, <1>6 DEF ExchangeTVPairing

LEMMA IssueKeepsInv ==
    ASSUME TvInv, NEW k \in Calls, CheckAccount(k) \/ IssueTVAccess(k)
    PROVE  TvInv'
  <1>1. UNCHANGED <<account, pairing, device, decider, tv>>  BY DEF CheckAccount, IssueTVAccess
  <1>2. call[k].d \in Devices \cup {NoOne}  BY DEF TvInv, TvTypeOK, TokenRequests
  <1>3. \/ \E answer \in {"wait", "invalid_grant", "token"}, d \in Devices \cup {NoOne} : Answer(k, answer, d)
        \/ call' = [call EXCEPT ![k].pc = "issue"]
    BY <1>2 DEF CheckAccount, IssueTVAccess
  <1>4. call' \in [Calls -> TokenRequests]
    <2>1. [call[k] EXCEPT !.pc = "issue"] \in TokenRequests  BY DEF TvInv, TvTypeOK, TokenRequests
    <2>2. CASE call' = [call EXCEPT ![k].pc = "issue"]
      BY <2>1, <2>2 DEF TvInv, TvTypeOK
    <2>. QED  BY <1>3, <2>2, AnswersOrderly
  <1>5. TvTypeOK'  BY <1>1, <1>4 DEF TvInv, TvTypeOK
  <1>. QED  BY <1>1, <1>5, RowsKept

(* The television: it opens rows, asks and is answered, and may sign out.  *)
LEMMA TelevisionKeepsInv ==
    ASSUME TvInv, Television
    PROVE  TvInv'
  <1>1. ASSUME NEW p \in Pairings, BeginPairing(p)
        PROVE  TvInv'
    <2>1. /\ pairing' = [pairing EXCEPT ![p].state = "open"] /\ tv' = [tv EXCEPT !.code = p]
          /\ UNCHANGED <<account, device, decider, call>>
      BY <1>1 DEF BeginPairing
    <2>2. pairing' \in [Pairings -> Pairs] /\ tv' \in Televisions
      <3>1. [pairing[p] EXCEPT !.state = "open"] \in Pairs  BY DEF TvInv, TvTypeOK, Pairs
      <3>2. tv' \in Televisions  BY <2>1 DEF TvInv, TvTypeOK, Televisions
      <3>. QED  BY <2>1, <3>1, <3>2 DEF TvInv, TvTypeOK
    <2>3. TvTypeOK'  BY <2>1, <2>2 DEF TvInv, TvTypeOK
    <2>4. \A q \in Pairings : /\ pairing'[q].device = pairing[q].device
                              /\ pairing'[q].decision = pairing[q].decision
                              /\ pairing'[q].user = pairing[q].user
      BY <2>1 DEF TvInv, TvTypeOK, Pairs
    <2>. QED  BY <2>1, <2>3, <2>4, LinksKept
  <1>2. ASSUME NEW k \in Calls, Poll(k) \/ Renew(k)
        PROVE  TvInv'
    <2>1. /\ tv' = [tv EXCEPT !.waits = k] /\ UNCHANGED <<account, pairing, device, decider>>
          /\ \/ call' = [call EXCEPT ![k] = [IdleCall EXCEPT !.pc = "exchange", !.code = tv.code]]
             \/ call' = [call EXCEPT ![k] = [IdleCall EXCEPT !.pc = "read", !.d = tv.cred]]
      BY <1>2 DEF Poll, Renew
    <2>2. tv' \in Televisions /\ tv.code \in Pairings \cup {NoOne} /\ tv.cred \in Devices \cup {NoOne}
      BY <2>1 DEF TvInv, TvTypeOK, Televisions
    <2>3. /\ [IdleCall EXCEPT !.pc = "exchange", !.code = tv.code] \in TokenRequests
          /\ [IdleCall EXCEPT !.pc = "read", !.d = tv.cred] \in TokenRequests
      BY <2>2 DEF IdleCall, TokenRequests
    <2>4. TvTypeOK'  BY <2>1, <2>2, <2>3 DEF TvInv, TvTypeOK
    <2>. QED  BY <2>1, <2>4, RowsKept
  <1>3. ASSUME NEW k \in Calls, Receive(k) \/ TimeOut(k)
        PROVE  TvInv'
    <2>1. UNCHANGED <<account, pairing, device, decider>> /\ (call' = call \/ call' = [call EXCEPT ![k] = IdleCall])
      BY <1>3 DEF Receive, TimeOut
    <2>2. call' \in [Calls -> TokenRequests]
      BY <2>1 DEF TvInv, TvTypeOK, IdleCall, TokenRequests
    <2>3. /\ call[k].d \in Devices \cup {NoOne}
          /\ \A answer : Refused(answer) \in {"REVOKED", "DISCONNECTED"}
      BY DEF TvInv, TvTypeOK, TokenRequests, Refused
    <2>4. tv' \in Televisions
      <3>1. CASE TimeOut(k)
        <4>1. PICK state \in {"UNPAIRED", "REVOKED", "DISCONNECTED", "CONNECTING", "AUTHENTICATED"} :
                 tv' = [tv EXCEPT !.waits = NoOne, !.state = state]
          BY <2>3, <3>1 DEF TimeOut, TvInv, TvTypeOK, Televisions
        <4>. QED  BY <4>1 DEF TvInv, TvTypeOK, Televisions
      <3>2. CASE Receive(k)
        <4>1. \/ tv' = [state |-> "AUTHENTICATED", cred |-> call[k].d, access |-> TRUE, code |-> NoOne, waits |-> NoOne]
              \/ tv' = [tv EXCEPT !.state = Refused(call[k].answer), !.waits = NoOne]
              \/ \E code \in {NoOne, tv.code} : tv' = [tv EXCEPT !.waits = NoOne, !.code = code]
          BY <3>2 DEF Receive
        <4>2. [state |-> "AUTHENTICATED", cred |-> call[k].d, access |-> TRUE, code |-> NoOne, waits |-> NoOne]
                 \in Televisions
          BY <2>3 DEF Televisions
        <4>3. [tv EXCEPT !.state = Refused(call[k].answer), !.waits = NoOne] \in Televisions
          <5>1. PICK state \in {"REVOKED", "DISCONNECTED"} : state = Refused(call[k].answer)  BY <2>3
          <5>. QED  BY <5>1 DEF TvInv, TvTypeOK, Televisions
        <4>4. \A code \in {NoOne, tv.code} : [tv EXCEPT !.waits = NoOne, !.code = code] \in Televisions
          BY DEF TvInv, TvTypeOK, Televisions
        <4>. QED  BY <4>1, <4>2, <4>3, <4>4
      <3>. QED  BY <1>3, <3>1, <3>2
    <2>5. TvTypeOK'  BY <2>1, <2>2, <2>4 DEF TvInv, TvTypeOK
    <2>. QED  BY <2>1, <2>5, RowsKept
  <1>4. ASSUME Restart
        PROVE  TvInv'
    <2>1. /\ UNCHANGED <<account, pairing, device, decider>>
          /\ tv' = [Unpaired EXCEPT !.cred = tv.cred, !.state = IF tv.cred = NoOne THEN "UNPAIRED" ELSE "CONNECTING"]
          /\ call' = [k \in Calls |-> IF call[k].pc = "answered" THEN IdleCall ELSE call[k]]
      BY <1>4 DEF Restart
    <2>2. tv' \in Televisions  BY <2>1 DEF Unpaired, TvInv, TvTypeOK, Televisions
    <2>3. IdleCall \in TokenRequests  BY DEF IdleCall, TokenRequests
    <2>4. TvTypeOK'  BY <2>1, <2>2, <2>3 DEF TvInv, TvTypeOK
    <2>. QED  BY <2>1, <2>4, RowsKept
  <1>5. ASSUME MediaRequest \/ AuthenticateTVDevice \/ PairingRevoked
        PROVE  TvInv'
    <2>1. /\ UNCHANGED <<account, pairing, device, decider, call>>
          /\ tv' = tv \/ tv' = [tv EXCEPT !.state = "REVOKED"]
      BY <1>5 DEF MediaRequest, AuthenticateTVDevice, PairingRevoked
    <2>2. TvTypeOK'  BY <2>1 DEF TvInv, TvTypeOK, Televisions
    <2>. QED  BY <2>1, <2>2, RowsKept
  <1>6. ASSUME Logout
        PROVE  TvInv'
    <2>1. /\ device' = [device EXCEPT ![tv.cred].state = "revoked"] /\ tv' \in {Unpaired, tv}
          /\ DeviceValid(tv.cred) /\ UNCHANGED <<account, pairing, decider, call>>
      BY <1>6 DEF Logout
    <2>2. \A d \in Devices :
             /\ device'[d] \in Enrolled
             /\ device'[d].user = device[d].user
             /\ device'[d].state = "free" <=> device[d].state = "free"
             /\ device'[d].state = "live" => device[d].state = "live"
      BY <2>1 DEF DeviceValid, TvInv, TvTypeOK, Enrolled
    <2>3. device' \in [Devices -> Enrolled]  BY <2>1, <2>2 DEF TvInv, TvTypeOK
    <2>4. Unpaired \in Televisions  BY DEF Unpaired, Televisions
    <2>5. TvTypeOK'  BY <2>1, <2>3, <2>4 DEF TvInv, TvTypeOK
    <2>. QED  BY <2>1, <2>2, <2>5, RevokingKeeps
  <1>. QED  BY <1>1, <1>2, <1>3, <1>4, <1>5, <1>6 DEF Television

LEMMA TvStepInv == TvInv /\ [TvNext]_tvars => TvInv'
  <1>. SUFFICES ASSUME TvInv, [TvNext]_tvars PROVE TvInv'
    OBVIOUS
  <1>1. CASE Environment  BY <1>1, EnvironmentKeepsInv
  <1>2. CASE Browser  BY <1>2, BrowserKeepsInv
  <1>3. ASSUME NEW k \in Calls, Server(k) PROVE TvInv'
    BY <1>3, ExchangeKeepsInv, IssueKeepsInv DEF Server
  <1>4. CASE Television  BY <1>4, TelevisionKeepsInv
  <1>5. CASE UNCHANGED tvars
    BY <1>5, RowsKept DEF tvars, TvInv, TvTypeOK
  <1>. QED  BY <1>1, <1>2, <1>3, <1>4, <1>5 DEF TvNext

LEMMA InvEnrolsOnce == TvInv => PairingEnrolsOnce
  <1>. SUFFICES ASSUME TvInv PROVE PairingEnrolsOnce
    OBVIOUS
  <1>1. ASSUME NEW d \in Devices, device[d].state # "free"
        PROVE  \E p \in Pairings : /\ pairing[p].device = d
                                   /\ pairing[p].decision = "approved"
                                   /\ pairing[p].user = device[d].user
    <2>1. PICK p \in Pairings : pairing[p].device = d  BY <1>1 DEF TvInv, DevicesPaired
    <2>2. pairing[p].device # NoOne  BY <2>1, TvAssumption
    <2>. QED  BY <2>1, <2>2 DEF TvInv, PairingsOrderly
  <1>. QED  BY <1>1 DEF TvInv, DevicesApart, NumberKept, PairingEnrolsOnce

-----------------------------------------------------------------------------
(* Types, the links between tv_pairing and tv_device and the number of an  *)
(* account's televisions hold of every reachable state.                    *)
THEOREM TvSafety == TvSpec => []TvInv
  <1>. QED  BY TvInitInv, TvStepInv, PTL DEF TvSpec

(* ExchangeTVPairing enrols one television for a pairing, for the account  *)
(* that approved it, however many answers are lost and however many        *)
(* browsers decide, and never one more than the account may have.          *)
THEOREM EnrolledOnce == TvSpec => []PairingEnrolsOnce
  <1>. QED  BY TvSafety, InvEnrolsOnce, PTL

-----------------------------------------------------------------------------
(***************************************************************************)
(* A refresh signs the phone out only when the session it stores is over.  *)
(*                                                                         *)
(* The step that signs out reads an answer, perhaps long after it was      *)
(* given, so SignedOutForAReason needs an invariant of the calls: a        *)
(* refusal was true and stays true, because no row is revived and no       *)
(* account returns to an earlier version; and the token that was refused   *)
(* is the one stored.  That RotateMobileSession refuses truly needs one    *)
(* more: no token is ahead of its row, so one that is not the row's own is *)
(* an older one, for which the session ends.                               *)
(***************************************************************************)

\* A token that was handed out: for a row that exists, of a generation it has reached.
HandedOut(token) ==
    /\ token \in Tokens
    /\ session[token.s].state # "free" /\ token.n <= session[token.s].n

\* What a call under way means: its token was handed out, a rotated answer is for a
\* generation the row has left, and a refusal for a session that is not honoured.
CallTrue(k) ==
    /\ exchange[k].pc # "idle" => HandedOut(exchange[k].token)
    /\ exchange[k].pc = "answered" =>
          IF exchange[k].answer = "rotated"
          THEN exchange[k].token.n < session[exchange[k].token.s].n
          ELSE ~Honoured(exchange[k].token.s)

CallsTrue == \A k \in Refreshes : CallTrue(k)

\* What the phone stores and is sent was handed out.
StoreTrue ==
    /\ app.token # NoToken => HandedOut(app.token)
    /\ app.envelope # Nil => session[app.envelope].state # "free"

RowsReached == \A s \in Sessions : session[s].state # "free" => session[s].version <= owner.version

\* A refresh is of the stored token, unless that was replaced or cleared meanwhile.
RefreshesTheStored ==
    \A k \in Refreshes :
        (app.refresh = k /\ ~app.overlap /\ app.token # NoToken) => app.token = exchange[k].token

PhoneStanding == PhoneInv /\ RowsReached /\ CallsTrue /\ StoreTrue /\ RefreshesTheStored

-----------------------------------------------------------------------------
\* What a step does to the rows and to the account: no row is revived or goes back.
RowsAdvance ==
    /\ \A s \in Sessions : session[s].state # "free" =>
          /\ session'[s].state # "free" /\ session'[s].n >= session[s].n
          /\ session'[s].version = session[s].version
          /\ session'[s].state = "live" => session[s].state = "live"
    /\ owner'.version >= owner.version
    /\ owner'.version = owner.version => owner' = owner

\* Rows that were free and no longer are belong to the account as it is now.
RowsFresh ==
    \A s \in Sessions : (session[s].state = "free" /\ session'[s].state # "free") =>
        session'[s].version = owner'.version

LEMMA RevokedAdvances ==
    ASSUME PhoneInv, NEW ss, NEW s \in Sessions
    PROVE  /\ Revoked(session, ss)[s].n = session[s].n
           /\ Revoked(session, ss)[s].version = session[s].version
           /\ Revoked(session, ss)[s].state = "free" <=> session[s].state = "free"
           /\ Revoked(session, ss)[s].state = "live" => session[s].state = "live" /\ s \notin ss
  <1>1. session \in Rows  BY DEF PhoneInv, PhoneTypeOK
  <1>. QED  BY <1>1 DEF Rows, Revoked

LEMMA StepAdvances ==
    ASSUME PhoneInv, [PhoneNext]_mvars
    PROVE  RowsAdvance /\ RowsFresh
  <1>0. /\ session \in Rows /\ owner \in [version : Nat, ok : BOOLEAN]
        /\ owner.version \in Nat /\ \A s \in Sessions : session[s].n \in Nat
    <2>1. \A s \in Sessions : session[s].n \in Generations  BY DEF PhoneInv, PhoneTypeOK, Rows
    <2>. QED  BY <2>1, PhoneAssumption DEF PhoneInv, PhoneTypeOK, Generations
  <1>1. CASE UNCHANGED <<session, owner>>
    BY <1>0, <1>1 DEF RowsAdvance, RowsFresh
  <1>2. ASSUME UNCHANGED owner, NEW ss, session' = Revoked(session, ss)
        PROVE  RowsAdvance /\ RowsFresh
    BY <1>0, <1>2, RevokedAdvances DEF RowsAdvance, RowsFresh
  <1>3. ASSUME NEW s \in Sessions, SignIn(s) PROVE RowsAdvance /\ RowsFresh
    <2>1. /\ UNCHANGED owner /\ session[s].state = "free"
          /\ session' = [session EXCEPT ![s] = [state |-> "live", n |-> 0, version |-> owner.version]]
      BY <1>3 DEF SignIn, NewSession
    <2>. QED  BY <1>0, <2>1 DEF RowsAdvance, RowsFresh, Rows
  <1>4. ASSUME NEW s \in Sessions, ChangePassword(s) PROVE RowsAdvance /\ RowsFresh
    <2>1. PICK ss \in {Sessions, {}} :
             /\ session[s].state = "free"
             /\ session' = [Revoked(session, ss) EXCEPT ![s] = [state |-> "live", n |-> 0, version |-> owner.version + 1]]
      <3>1. Revoked(session, {}) = session  BY <1>0 DEF Revoked, Rows
      <3>. QED  BY <1>4, <3>1 DEF ChangePassword, NewSession
    <2>2. owner'.version = owner.version + 1
      BY <1>0, <1>4 DEF ChangePassword
    <2>3. \A q \in Sessions : q # s => session'[q] = Revoked(session, ss)[q]
      BY <2>1 DEF Revoked
    <2>4. session'[s].version = owner'.version
      BY <2>1, <2>2 DEF Revoked
    <2>5. RowsAdvance  BY <1>0, <2>1, <2>2, <2>3, RevokedAdvances DEF RowsAdvance
    <2>6. RowsFresh  BY <2>3, <2>4, RevokedAdvances DEF RowsFresh
    <2>. QED  BY <2>5, <2>6
  <1>5. ASSUME NEW ok \in BOOLEAN, OwnerChanges(ok) PROVE RowsAdvance /\ RowsFresh
    <2>1. owner'.version = owner.version + 1 /\ UNCHANGED session  BY <1>5 DEF OwnerChanges
    <2>. QED  BY <1>0, <2>1 DEF RowsAdvance, RowsFresh
  <1>6. ASSUME NEW k \in Refreshes, RotateMobileSession(k) PROVE RowsAdvance /\ RowsFresh
    <2>1. /\ UNCHANGED owner
          /\ \/ UNCHANGED session
             \/ \E ss : session' = Revoked(session, ss)
             \/ \E s : session[s].state = "live" /\ session' = [session EXCEPT ![s].n = @ + 1]
      BY <1>6 DEF RotateMobileSession, Rotate
    <2>2. ASSUME NEW s, session[s].state = "live", session' = [session EXCEPT ![s].n = @ + 1]
          PROVE  RowsAdvance /\ RowsFresh
      <3>1. \A q \in Sessions : /\ session'[q].state = session[q].state
                                /\ session'[q].version = session[q].version
                                /\ session'[q].n = session[q].n \/ session'[q].n = session[q].n + 1
        BY <1>0, <2>2 DEF Rows
      <3>. QED  BY <1>0, <2>1, <3>1 DEF RowsAdvance, RowsFresh
    <2>. QED  BY <1>1, <1>2, <2>1, <2>2
  <1>7. ASSUME NEW k \in Refreshes, RefreshLookup(k) PROVE RowsAdvance /\ RowsFresh
    BY <1>1, <1>2, <1>7 DEF RefreshLookup
  <1>8. CASE (\E s \in Sessions : RevokeMobileSession(s)) \/ SignOut
    BY <1>2, <1>8 DEF RevokeMobileSession, SignOut
  <1>9. CASE (\E k \in Refreshes : Refresh(k) \/ RefreshAnswered(k)) \/ PersistEnvelope \/ RestartApp \/ UNCHANGED mvars
    BY <1>1, <1>9 DEF Refresh, RefreshAnswered, PersistEnvelope, RestartApp, mvars
  <1>. QED  BY <1>3, <1>4, <1>5, <1>6, <1>7, <1>8, <1>9 DEF PhoneNext

LEMMA RowsStayReached ==
    ASSUME PhoneTypeOK, PhoneTypeOK', RowsReached, RowsAdvance, RowsFresh
    PROVE  RowsReached'
  <1>1. owner.version \in Nat /\ owner'.version \in Nat
    BY DEF PhoneTypeOK
  <1>2. \A s \in Sessions : session[s].version \in Nat /\ session'[s].version \in Nat
    BY DEF PhoneTypeOK, Rows
  <1>3. ASSUME NEW s \in Sessions, session'[s].state # "free"
        PROVE  session'[s].version <= owner'.version
    <2>1. CASE session[s].state = "free"
      <3>1. session'[s].version = owner'.version  BY <1>3, <2>1 DEF RowsFresh
      <3>. QED  BY <1>1, <3>1
    <2>2. CASE session[s].state # "free"
      <3>1. /\ session'[s].version = session[s].version /\ session[s].version <= owner.version
            /\ owner'.version >= owner.version
        BY <2>2 DEF RowsReached, RowsAdvance
      <3>. QED  BY <1>1, <1>2, <3>1
    <2>. QED  BY <2>1, <2>2
  <1>. QED  BY <1>3 DEF RowsReached

(* A token handed out stays so, and a session that is not honoured is not  *)
(* honoured again.                                                         *)
LEMMA HandedOutKept ==
    ASSUME PhoneTypeOK, PhoneTypeOK', RowsAdvance, NEW token, HandedOut(token)
    PROVE  HandedOut(token)'
  <1>1. token.s \in Sessions /\ token.n \in Nat /\ session[token.s].n \in Nat /\ session'[token.s].n \in Nat
    <2>1. token \in Tokens /\ session \in Rows /\ session' \in Rows  BY DEF HandedOut, PhoneTypeOK
    <2>2. token.s \in Sessions /\ token.n \in Generations  BY <2>1 DEF Tokens
    <2>3. session[token.s].n \in Generations /\ session'[token.s].n \in Generations  BY <2>1, <2>2 DEF Rows
    <2>. QED  BY <2>2, <2>3, PhoneAssumption DEF Generations
  <1>2. token \in Tokens /\ session[token.s].state # "free" /\ token.n <= session[token.s].n
    BY DEF HandedOut
  <1>3. session'[token.s].state # "free" /\ session'[token.s].n >= session[token.s].n
    BY <1>1, <1>2 DEF RowsAdvance
  <1>4. token.n <= session'[token.s].n  BY <1>1, <1>2, <1>3
  <1>. QED  BY <1>2, <1>3, <1>4 DEF HandedOut

LEMMA NotHonouredAgain ==
    ASSUME PhoneTypeOK, PhoneTypeOK', RowsReached, RowsAdvance, NEW s \in Sessions, session[s].state # "free"
    PROVE  Honoured(s)' => Honoured(s)
  <1>. SUFFICES ASSUME Honoured(s)' PROVE Honoured(s)
    OBVIOUS
  <1>1. /\ session'[s].state = "live" /\ owner'.ok /\ owner'.version = session'[s].version
    BY DEF Honoured
  <1>2. /\ session[s].state = "live" /\ session'[s].version = session[s].version
        /\ owner'.version >= owner.version /\ (owner'.version = owner.version => owner' = owner)
        /\ session[s].version <= owner.version
    BY <1>1 DEF RowsAdvance, RowsReached
  <1>3. owner.version \in Nat /\ owner'.version \in Nat /\ session[s].version \in Nat
    BY DEF PhoneTypeOK, Rows
  <1>4. owner' = owner  BY <1>1, <1>2, <1>3
  <1>. QED  BY <1>1, <1>2, <1>4 DEF Honoured

\* What is known of a step besides its action, when the invariant held before it.
PhoneStepping == PhoneStanding /\ PhoneInv' /\ RowsAdvance

LEMMA CallKept ==
    ASSUME PhoneStepping, NEW k \in Refreshes, exchange'[k] = exchange[k]
    PROVE  CallTrue(k)'
  <1>1. /\ CallTrue(k) /\ PhoneTypeOK /\ PhoneTypeOK' /\ RowsReached /\ RowsAdvance
        /\ exchange[k].pc # "idle" => exchange[k].token \in Tokens
    BY DEF PhoneStepping, PhoneStanding, CallsTrue, PhoneInv, CallsCarryTokens
  <1>2. CASE exchange[k].pc = "idle"  BY <1>2 DEF CallTrue
  <1>3. CASE exchange[k].pc # "idle"
    <2>1. PICK t \in Tokens : t = exchange[k].token /\ HandedOut(t)
      BY <1>1, <1>3 DEF CallTrue
    <2>2. HandedOut(t)'  BY <1>1, <2>1, HandedOutKept
    <2>3. t.s \in Sessions /\ session[t.s].state # "free"  BY <2>1 DEF HandedOut, Tokens
    <2>4. ASSUME exchange[k].pc = "answered", exchange[k].answer = "rotated"
          PROVE  t.n < session'[t.s].n
      <3>1. t.n < session[t.s].n /\ session'[t.s].n >= session[t.s].n
        BY <1>1, <2>1, <2>3, <2>4 DEF CallTrue, RowsAdvance
      <3>2. t.n \in Nat /\ session[t.s].n \in Nat /\ session'[t.s].n \in Nat
        BY <1>1, <2>3, PhoneAssumption DEF Tokens, Generations, PhoneTypeOK, Rows
      <3>. QED  BY <3>1, <3>2
    <2>5. ASSUME exchange[k].pc = "answered", exchange[k].answer # "rotated"
          PROVE  ~Honoured(t.s)'
      <3>1. ~Honoured(t.s)  BY <1>1, <2>1, <2>5 DEF CallTrue
      <3>2. PICK s \in Sessions : s = t.s  BY <2>3
      <3>. QED  BY <1>1, <2>3, <3>1, <3>2, NotHonouredAgain
    <2>6. HandedOut(exchange[k].token)'  BY <2>1, <2>2 DEF HandedOut
    <2>7. (exchange[k].pc = "answered" /\ exchange[k].answer # "rotated") => ~Honoured(exchange[k].token.s)'
      BY <2>1, <2>5 DEF Honoured
    <2>. QED  BY <2>1, <2>4, <2>6, <2>7 DEF CallTrue
  <1>. QED  BY <1>2, <1>3

LEMMA NoCallTrue ==
    ASSUME NEW k \in Refreshes, exchange'[k].pc = "idle"
    PROVE  CallTrue(k)'
  BY DEF CallTrue

LEMMA StoreKept ==
    ASSUME PhoneStepping, app'.token \in {app.token, NoToken}, app'.envelope \in {app.envelope, Nil}
    PROVE  StoreTrue'
  <1>1. /\ StoreTrue /\ PhoneTypeOK /\ PhoneTypeOK' /\ RowsAdvance
        /\ app.envelope # Nil => app.envelope \in Sessions
    BY DEF PhoneStepping, PhoneStanding, PhoneInv, PhoneTypeOK, AppStates
  <1>2. ASSUME app'.token # NoToken PROVE HandedOut(app.token)'
    <2>1. PICK t : t = app.token /\ t = app'.token /\ HandedOut(t)  BY <1>1, <1>2 DEF StoreTrue
    <2>2. HandedOut(t)'  BY <1>1, <2>1, HandedOutKept
    <2>. QED  BY <2>1, <2>2 DEF HandedOut
  <1>3. app'.envelope # Nil => session'[app'.envelope].state # "free"
    BY <1>1 DEF StoreTrue, RowsAdvance
  <1>. QED  BY <1>2, <1>3 DEF StoreTrue

\* A refresh under way keeps its token, and so does the store, or it is cleared.
LEMMA TheStoredKept ==
    ASSUME PhoneStepping, app'.refresh = app.refresh, app'.overlap = app.overlap,
           app'.token \in {app.token, NoToken},
           \A k \in Refreshes : app.refresh = k => exchange'[k].token = exchange[k].token
    PROVE  RefreshesTheStored'
  BY DEF PhoneStepping, PhoneStanding, RefreshesTheStored

LEMMA NoRefreshUnderWay ==
    ASSUME app'.refresh = Nil
    PROVE  RefreshesTheStored'
  BY PhoneAssumption DEF RefreshesTheStored

(* An answer is true when what it says is: the row has left the generation *)
(* it was asked to exchange, or the session is not honoured.               *)
LEMMA AnswerTrue ==
    ASSUME PhoneStepping, NEW k \in Refreshes, NEW t \in Tokens, t = exchange[k].token, exchange[k].pc # "idle",
           NEW answer \in {"rotated", "refused"}, AnswerRefresh(k, answer), UNCHANGED app,
           IF answer = "rotated" THEN t.n < session'[t.s].n ELSE ~Honoured(t.s)'
    PROVE  CallsTrue' /\ StoreTrue' /\ RefreshesTheStored'
  <1>1. exchange \in ServerCalls /\ CallTrue(k) /\ PhoneTypeOK /\ PhoneTypeOK' /\ RowsAdvance
    BY DEF PhoneStepping, PhoneStanding, CallsTrue, PhoneInv, PhoneTypeOK
  <1>2. \A j \in Refreshes \ {k} : exchange'[j] = exchange[j]
    BY <1>1 DEF AnswerRefresh, ServerCalls
  <1>3. CASE app.refresh = k
    <2>1. exchange'[k] = [exchange[k] EXCEPT !.pc = "answered", !.answer = answer]
      BY <1>1, <1>3 DEF AnswerRefresh, ServerCalls
    <2>2. exchange'[k].pc = "answered" /\ exchange'[k].answer = answer /\ exchange'[k].token = t
      BY <1>1, <2>1 DEF ServerCalls
    <2>3. HandedOut(t)  BY <1>1 DEF CallTrue
    <2>4. HandedOut(t)'  BY <1>1, <2>3, HandedOutKept
    <2>5. HandedOut(exchange[k].token)'  BY <2>2, <2>4 DEF HandedOut
    <2>6. answer # "rotated" => ~Honoured(exchange[k].token.s)'  BY <2>2 DEF Honoured
    <2>7. CallTrue(k)'  BY <2>2, <2>5, <2>6 DEF CallTrue
    <2>8. CallsTrue'  BY <1>2, <2>7, CallKept DEF CallsTrue
    <2>9. \A j \in Refreshes : exchange'[j].token = exchange[j].token  BY <1>2, <2>2
    <2>. QED  BY <2>8, <2>9, StoreKept, TheStoredKept
  <1>4. CASE app.refresh # k
    <2>1. exchange'[k] = NoRefresh  BY <1>1, <1>4 DEF AnswerRefresh, ServerCalls
    <2>2. CallTrue(k)'  BY <2>1, NoCallTrue DEF NoRefresh
    <2>3. CallsTrue'  BY <1>2, <2>2, CallKept DEF CallsTrue
    <2>. QED  BY <1>2, <1>4, <2>3, StoreKept, TheStoredKept
  <1>. QED  BY <1>3, <1>4

(* V2MobileRefresh refuses what is not honoured and revokes it as well.    *)
LEMMA LookupTrue ==
    ASSUME PhoneStepping, NEW k \in Refreshes, RefreshLookup(k)
    PROVE  CallsTrue' /\ StoreTrue' /\ RefreshesTheStored'
  <1>1. PICK t \in Tokens : t = exchange[k].token
    BY DEF RefreshLookup, PhoneStepping, PhoneStanding, PhoneInv, CallsCarryTokens
  <1>2. /\ exchange \in ServerCalls /\ exchange[k].pc = "sent" /\ CallTrue(k) /\ UNCHANGED <<owner, app>>
        /\ t.s \in Sessions /\ PhoneTypeOK /\ PhoneTypeOK' /\ RowsAdvance
    BY DEF RefreshLookup, PhoneStepping, PhoneStanding, CallsTrue, PhoneInv, PhoneTypeOK, Tokens
  <1>3. CASE Honoured(t.s)
    <2>1. exchange' = [exchange EXCEPT ![k].pc = "rotate"]  BY <1>1, <1>3 DEF RefreshLookup
    <2>2. /\ exchange'[k].pc = "rotate" /\ exchange'[k].token = t
          /\ \A j \in Refreshes \ {k} : exchange'[j] = exchange[j]
      BY <1>1, <1>2, <2>1 DEF ServerCalls
    <2>3. HandedOut(t)  BY <1>1, <1>2 DEF CallTrue
    <2>4. HandedOut(t)'  BY <1>2, <2>3, HandedOutKept
    <2>5. HandedOut(exchange[k].token)'  BY <2>2, <2>4 DEF HandedOut
    <2>6. CallTrue(k)'  BY <2>2, <2>5 DEF CallTrue
    <2>7. CallsTrue'  BY <2>2, <2>6, CallKept DEF CallsTrue
    <2>8. \A j \in Refreshes : exchange'[j].token = exchange[j].token  BY <1>1, <2>2
    <2>. QED  BY <1>2, <2>7, <2>8, StoreKept, TheStoredKept
  <1>4. CASE ~Honoured(t.s)
    <2>1. AnswerRefresh(k, "refused")  BY <1>1, <1>4 DEF RefreshLookup
    <2>2. session[t.s].state # "free"  BY <1>1, <1>2 DEF CallTrue, HandedOut
    <2>3. ~Honoured(t.s)'
      BY <1>2, <1>4, <2>2, NotHonouredAgain DEF PhoneStepping, PhoneStanding
    <2>. QED  BY <1>1, <1>2, <2>1, <2>3, AnswerTrue
  <1>. QED  BY <1>3, <1>4

(* RotateMobileSession: a token that is not the row's own is an older one, *)
(* so that the session ends, or the row is no longer live.                 *)
LEMMA RotateTrue ==
    ASSUME PhoneStepping, NEW k \in Refreshes, RotateMobileSession(k)
    PROVE  CallsTrue' /\ StoreTrue' /\ RefreshesTheStored'
  <1>1. PICK t \in Tokens : t = exchange[k].token
    BY DEF RotateMobileSession, PhoneStepping, PhoneStanding, PhoneInv, CallsCarryTokens
  <1>2. /\ exchange[k].pc = "rotate" /\ HandedOut(t) /\ UNCHANGED app
        /\ t.s \in Sessions /\ session \in Rows
        /\ t.n \in Nat /\ session[t.s].n \in Nat
    <2>1. CallTrue(k) /\ session \in Rows
      BY DEF PhoneStepping, PhoneStanding, CallsTrue, PhoneInv, PhoneTypeOK
    <2>. QED  BY <1>1, <2>1, PhoneAssumption DEF RotateMobileSession, CallTrue, Tokens, Generations, Rows
  <1>3. CASE session[t.s].state = "live" /\ session[t.s].n = t.n
    <2>1. session' = [session EXCEPT ![t.s].n = @ + 1] /\ AnswerRefresh(k, "rotated")
      BY <1>1, <1>3 DEF RotateMobileSession, Rotate
    <2>2. session'[t.s].n = t.n + 1  BY <1>2, <1>3, <2>1 DEF Rows
    <2>. QED  BY <1>1, <1>2, <2>1, <2>2, AnswerTrue
  <1>4. CASE ~(session[t.s].state = "live" /\ session[t.s].n = t.n)
    <2>1. /\ AnswerRefresh(k, "refused")
          /\ session' = IF t.n < session[t.s].n THEN Revoked(session, {t.s}) ELSE session
      BY <1>1, <1>4 DEF RotateMobileSession
    <2>2. t.n <= session[t.s].n  BY <1>2 DEF HandedOut
    <2>3. session'[t.s].state # "live"
      <3>1. CASE t.n < session[t.s].n
        BY <1>2, <2>1, <3>1, RevokedAdvances DEF PhoneStepping, PhoneStanding
      <3>2. CASE ~(t.n < session[t.s].n)
        BY <1>2, <1>4, <2>1, <2>2, <3>2
      <3>. QED  BY <3>1, <3>2
    <2>4. ~Honoured(t.s)'  BY <2>3 DEF Honoured
    <2>. QED  BY <1>1, <1>2, <2>1, <2>4, AnswerTrue
  <1>. QED  BY <1>3, <1>4

(* The account, an administrator, a sign-in or a sign-out: no call changes. *)
LEMMA OthersTrue ==
    ASSUME PhoneStepping, UNCHANGED exchange, app'.refresh = app.refresh, app'.overlap = app.overlap,
           app'.token \in {app.token, NoToken},
           app'.envelope # Nil => session'[app'.envelope].state # "free"
    PROVE  CallsTrue' /\ StoreTrue' /\ RefreshesTheStored'
  <1>1. CallsTrue'  BY CallKept DEF CallsTrue
  <1>2. RefreshesTheStored'  BY TheStoredKept
  <1>3. PhoneTypeOK /\ PhoneTypeOK' /\ RowsAdvance /\ StoreTrue
    BY DEF PhoneStepping, PhoneStanding, PhoneInv
  <1>4. ASSUME app'.token # NoToken PROVE HandedOut(app.token)'
    <2>1. PICK t : t = app.token /\ t = app'.token /\ HandedOut(t)  BY <1>3, <1>4 DEF StoreTrue
    <2>2. HandedOut(t)'  BY <1>3, <2>1, HandedOutKept
    <2>. QED  BY <2>1, <2>2 DEF HandedOut
  <1>5. StoreTrue'  BY <1>4 DEF StoreTrue
  <1>. QED  BY <1>1, <1>2, <1>5

LEMMA SessionsTrue ==
    ASSUME PhoneStepping,
           \/ \E s \in Sessions : SignIn(s) \/ ChangePassword(s) \/ RevokeMobileSession(s)
           \/ \E ok \in BOOLEAN : OwnerChanges(ok)
           \/ SignOut
    PROVE  CallsTrue' /\ StoreTrue' /\ RefreshesTheStored'
  <1>0. app \in AppStates /\ StoreTrue /\ RowsAdvance /\ session \in Rows
    BY DEF PhoneStepping, PhoneStanding, PhoneInv, PhoneTypeOK
  <1>1. ASSUME app' = app \/ app' = [app EXCEPT !.token = NoToken], UNCHANGED exchange
        PROVE  CallsTrue' /\ StoreTrue' /\ RefreshesTheStored'
    <2>1. /\ app'.refresh = app.refresh /\ app'.overlap = app.overlap
          /\ app'.token \in {app.token, NoToken} /\ app'.envelope = app.envelope
      BY <1>0, <1>1 DEF AppStates
    <2>2. app.envelope # Nil => app.envelope \in Sessions /\ session[app.envelope].state # "free"
      BY <1>0 DEF StoreTrue, AppStates
    <2>3. app'.envelope # Nil => session'[app'.envelope].state # "free"
      BY <1>0, <2>1, <2>2 DEF RowsAdvance
    <2>. QED  BY <1>1, <2>1, <2>3, OthersTrue
  <1>2. ASSUME NEW s \in Sessions, app' = [app EXCEPT !.envelope = s], session'[s].state = "live", UNCHANGED exchange
        PROVE  CallsTrue' /\ StoreTrue' /\ RefreshesTheStored'
    <2>1. /\ app'.refresh = app.refresh /\ app'.overlap = app.overlap
          /\ app'.token = app.token /\ app'.envelope = s
      BY <1>0, <1>2 DEF AppStates
    <2>. QED  BY <1>2, <2>1, OthersTrue
  <1>3. ASSUME NEW s \in Sessions, SignIn(s) \/ ChangePassword(s)
        PROVE  CallsTrue' /\ StoreTrue' /\ RefreshesTheStored'
    <2>1. \E rows, version : session' = NewSession(rows, s, version) /\ rows \in {session, Revoked(session, Sessions)}
      BY <1>3 DEF SignIn, ChangePassword
    <2>2. session'[s].state = "live"
      BY <1>0, <2>1 DEF NewSession, Rows, Revoked
    <2>3. app' \in {[app EXCEPT !.envelope = s], app} /\ UNCHANGED exchange
      BY <1>3 DEF SignIn, ChangePassword
    <2>. QED  BY <1>1, <1>2, <2>2, <2>3
  <1>4. ASSUME (\E s \in Sessions : RevokeMobileSession(s)) \/ (\E ok \in BOOLEAN : OwnerChanges(ok)) \/ SignOut
        PROVE  CallsTrue' /\ StoreTrue' /\ RefreshesTheStored'
    BY <1>1, <1>4 DEF RevokeMobileSession, OwnerChanges, SignOut
  <1>. QED  BY <1>3, <1>4

(* The phone refreshes what it stores; an envelope stored meanwhile is     *)
(* noted as an overlap; a restart keeps the store.                         *)
LEMMA PhoneTrue ==
    ASSUME PhoneStepping,
           (\E k \in Refreshes : Refresh(k) \/ RefreshAnswered(k)) \/ PersistEnvelope \/ RestartApp
    PROVE  CallsTrue' /\ StoreTrue' /\ RefreshesTheStored'
  <1>0. /\ app \in AppStates /\ exchange \in ServerCalls /\ CallsTrue /\ StoreTrue /\ RowsAdvance /\ session \in Rows
        /\ PhoneTypeOK /\ PhoneTypeOK'
    BY DEF PhoneStepping, PhoneStanding, PhoneInv, PhoneTypeOK
  <1>1. ASSUME NEW k \in Refreshes, Refresh(k)
        PROVE  CallsTrue' /\ StoreTrue' /\ RefreshesTheStored'
    <2>1. /\ app.token # NoToken /\ UNCHANGED <<owner, session>>
          /\ exchange' = [exchange EXCEPT ![k] = [NoRefresh EXCEPT !.pc = "sent", !.token = app.token]]
          /\ app' = [app EXCEPT !.refresh = k, !.overlap = FALSE]
      BY <1>1 DEF Refresh
    <2>2. /\ exchange'[k].pc = "sent" /\ exchange'[k].token = app.token
          /\ \A j \in Refreshes \ {k} : exchange'[j] = exchange[j]
      BY <1>0, <2>1 DEF ServerCalls, NoRefresh
    <2>3. app'.token = app.token /\ app'.envelope = app.envelope /\ app'.refresh = k
      BY <1>0, <2>1 DEF AppStates
    <2>4. HandedOut(app.token)  BY <1>0, <2>1 DEF StoreTrue
    <2>5. HandedOut(exchange[k].token)'  BY <2>1, <2>2, <2>4 DEF HandedOut
    <2>6. CallTrue(k)'  BY <2>2, <2>5 DEF CallTrue
    <2>7. CallsTrue'  BY <2>2, <2>6, CallKept DEF CallsTrue
    <2>8. StoreTrue'  BY <2>3, StoreKept
    <2>9. RefreshesTheStored'  BY <2>2, <2>3 DEF RefreshesTheStored
    <2>. QED  BY <2>7, <2>8, <2>9
  <1>2. ASSUME NEW k \in Refreshes, RefreshAnswered(k)
        PROVE  CallsTrue' /\ StoreTrue' /\ RefreshesTheStored'
    <2>1. /\ UNCHANGED <<owner, session>>
          /\ exchange' = exchange \/ exchange' = [exchange EXCEPT ![k] = NoRefresh]
          /\ \/ \E token \in {app.token, NoToken} : app' = Unlock(token)
             \/ /\ exchange[k].pc = "answered" /\ exchange[k].answer = "rotated"
                /\ app' = Unlock([exchange[k].token EXCEPT !.n = @ + 1])
      BY <1>2 DEF RefreshAnswered
    <2>2. \A token : /\ Unlock(token).refresh = Nil /\ Unlock(token).token = token
                     /\ Unlock(token).envelope = app.envelope
      BY <1>0 DEF Unlock, AppStates
    <2>3. \A j \in Refreshes : exchange'[j] = exchange[j] \/ exchange'[j].pc = "idle"
      BY <1>0, <2>1 DEF ServerCalls, NoRefresh
    <2>4. CallsTrue'  BY <2>3, CallKept, NoCallTrue DEF CallsTrue
    <2>5. app'.refresh = Nil  BY <2>1, <2>2
    <2>6. RefreshesTheStored'  BY <2>5, NoRefreshUnderWay
    <2>7. CASE \E token \in {app.token, NoToken} : app' = Unlock(token)
      <3>1. StoreTrue'  BY <2>2, <2>7, StoreKept
      <3>. QED  BY <2>4, <2>6, <3>1
    <2>8. CASE /\ exchange[k].pc = "answered" /\ exchange[k].answer = "rotated"
               /\ app' = Unlock([exchange[k].token EXCEPT !.n = @ + 1])
      <3>1. HandedOut(exchange[k].token) /\ exchange[k].token.n < session[exchange[k].token.s].n
        BY <1>0, <2>8 DEF CallsTrue, CallTrue
      <3>2. PICK t \in Tokens : t = exchange[k].token /\ session[t.s].state # "free" /\ t.n < session[t.s].n
        BY <3>1 DEF HandedOut
      <3>3. t.n \in Nat /\ session[t.s].n \in Nat /\ session[t.s].n <= MaxGeneration /\ MaxGeneration \in Nat
        BY <1>0, PhoneAssumption DEF Tokens, Generations, Rows
      <3>4. [t EXCEPT !.n = t.n + 1] \in Tokens  BY <3>2, <3>3 DEF Tokens, Generations
      <3>5. app'.token = [t EXCEPT !.n = t.n + 1] /\ app'.envelope = app.envelope
        BY <2>2, <2>8, <3>2
      <3>6. app'.token.s = t.s /\ app'.token.n = t.n + 1  BY <3>5 DEF Tokens
      <3>7. HandedOut(app.token)'
        BY <2>1, <3>2, <3>3, <3>4, <3>5, <3>6 DEF HandedOut
      <3>8. StoreTrue'  BY <1>0, <2>1, <3>5, <3>7 DEF StoreTrue
      <3>. QED  BY <2>4, <2>6, <3>8
    <2>. QED  BY <2>1, <2>7, <2>8
  <1>3. CASE PersistEnvelope
    <2>1. /\ app.envelope # Nil /\ UNCHANGED <<owner, session, exchange>>
          /\ app' = [app EXCEPT !.token = [s |-> app.envelope, n |-> 0], !.envelope = Nil,
                                !.overlap = app.refresh # Nil]
      BY <1>3 DEF PersistEnvelope
    <2>2. /\ app'.token = [s |-> app.envelope, n |-> 0] /\ app'.envelope = Nil /\ app'.refresh = app.refresh
          /\ app.envelope \in Sessions
      BY <1>0, <2>1 DEF AppStates
    <2>3. app.refresh # Nil => app'.overlap  BY <1>0, <2>1 DEF AppStates
    <2>4. CallsTrue'  BY <2>1, CallKept DEF CallsTrue
    <2>5. RefreshesTheStored'  BY <2>2, <2>3, PhoneAssumption DEF RefreshesTheStored
    <2>6. session[app.envelope].state # "free" /\ session[app.envelope].n \in Nat
      BY <1>0, <2>1, <2>2, PhoneAssumption DEF StoreTrue, Rows, Generations
    <2>7. HandedOut(app.token)'
      BY <2>1, <2>2, <2>6, PhoneAssumption DEF HandedOut, Tokens, Generations
    <2>8. StoreTrue'  BY <2>2, <2>7 DEF StoreTrue
    <2>. QED  BY <2>4, <2>5, <2>8
  <1>4. CASE RestartApp
    <2>1. /\ app' = [app EXCEPT !.refresh = Nil, !.envelope = Nil, !.overlap = FALSE]
          /\ exchange' = [k \in Refreshes |-> IF exchange[k].pc = "answered" THEN NoRefresh ELSE exchange[k]]
      BY <1>4 DEF RestartApp
    <2>2. app'.refresh = Nil /\ app'.token = app.token /\ app'.envelope = Nil
      BY <1>0, <2>1 DEF AppStates
    <2>3. \A j \in Refreshes : exchange'[j] = exchange[j] \/ exchange'[j].pc = "idle"
      BY <2>1 DEF NoRefresh
    <2>4. CallsTrue'  BY <2>3, CallKept, NoCallTrue DEF CallsTrue
    <2>. QED  BY <2>2, <2>4, StoreKept, NoRefreshUnderWay
  <1>. QED  BY <1>1, <1>2, <1>3, <1>4

-----------------------------------------------------------------------------
LEMMA StandingInit == PhoneInit => PhoneStanding
  <1>. SUFFICES ASSUME PhoneInit PROVE PhoneStanding
    OBVIOUS
  <1>1. RowsReached /\ StoreTrue  BY DEF PhoneInit, RowsReached, StoreTrue
  <1>2. CallsTrue  BY DEF PhoneInit, CallsTrue, CallTrue, NoRefresh
  <1>3. RefreshesTheStored  BY DEF PhoneInit, RefreshesTheStored
  <1>. QED  BY <1>1, <1>2, <1>3, PhoneInitInv DEF PhoneStanding

LEMMA StandingStep == PhoneStanding /\ [PhoneNext]_mvars => PhoneStanding'
  <1>. SUFFICES ASSUME PhoneStanding, [PhoneNext]_mvars PROVE PhoneStanding'
    OBVIOUS
  <1>1. PhoneInv'  BY PhoneStepInv DEF PhoneStanding
  <1>2. RowsAdvance /\ RowsFresh  BY StepAdvances DEF PhoneStanding
  <1>3. PhoneStepping  BY <1>1, <1>2 DEF PhoneStepping
  <1>4. RowsReached'  BY <1>1, <1>2, RowsStayReached DEF PhoneStanding, PhoneInv
  <1>5. ASSUME PhoneNext PROVE CallsTrue' /\ StoreTrue' /\ RefreshesTheStored'
    BY <1>3, <1>5, SessionsTrue, PhoneTrue, LookupTrue, RotateTrue DEF PhoneNext
  <1>6. ASSUME UNCHANGED mvars PROVE CallsTrue' /\ StoreTrue' /\ RefreshesTheStored'
    BY <1>6 DEF mvars, PhoneStanding, CallsTrue, CallTrue, StoreTrue, RefreshesTheStored, HandedOut, Honoured
  <1>. QED  BY <1>1, <1>4, <1>5, <1>6 DEF PhoneStanding

(* Only a refused refresh empties the store of a phone that awaits one.    *)
LEMMA StandingSignsOut ==
    ASSUME PhoneStanding, [PhoneNext]_mvars, NEW k \in Refreshes,
           app.refresh = k, app'.refresh = Nil, ~app.overlap, app.token # NoToken, app'.token = NoToken
    PROVE  ~Honoured(app.token.s)
  <1>0. app \in AppStates /\ CallTrue(k) /\ RefreshesTheStored /\ k # Nil
    BY PhoneAssumption DEF PhoneStanding, PhoneInv, PhoneTypeOK, CallsTrue
  <1>1. RefreshAnswered(k)
    <2>1. app'.refresh # app.refresh /\ app'.token # app.token  BY <1>0
    <2>2. (\E s \in Sessions : SignIn(s) \/ ChangePassword(s)) => app'.token = app.token
      BY <1>0 DEF SignIn, ChangePassword, AppStates
    <2>3. (\E j \in Refreshes : Refresh(j)) \/ RestartApp => app'.token = app.token
      BY <1>0 DEF Refresh, RestartApp, AppStates
    <2>4. PersistEnvelope \/ SignOut => app'.refresh = app.refresh
      BY <1>0 DEF PersistEnvelope, SignOut, AppStates
    <2>5. \E j \in Refreshes : RefreshAnswered(j)
      BY <2>1, <2>2, <2>3, <2>4
         DEF PhoneNext, mvars, RevokeMobileSession, OwnerChanges, RefreshLookup, RotateMobileSession
    <2>. QED  BY <2>5 DEF RefreshAnswered
  <1>2. \A token : Unlock(token).token = token  BY <1>0 DEF Unlock, AppStates
  <1>3. exchange[k].pc = "answered" /\ exchange[k].answer # "rotated"
    <2>1. exchange[k].pc = "answered"
          /\ app' = Unlock(IF exchange[k].answer = "rotated" THEN [exchange[k].token EXCEPT !.n = @ + 1] ELSE NoToken)
      BY <1>1, <1>2 DEF RefreshAnswered
    <2>2. ASSUME exchange[k].answer = "rotated" PROVE FALSE
      <3>1. PICK t \in Tokens : t = exchange[k].token
        BY <2>1 DEF PhoneStanding, PhoneInv, CallsCarryTokens
      <3>2. app'.token = [t EXCEPT !.n = t.n + 1]  BY <1>2, <2>1, <2>2, <3>1
      <3>3. app'.token.n = t.n + 1 /\ t.n \in Nat
        BY <3>2, PhoneAssumption DEF Tokens, Generations
      <3>. QED  BY <3>3 DEF NoToken
    <2>. QED  BY <2>1, <2>2
  <1>4. app.token = exchange[k].token  BY <1>0 DEF RefreshesTheStored
  <1>. QED  BY <1>0, <1>3, <1>4 DEF CallTrue

-----------------------------------------------------------------------------
(* What the phone stores, what its calls were sent with and what their     *)
(* answers say is true of mobile_session in every reachable state.         *)
THEOREM PhoneStandingSafety == PhoneSpec => []PhoneStanding
  <1>. QED  BY StandingInit, StandingStep, PTL DEF PhoneSpec

(* AuthRepository.refresh signs the phone out only of a session that       *)
(* V2MobileRefresh no longer honours, however late the answer and whatever *)
(* calls overlap, unless another envelope was stored during the refresh.   *)
THEOREM SignsOutForAReason == PhoneSpec => SignedOutForAReason
  <1>1. PhoneStanding /\ [PhoneNext]_mvars =>
           [\A k \in Refreshes :
              (app.refresh = k /\ app'.refresh = Nil /\ ~app.overlap
                 /\ app.token # NoToken /\ app'.token = NoToken)
                  => ~Honoured(app.token.s)]_mvars
    BY StandingSignsOut
  <1>. QED  BY <1>1, PhoneStandingSafety, PTL DEF PhoneSpec, SignedOutForAReason

-----------------------------------------------------------------------------
(***************************************************************************)
(* A television that says its pairing was revoked is right.                *)
(*                                                                         *)
(* RevokedIsGenuine is not inductive: what the television concludes from   *)
(* an answer or from a refused media request must be true when it is       *)
(* received.  A refusal is final, since no device row is revived and rows  *)
(* are never ahead of their accounts (ApprovalsReached); and it must be    *)
(* about the credential the television still has (CallsHonest,             *)
(* MediaHonest).                                                           *)
(***************************************************************************)

\* A row made for an account, of a version that the account has reached.
Reached(accounts, row) == row.user \in Approvers /\ row.version <= accounts[row.user].version

\* Nothing is approved or enrolled ahead of its account.
ApprovalsReached ==
    /\ \A b \in Browsers : decider[b].p # NoOne => Reached(account, decider[b])
    /\ \A p \in Pairings : pairing[p].decision = "approved" => Reached(account, pairing[p])
    /\ \A d \in Devices : device[d].state # "free" => Reached(account, device[d])

\* A device that was enrolled, if only to be revoked since.
Known(d) == d \in Devices /\ device[d].state # "free"

\* What a token request is about and, once answered, what the answer means for the
\* credential of a television that asked to renew it.
Honest(k) ==
    /\ call[k].pc \in {"read", "issue"} => Known(call[k].d)
    /\ (call[k].pc = "answered" /\ call[k].answer = "token") => Known(call[k].d)
    /\ (tv.waits = k /\ call[k].code = NoOne) =>
          /\ call[k].pc \in {"read", "issue"} => call[k].d = tv.cred
          /\ (call[k].pc = "answered" /\ call[k].answer = "invalid_grant") =>
                tv.cred \in Devices /\ ~DeviceValid(tv.cred)

CallsHonest == \A k \in Calls : Honest(k)

\* A media request with the token in use, and its refusal, are about the credential.
MediaHonest ==
    /\ media \in [pc : {"idle", "sent", "refused"}, d : Devices \cup {NoOne}, current : BOOLEAN]
    /\ (media.pc # "idle" /\ media.current) => (media.d = tv.cred /\ tv.cred \in Devices)
    /\ (media.pc = "refused" /\ media.current) => ~DeviceValid(tv.cred)

CredentialKnown ==
    /\ tv.cred # NoOne => Known(tv.cred)
    /\ tv.access => tv.cred # NoOne

TelevisionInv ==
    TvInv /\ ApprovalsReached /\ CallsHonest /\ MediaHonest /\ CredentialKnown /\ RevokedIsGenuine

-----------------------------------------------------------------------------
(* A step of an account's version, or of devices that are enrolled or      *)
(* revoked, under which rows stay behind their accounts.                   *)
StandingKept ==
    /\ \A u \in Approvers : /\ account'[u].version >= account[u].version
                            /\ account'[u].version = account[u].version => account'[u] = account[u]
    /\ \A d \in Devices : device[d].state # "free" =>
          /\ device'[d].state # "free"
          /\ device'[d].state = "live" => device[d].state = "live"
          /\ device'[d].user = device[d].user /\ device'[d].version = device[d].version

\* No step moves an account back, or gives a device to another account.
LEMMA StepKeepsStanding ==
    ASSUME TvInv, [TvNext]_tvars
    PROVE  StandingKept
  <1>. USE DEF StandingKept
  <1>1. CASE UNCHANGED <<account, device>>
    BY <1>1 DEF TvInv, TvTypeOK
  <1>2. ASSUME NEW u \in Approvers, NEW ok \in BOOLEAN, AccountChanges(u, ok)
        PROVE  StandingKept
    <2>1. UNCHANGED device /\ account' = [account EXCEPT ![u] = [ok |-> ok, version |-> account[u].version + 1]]
      BY <1>2 DEF AccountChanges
    <2>2. \A v \in Approvers : account[v].version \in Nat  BY DEF TvInv, TvTypeOK
    <2>3. ASSUME NEW v \in Approvers
          PROVE  /\ account'[v].version >= account[v].version
                 /\ account'[v].version = account[v].version => account'[v] = account[v]
      <3>1. CASE v = u
        BY <2>1, <2>2, <3>1 DEF TvInv, TvTypeOK
      <3>2. CASE v # u
        BY <2>1, <2>2, <3>2 DEF TvInv, TvTypeOK
      <3>. QED  BY <3>1, <3>2
    <2>. QED  BY <2>1, <2>3
  <1>3. ASSUME NEW ds \in SUBSET Devices, Revoke(ds)
        PROVE  StandingKept
    <2>1. /\ device' = [d \in Devices |-> IF d \in ds THEN [device[d] EXCEPT !.state = "revoked"] ELSE device[d]]
          /\ \A d \in ds : device[d].state = "live"
          /\ UNCHANGED account
      BY <1>3 DEF Revoke
    <2>. QED  BY <2>1 DEF TvInv, TvTypeOK, Enrolled
  <1>4. ASSUME NEW k \in Calls, ExchangeTVPairing(k)
        PROVE  StandingKept
    <2>1. /\ UNCHANGED account
          /\ \/ UNCHANGED device
             \/ \E d \in Devices : Enrol(call[k].code, d)
      BY <1>4 DEF ExchangeTVPairing
    <2>2. ASSUME NEW d \in Devices, Enrol(call[k].code, d)
          PROVE  StandingKept
      BY <2>1, <2>2 DEF Enrol, TvInv, TvTypeOK
    <2>. QED  BY <1>1, <2>1, <2>2
  <1>5. ASSUME Logout
        PROVE  StandingKept
    <2>1. UNCHANGED account /\ device' = [device EXCEPT ![tv.cred].state = "revoked"] /\ DeviceValid(tv.cred)
      BY <1>5 DEF Logout
    <2>. QED  BY <2>1 DEF DeviceValid, TvInv, TvTypeOK, Enrolled
  <1>6. \A u : LiveDevices(u) \in SUBSET Devices  BY DEF LiveDevices
  <1>7. CASE Environment
    <2>1. ASSUME NEW p \in Pairings, Expire(p) \/ FiveSecondsPass(p) PROVE UNCHANGED <<account, device>>
      BY <2>1 DEF Expire, FiveSecondsPass
    <2>. QED  BY <1>1, <1>2, <1>3, <1>6, <1>7, <2>1 DEF Environment
  <1>8. CASE Browser
    BY <1>1, <1>8 DEF Browser, DecisionLookup, DecideTVPairing
  <1>9. ASSUME NEW k \in Calls, Server(k) PROVE StandingKept
    BY <1>1, <1>4, <1>9 DEF Server, CheckAccount, IssueTVAccess
  <1>10. CASE Television
    BY <1>1, <1>5, <1>10 DEF Television, BeginPairing, Poll, Renew, Receive, TimeOut, Restart, MediaRequest,
       AuthenticateTVDevice, PairingRevoked
  <1>11. CASE UNCHANGED tvars  BY <1>1, <1>11 DEF tvars
  <1>. QED  BY <1>7, <1>8, <1>9, <1>10, <1>11 DEF TvNext

(* A device the server no longer honours is never honoured again: its row  *)
(* is not revived, and its account never returns to an earlier version.    *)
LEMMA RevokedForGood ==
    ASSUME TvTypeOK, TvTypeOK', ApprovalsReached, StandingKept, NEW d \in Devices, Known(d)
    PROVE  Known(d)' /\ (~DeviceValid(d) => ~DeviceValid(d)')
  <1>1. /\ device'[d].state # "free"
        /\ device'[d].state = "live" => device[d].state = "live"
        /\ device'[d].user = device[d].user /\ device'[d].version = device[d].version
    BY DEF Known, StandingKept
  <1>2. PICK u \in Approvers : u = device[d].user /\ device[d].version <= account[u].version
    BY DEF ApprovalsReached, Reached, Known
  <1>3. /\ account'[u].version >= account[u].version
        /\ account'[u].version = account[u].version => account'[u] = account[u]
    BY DEF StandingKept
  <1>4. account[u].version \in Nat /\ account'[u].version \in Nat /\ device[d].version \in Nat
    BY DEF TvTypeOK, Enrolled
  <1>5. Known(d)'  BY <1>1 DEF Known
  <1>6. ASSUME DeviceValid(d)' PROVE DeviceValid(d)
    <2>1. device'[d].state = "live" /\ account'[u].ok /\ account'[u].version = device[d].version
      BY <1>1, <1>2, <1>6 DEF DeviceValid, AccountIs
    <2>2. account'[u] = account[u]  BY <1>2, <1>3, <1>4, <2>1
    <2>. QED  BY <1>1, <1>2, <2>1, <2>2 DEF DeviceValid, AccountIs
  <1>. QED  BY <1>5, <1>6

(* What a step decides or enrols is for the account as it is.              *)
LEMMA StepMakesReached ==
    ASSUME TvInv, ApprovalsReached, [TvNext]_tvars
    PROVE  /\ \A b \in Browsers : decider'[b].p # NoOne => Reached(account, decider'[b])
           /\ \A p \in Pairings : pairing'[p].decision = "approved" => Reached(account, pairing'[p])
           /\ \A d \in Devices : device'[d].state # "free" => Reached(account, device'[d])
  <1>0. /\ \A b \in Browsers : decider[b].p # NoOne => Reached(account, decider[b])
        /\ \A p \in Pairings : pairing[p].decision = "approved" => Reached(account, pairing[p])
        /\ \A d \in Devices : device[d].state # "free" => Reached(account, device[d])
    BY DEF ApprovalsReached
  <1>1. ASSUME NEW b \in Browsers, decider'[b].p # NoOne
        PROVE  Reached(account, decider'[b])
    <2>1. \/ decider'[b] = decider[b]
          \/ \E u \in Approvers, p \in Pairings : decider'[b] = [user |-> u, p |-> p, version |-> account[u].version]
      <3>1. CASE UNCHANGED decider  BY <3>1
      <3>2. ASSUME NEW c \in Browsers, NEW u \in Approvers, NEW p \in Pairings, DecisionLookup(c, u, p)
            PROVE  \/ decider'[b] = decider[b]
                   \/ decider'[b] = [user |-> u, p |-> p, version |-> account[u].version]
        BY <3>2 DEF DecisionLookup, TvInv, TvTypeOK
      <3>3. ASSUME NEW c \in Browsers, NEW decision, DecideTVPairing(c, decision)
            PROVE  decider'[b] = decider[b]
        <4>1. decider' = [decider EXCEPT ![c] = [user |-> NoOne, p |-> NoOne, version |-> 0]]
          BY <3>3 DEF DecideTVPairing
        <4>2. decider'[c].p = NoOne  BY <4>1 DEF TvInv, TvTypeOK
        <4>. QED  BY <1>1, <4>1, <4>2 DEF TvInv, TvTypeOK
      <3>4. UNCHANGED decider \/ Browser
        BY DEF TvNext, tvars, Environment, AccountChanges, Revoke, Expire, FiveSecondsPass, Server, ExchangeTVPairing,
           CheckAccount, IssueTVAccess, Television, BeginPairing, Poll, Renew, Receive, TimeOut, Restart, MediaRequest,
           AuthenticateTVDevice, PairingRevoked, Logout
      <3>. QED  BY <3>1, <3>2, <3>3, <3>4 DEF Browser
    <2>2. \A u \in Approvers : account[u].version \in Nat  BY DEF TvInv, TvTypeOK
    <2>3. ASSUME NEW u \in Approvers, NEW p \in Pairings,
                 decider'[b] = [user |-> u, p |-> p, version |-> account[u].version]
          PROVE  Reached(account, decider'[b])
      <3>1. decider'[b].user = u /\ decider'[b].version = account[u].version  BY <2>3
      <3>. QED  BY <2>2, <3>1 DEF Reached
    <2>. QED  BY <1>0, <1>1, <2>1, <2>3
  <1>2. ASSUME NEW p \in Pairings, pairing'[p].decision = "approved"
        PROVE  Reached(account, pairing'[p])
    <2>1. \/ /\ pairing'[p].decision = pairing[p].decision
             /\ pairing'[p].user = pairing[p].user /\ pairing'[p].version = pairing[p].version
          \/ \E b \in Browsers : /\ decider[b].p # NoOne
                                 /\ pairing'[p].user = decider[b].user /\ pairing'[p].version = decider[b].version
      <3>1. CASE UNCHANGED pairing  BY <3>1
      <3>2. CASE \E q \in Pairings : Expire(q) \/ FiveSecondsPass(q) \/ BeginPairing(q)
        <4>1. PICK q \in Pairings : \/ pairing' = [pairing EXCEPT ![q].state = "gone"]
                                   \/ pairing' = [pairing EXCEPT ![q].polled = FALSE]
                                   \/ pairing' = [pairing EXCEPT ![q].state = "open"]
          BY <3>2 DEF Expire, FiveSecondsPass, BeginPairing
        <4>. QED  BY <4>1 DEF TvInv, TvTypeOK, Pairs
      <3>3. CASE \E b \in Browsers, decision \in {"approved", "denied"} : DecideTVPairing(b, decision)
        BY <3>3 DEF DecideTVPairing, TvInv, TvTypeOK, Pairs
      <3>4. CASE \E k \in Calls : ExchangeTVPairing(k)
        <4>1. PICK k \in Calls : ExchangeTVPairing(k)  BY <3>4
        <4>2. PICK q \in Pairings : q = call[k].code
          BY <4>1 DEF ExchangeTVPairing, TvInv, TvTypeOK, TokenRequests
        <4>3. \/ UNCHANGED pairing
              \/ pairing' = [pairing EXCEPT ![q].polled = TRUE]
              \/ \E d \in Devices : pairing' = [pairing EXCEPT ![q].polled = TRUE, ![q].device = d]
          BY <4>1, <4>2 DEF ExchangeTVPairing, Enrol
        <4>4. pairing[p] \in Pairs /\ pairing[q] \in Pairs  BY DEF TvInv, TvTypeOK
        <4>5. CASE pairing' = [pairing EXCEPT ![q].polled = TRUE]
          BY <4>4, <4>5 DEF TvInv, TvTypeOK, Pairs
        <4>6. ASSUME NEW d \in Devices, pairing' = [pairing EXCEPT ![q].polled = TRUE, ![q].device = d]
              PROVE  /\ pairing'[p].decision = pairing[p].decision
                     /\ pairing'[p].user = pairing[p].user /\ pairing'[p].version = pairing[p].version
          BY <4>4, <4>6 DEF TvInv, TvTypeOK, Pairs
        <4>. QED  BY <3>1, <4>3, <4>5, <4>6
      <3>5. \/ UNCHANGED pairing
            \/ \E q \in Pairings : Expire(q) \/ FiveSecondsPass(q) \/ BeginPairing(q)
            \/ \E b \in Browsers, decision \in {"approved", "denied"} : DecideTVPairing(b, decision)
            \/ \E k \in Calls : ExchangeTVPairing(k)
        BY DEF TvNext, tvars, Environment, AccountChanges, Revoke, Browser, DecisionLookup, Server,
           CheckAccount, IssueTVAccess, Television, Poll, Renew, Receive, TimeOut, Restart, MediaRequest,
           AuthenticateTVDevice, PairingRevoked, Logout
      <3>. QED  BY <3>1, <3>2, <3>3, <3>4, <3>5
    <2>. QED  BY <1>0, <1>2, <2>1 DEF Reached
  <1>3. ASSUME NEW d \in Devices, device'[d].state # "free"
        PROVE  Reached(account, device'[d])
    <2>1. CASE device[d].state # "free"
      <3>1. device'[d].user = device[d].user /\ device'[d].version = device[d].version
        BY <2>1, StepKeepsStanding DEF StandingKept
      <3>. QED  BY <1>0, <2>1, <3>1 DEF Reached
    <2>2. CASE device[d].state = "free"
      <3>1. PICK k \in Calls, e \in Devices : ExchangeTVPairing(k) /\ Exchangeable(call[k].code) /\ Enrol(call[k].code, e)
        <4>1. CASE UNCHANGED device  BY <1>3, <2>2, <4>1
        <4>2. ASSUME NEW ds \in SUBSET Devices, Revoke(ds) PROVE FALSE
          BY <1>3, <2>2, <4>2 DEF Revoke, TvInv, TvTypeOK
        <4>3. CASE Logout
          BY <1>3, <2>2, <4>3 DEF Logout, DeviceValid, TvInv, TvTypeOK
        <4>4. CASE \E k \in Calls : ExchangeTVPairing(k)
          BY <4>1, <4>4 DEF ExchangeTVPairing
        <4>5. \/ UNCHANGED device
              \/ \E ds \in SUBSET Devices : Revoke(ds)
              \/ Logout
              \/ \E k \in Calls : ExchangeTVPairing(k)
          <5>1. \A u : LiveDevices(u) \in SUBSET Devices  BY DEF LiveDevices
          <5>. QED  BY <5>1
                 DEF TvNext, tvars, Environment, AccountChanges, Expire, FiveSecondsPass, Browser, DecisionLookup, DecideTVPairing,
                     Server, CheckAccount, IssueTVAccess, Television, BeginPairing, Poll, Renew, Receive, TimeOut, Restart,
                     MediaRequest, AuthenticateTVDevice, PairingRevoked
        <4>. QED  BY <4>1, <4>2, <4>3, <4>4, <4>5
      <3>2. call[k].code \in Pairings
        BY <3>1 DEF ExchangeTVPairing, TvInv, TvTypeOK, TokenRequests
      <3>3. Reached(account, pairing[call[k].code])
        BY <1>0, <3>1, <3>2 DEF Exchangeable
      <3>4. d = e /\ device'[d].user = pairing[call[k].code].user /\ device'[d].version = pairing[call[k].code].version
        BY <1>3, <2>2, <3>1 DEF Enrol, TvInv, TvTypeOK
      <3>. QED  BY <3>3, <3>4 DEF Reached
    <2>. QED  BY <2>1, <2>2
  <1>. QED  BY <1>1, <1>2, <1>3

LEMMA ApprovalsStayReached ==
    ASSUME TvInv, TvTypeOK', ApprovalsReached, StandingKept, [TvNext]_tvars
    PROVE  ApprovalsReached'
  <1>1. ASSUME NEW row, row.version \in Nat, Reached(account, row)
        PROVE  Reached(account', row)
    <2>1. PICK u \in Approvers : u = row.user /\ row.version <= account[u].version
      BY <1>1 DEF Reached
    <2>2. account'[u].version >= account[u].version  BY DEF StandingKept
    <2>3. account[u].version \in Nat /\ account'[u].version \in Nat  BY DEF TvInv, TvTypeOK
    <2>. QED  BY <1>1, <2>1, <2>2, <2>3 DEF Reached
  <1>2. /\ \A b \in Browsers : decider'[b].version \in Nat
        /\ \A p \in Pairings : pairing'[p].version \in Nat
        /\ \A d \in Devices : device'[d].version \in Nat
    BY DEF TvTypeOK, Decisions, Pairs, Enrolled
  <1>3. /\ \A b \in Browsers : decider'[b].p # NoOne => Reached(account', decider'[b])
        /\ \A p \in Pairings : pairing'[p].decision = "approved" => Reached(account', pairing'[p])
        /\ \A d \in Devices : device'[d].state # "free" => Reached(account', device'[d])
    BY <1>1, <1>2, StepMakesReached
  <1>. QED  BY <1>3 DEF ApprovalsReached

\* What is known of a step besides its action, when the invariant held before it.
Stepping == TelevisionInv /\ TvTypeOK' /\ StandingKept

(* What a call means lasts while neither the call nor the credential that  *)
(* waits for it changes.                                                   *)
LEMMA HonestKept ==
    ASSUME Stepping, NEW j \in Calls, call'[j] = call[j],
           tv'.waits = j => (tv.waits = j /\ tv'.cred = tv.cred)
    PROVE  Honest(j)'
  <1>1. Honest(j)  BY DEF Stepping, TelevisionInv, CallsHonest
  <1>2. \A d \in Devices : Known(d) => Known(d)' /\ (~DeviceValid(d) => ~DeviceValid(d)')
    BY RevokedForGood DEF Stepping, TelevisionInv, TvInv
  <1>3. ASSUME Known(call[j].d) PROVE Known(call[j].d)'
    <2>1. PICK d \in Devices : d = call[j].d /\ Known(d)  BY <1>3 DEF Known
    <2>2. Known(d)'  BY <1>2, <2>1
    <2>. QED  BY <2>1, <2>2 DEF Known
  <1>4. ASSUME tv.cred \in Devices, ~DeviceValid(tv.cred), tv'.cred = tv.cred
        PROVE  tv'.cred \in Devices /\ ~DeviceValid(tv.cred)'
    <2>1. Known(tv.cred)
      BY <1>4, TvAssumption DEF Stepping, TelevisionInv, CredentialKnown
    <2>2. PICK d \in Devices : d = tv.cred  BY <1>4
    <2>3. ~DeviceValid(d)'  BY <1>2, <1>4, <2>1, <2>2
    <2>. QED  BY <1>4, <2>2, <2>3 DEF DeviceValid
  <1>5. call'[j].pc \in {"read", "issue"} => Known(call[j].d)'
    BY <1>1, <1>3 DEF Honest
  <1>6. (call'[j].pc = "answered" /\ call'[j].answer = "token") => Known(call[j].d)'
    BY <1>1, <1>3 DEF Honest
  <1>7. (tv'.waits = j /\ call'[j].code = NoOne) =>
           /\ call'[j].pc \in {"read", "issue"} => call'[j].d = tv'.cred
           /\ (call'[j].pc = "answered" /\ call'[j].answer = "invalid_grant") =>
                 tv'.cred \in Devices /\ ~DeviceValid(tv.cred)'
    BY <1>1, <1>4 DEF Honest
  <1>. QED  BY <1>5, <1>6, <1>7 DEF Honest

LEMMA IdleHonest ==
    ASSUME NEW j \in Calls, call'[j] = IdleCall
    PROVE  Honest(j)'
  <1>1. call'[j].pc = "idle"  BY DEF IdleCall
  <1>. QED  BY <1>1 DEF Honest

LEMMA MediaKept ==
    ASSUME Stepping, UNCHANGED media,
           (media.pc # "idle" /\ media.current) => tv'.cred = tv.cred
    PROVE  MediaHonest'
  <1>1. MediaHonest  BY DEF Stepping, TelevisionInv
  <1>2. ASSUME media.pc # "idle", media.current
        PROVE  /\ media'.d = tv'.cred /\ tv'.cred \in Devices
               /\ media.pc = "refused" => ~DeviceValid(tv.cred)'
    <2>1. PICK d \in Devices : d = tv.cred /\ tv'.cred = d /\ media.d = d
      BY <1>1, <1>2 DEF MediaHonest
    <2>2. Known(d)  BY <2>1, TvAssumption DEF Stepping, TelevisionInv, CredentialKnown
    <2>3. ~DeviceValid(d) => ~DeviceValid(d)'
      BY <2>2, RevokedForGood DEF Stepping, TelevisionInv, TvInv
    <2>. QED  BY <1>1, <1>2, <2>1, <2>3 DEF MediaHonest, DeviceValid
  <1>. QED  BY <1>1, <1>2 DEF MediaHonest

LEMMA CredentialKept ==
    ASSUME Stepping, tv'.cred = tv.cred, tv'.access => tv.access
    PROVE  CredentialKnown'
  <1>1. ASSUME tv.cred # NoOne PROVE Known(tv.cred)'
    <2>1. Known(tv.cred)  BY <1>1 DEF Stepping, TelevisionInv, CredentialKnown
    <2>2. PICK d \in Devices : d = tv.cred /\ Known(d)  BY <2>1 DEF Known
    <2>3. Known(d)'  BY <2>2, RevokedForGood DEF Stepping, TelevisionInv, TvInv
    <2>. QED  BY <2>2, <2>3 DEF Known
  <1>2. tv'.cred # NoOne => Known(tv.cred)'  BY <1>1
  <1>3. tv.access => tv.cred # NoOne  BY DEF Stepping, TelevisionInv, CredentialKnown
  <1>. QED  BY <1>2, <1>3 DEF CredentialKnown

LEMMA GenuineKept ==
    ASSUME Stepping, tv'.cred = tv.cred, tv'.state = "REVOKED" => tv.state = "REVOKED"
    PROVE  RevokedIsGenuine'
  <1>1. ASSUME tv.state = "REVOKED", tv.cred # NoOne PROVE ~DeviceValid(tv.cred)'
    <2>1. Known(tv.cred) /\ ~DeviceValid(tv.cred)
      BY <1>1 DEF Stepping, TelevisionInv, CredentialKnown, RevokedIsGenuine
    <2>2. PICK d \in Devices : d = tv.cred /\ Known(d) /\ ~DeviceValid(d)  BY <2>1 DEF Known
    <2>3. ~DeviceValid(d)'  BY <2>2, RevokedForGood DEF Stepping, TelevisionInv, TvInv
    <2>. QED  BY <2>2, <2>3 DEF DeviceValid
  <1>. QED  BY <1>1 DEF RevokedIsGenuine

\* The four parts about the television together.
Standing == CallsHonest /\ MediaHonest /\ CredentialKnown /\ RevokedIsGenuine

(* Others act: the television, its calls and its request stay as they are. *)
LEMMA OthersKeepStanding ==
    ASSUME Stepping, UNCHANGED <<call, media>>, tv'.cred = tv.cred, tv'.access = tv.access,
           tv'.state = tv.state, tv'.waits = tv.waits
    PROVE  Standing'
  <1>1. \A j \in Calls : Honest(j)'  BY HonestKept
  <1>2. CallsHonest'  BY <1>1 DEF CallsHonest
  <1>3. MediaHonest' /\ CredentialKnown' /\ RevokedIsGenuine'
    BY MediaKept, CredentialKept, GenuineKept
  <1>. QED  BY <1>2, <1>3 DEF Standing

(* The server works on a call.                                             *)
LEMMA WorkKeepsStanding ==
    ASSUME Stepping, UNCHANGED <<media, tv>>, NEW k \in Calls, Honest(k)',
           \A j \in Calls \ {k} : call'[j] = call[j]
    PROVE  Standing'
  <1>1. \A j \in Calls : Honest(j)'  BY HonestKept
  <1>2. CallsHonest'  BY <1>1 DEF CallsHonest
  <1>3. MediaHonest' /\ CredentialKnown' /\ RevokedIsGenuine'
    BY MediaKept, CredentialKept, GenuineKept
  <1>. QED  BY <1>2, <1>3 DEF Standing

(* An answer is honest when the call's own code explains a refusal, or the *)
(* device it is about is not honoured.                                     *)
LEMMA AnswerHonest ==
    ASSUME Stepping, UNCHANGED tv, NEW k \in Calls, NEW answer \in {"wait", "invalid_grant", "token"},
           NEW d \in Devices \cup {NoOne}, Answer(k, answer, d),
           answer = "token" => Known(d)',
           (answer = "invalid_grant" /\ tv.waits = k /\ call[k].code = NoOne) =>
               tv.cred \in Devices /\ ~DeviceValid(tv.cred)'
    PROVE  Honest(k)' /\ \A j \in Calls \ {k} : call'[j] = call[j]
  <1>1. call \in [Calls -> TokenRequests]  BY DEF Stepping, TelevisionInv, TvInv, TvTypeOK
  <1>2. \A j \in Calls \ {k} : call'[j] = call[j]  BY <1>1 DEF Answer
  <1>3. CASE tv.waits # k
    BY <1>1, <1>3, IdleHonest DEF Answer
  <1>4. CASE tv.waits = k
    <2>1. call'[k] = [call[k] EXCEPT !.pc = "answered", !.answer = answer, !.d = d]
      BY <1>1, <1>4 DEF Answer
    <2>2. call'[k].pc = "answered" /\ call'[k].answer = answer /\ call'[k].d = d /\ call'[k].code = call[k].code
      BY <1>1, <2>1 DEF TokenRequests
    <2>3. answer = "token" => Known(call[k].d)'
      BY <2>2 DEF Known
    <2>4. (answer = "invalid_grant" /\ call[k].code = NoOne) => tv'.cred \in Devices /\ ~DeviceValid(tv.cred)'
      BY <1>4
    <2>. QED  BY <1>2, <2>2, <2>3, <2>4 DEF Honest
  <1>. QED  BY <1>2, <1>3, <1>4

LEMMA AccountsAndBrowsersKeepStanding ==
    ASSUME Stepping, Environment \/ Browser
    PROVE  Standing'
  <1>1. /\ UNCHANGED <<call, media>>
        /\ tv' = tv \/ tv' = [tv EXCEPT !.code = NoOne]
    BY DEF Environment, AccountChanges, Revoke, Expire, FiveSecondsPass, Browser, DecisionLookup, DecideTVPairing
  <1>2. tv'.cred = tv.cred /\ tv'.access = tv.access /\ tv'.state = tv.state /\ tv'.waits = tv.waits
    BY <1>1 DEF Stepping, TelevisionInv, TvInv, TvTypeOK, Televisions
  <1>. QED  BY <1>1, <1>2, OthersKeepStanding

(* ExchangeTVPairing answers a poll, which has a code, or goes on with the *)
(* device enrolled now or before.                                          *)
LEMMA ExchangeKeepsStanding ==
    ASSUME Stepping, NEW k \in Calls, ExchangeTVPairing(k)
    PROVE  Standing'
  <1>1. PICK p \in Pairings : p = call[k].code /\ p # NoOne
    BY DEF ExchangeTVPairing, Stepping, TelevisionInv, TvInv, TvTypeOK, TokenRequests
  <1>2. UNCHANGED <<media, tv>> /\ call \in [Calls -> TokenRequests]
    BY DEF ExchangeTVPairing, Stepping, TelevisionInv, TvInv, TvTypeOK
  <1>3. ASSUME NEW answer \in {"wait", "invalid_grant"}, Answer(k, answer, NoOne) PROVE Standing'
    <2>1. Honest(k)' /\ \A j \in Calls \ {k} : call'[j] = call[j]
      BY <1>1, <1>2, <1>3, AnswerHonest
    <2>. QED  BY <1>2, <2>1, WorkKeepsStanding
  <1>4. ASSUME NEW d \in Devices, Known(d)', call' = [call EXCEPT ![k].pc = "read", ![k].d = d] PROVE Standing'
    <2>1. call'[k].pc = "read" /\ call'[k].d = d /\ call'[k].code = p /\ \A j \in Calls \ {k} : call'[j] = call[j]
      BY <1>1, <1>2, <1>4 DEF TokenRequests
    <2>2. Known(call[k].d)'  BY <1>4, <2>1 DEF Known
    <2>3. Honest(k)'  BY <1>1, <2>1, <2>2 DEF Honest
    <2>. QED  BY <1>2, <2>1, <2>3, WorkKeepsStanding
  <1>5. ASSUME NEW d \in Devices, Enrol(p, d) PROVE Known(d)'
    <2>1. device'[d].state = "live"
      BY <1>5 DEF Enrol, Stepping, TelevisionInv, TvInv, TvTypeOK
    <2>. QED  BY <2>1 DEF Known
  <1>6. ASSUME pairing[p].device # NoOne, UNCHANGED device
        PROVE  \E d \in Devices : d = pairing[p].device /\ Known(d)'
    <2>1. PICK d \in Devices : d = pairing[p].device /\ device[d].state # "free"
      BY <1>6 DEF Stepping, TelevisionInv, TvInv, TvTypeOK, Pairs, PairingsOrderly
    <2>2. Known(d)'  BY <1>6, <2>1 DEF Known
    <2>. QED  BY <2>1, <2>2
  <1>7. \/ \E answer \in {"wait", "invalid_grant"} : Answer(k, answer, NoOne)
        \/ \E d \in Devices : Enrol(p, d) /\ call' = [call EXCEPT ![k].pc = "read", ![k].d = d]
        \/ /\ pairing[p].device # NoOne /\ UNCHANGED device
           /\ call' = [call EXCEPT ![k].pc = "read", ![k].d = pairing[p].device]
    BY <1>1 DEF ExchangeTVPairing
  <1>. QED  BY <1>3, <1>4, <1>5, <1>6, <1>7

(* The device row is read, and read again as the token is inserted: each   *)
(* refusal is about a device that is not honoured at that moment.          *)
LEMMA IssueKeepsStanding ==
    ASSUME Stepping, NEW k \in Calls, CheckAccount(k) \/ IssueTVAccess(k)
    PROVE  Standing'
  <1>1. /\ UNCHANGED <<account, device, media, tv>> /\ call \in [Calls -> TokenRequests]
        /\ call[k].pc \in {"read", "issue"} /\ Honest(k)
    BY DEF CheckAccount, IssueTVAccess, Stepping, TelevisionInv, CallsHonest, TvInv, TvTypeOK
  <1>2. PICK d \in Devices : d = call[k].d /\ Known(d)
    BY <1>1 DEF Honest, Known
  <1>3. Known(d)'  BY <1>1, <1>2 DEF Known
  <1>4. ASSUME ~DeviceValid(d), Answer(k, "invalid_grant", NoOne) PROVE Standing'
    <2>1. ASSUME tv.waits = k, call[k].code = NoOne PROVE tv.cred \in Devices /\ ~DeviceValid(tv.cred)'
      <3>1. tv.cred = d /\ tv' = tv  BY <1>1, <1>2, <2>1 DEF Honest
      <3>. QED  BY <1>1, <1>4, <3>1 DEF DeviceValid, AccountIs
    <2>2. Honest(k)' /\ \A j \in Calls \ {k} : call'[j] = call[j]
      BY <1>1, <1>4, <2>1, AnswerHonest
    <2>. QED  BY <1>1, <2>2, WorkKeepsStanding
  <1>5. ASSUME DeviceValid(d), \/ call' = [call EXCEPT ![k].pc = "issue"]
                               \/ Answer(k, "token", d)
        PROVE  Standing'
    <2>1. CASE Answer(k, "token", d)
      <3>1. Honest(k)' /\ \A j \in Calls \ {k} : call'[j] = call[j]
        BY <1>1, <1>3, <2>1, AnswerHonest
      <3>. QED  BY <1>1, <3>1, WorkKeepsStanding
    <2>2. CASE call' = [call EXCEPT ![k].pc = "issue"]
      <3>1. call'[k].pc = "issue" /\ call'[k].d = d /\ call'[k].code = call[k].code
            /\ \A j \in Calls \ {k} : call'[j] = call[j]
        BY <1>1, <1>2, <2>2 DEF TokenRequests
      <3>2. Known(call[k].d)'  BY <1>3, <3>1 DEF Known
      <3>3. (tv'.waits = k /\ call'[k].code = NoOne) => call'[k].d = tv'.cred
        BY <1>1, <1>2, <3>1 DEF Honest
      <3>4. Honest(k)'  BY <3>1, <3>2, <3>3 DEF Honest
      <3>. QED  BY <1>1, <3>1, <3>4, WorkKeepsStanding
    <2>. QED  BY <1>5, <2>1, <2>2
  <1>6. \/ ~DeviceValid(d) /\ Answer(k, "invalid_grant", NoOne)
        \/ DeviceValid(d) /\ (call' = [call EXCEPT ![k].pc = "issue"] \/ Answer(k, "token", d))
    BY <1>2 DEF CheckAccount, IssueTVAccess
  <1>. QED  BY <1>4, <1>5, <1>6

(* The television shows a code, polls with it, or asks to renew.           *)
LEMMA AskingKeepsStanding ==
    ASSUME Stepping, (\E p \in Pairings : BeginPairing(p)) \/ (\E k \in Calls : Poll(k) \/ Renew(k))
    PROVE  Standing'
  <1>0. /\ tv \in Televisions /\ call \in [Calls -> TokenRequests] /\ CredentialKnown
    BY DEF Stepping, TelevisionInv, TvInv, TvTypeOK
  <1>1. CASE \E p \in Pairings : BeginPairing(p)
    <2>1. UNCHANGED <<call, media>> /\ \E p \in Pairings : tv' = [tv EXCEPT !.code = p]
      BY <1>1 DEF BeginPairing
    <2>2. tv'.cred = tv.cred /\ tv'.access = tv.access /\ tv'.state = tv.state /\ tv'.waits = tv.waits
      BY <1>0, <2>1 DEF Televisions
    <2>. QED  BY <2>1, <2>2, OthersKeepStanding
  <1>2. ASSUME NEW k \in Calls, Poll(k) \/ Renew(k) PROVE Standing'
    <2>1. /\ tv' = [tv EXCEPT !.waits = k] /\ UNCHANGED <<device, account, media>>
          /\ \/ /\ tv.code # NoOne
                /\ call' = [call EXCEPT ![k] = [IdleCall EXCEPT !.pc = "exchange", !.code = tv.code]]
             \/ /\ tv.cred # NoOne
                /\ call' = [call EXCEPT ![k] = [IdleCall EXCEPT !.pc = "read", !.d = tv.cred]]
      BY <1>2 DEF Poll, Renew
    <2>2. tv'.cred = tv.cred /\ tv'.access = tv.access /\ tv'.state = tv.state /\ tv'.waits = k
      BY <1>0, <2>1 DEF Televisions
    <2>3. Honest(k)'
      <3>1. CASE call'[k] = [IdleCall EXCEPT !.pc = "exchange", !.code = tv.code] /\ tv.code # NoOne
        <4>1. call'[k].pc = "exchange"  BY <3>1 DEF IdleCall
        <4>. QED  BY <4>1 DEF Honest
      <3>2. CASE call'[k] = [IdleCall EXCEPT !.pc = "read", !.d = tv.cred] /\ tv.cred # NoOne
        <4>1. call'[k].pc = "read" /\ call'[k].d = tv.cred  BY <3>2 DEF IdleCall
        <4>2. Known(tv.cred)  BY <1>0, <3>2 DEF CredentialKnown
        <4>3. Known(call[k].d)'  BY <2>1, <4>1, <4>2 DEF Known
        <4>. QED  BY <2>2, <4>1, <4>3 DEF Honest
      <3>. QED  BY <1>0, <2>1, <3>1, <3>2
    <2>4. \A j \in Calls \ {k} : call'[j] = call[j] /\ tv'.waits # j
      BY <1>0, <2>1, <2>2
    <2>5. CallsHonest'  BY <2>3, <2>4, HonestKept DEF CallsHonest
    <2>6. MediaHonest' /\ CredentialKnown' /\ RevokedIsGenuine'
      BY <2>1, <2>2, MediaKept, CredentialKept, GenuineKept
    <2>. QED  BY <2>5, <2>6 DEF Standing
  <1>. QED  BY <1>1, <1>2

(* The television stops waiting: every call it leaves is as honest, since  *)
(* only the one it waits for says something of the credential.             *)
LEMMA NotWaitingHonest ==
    ASSUME Stepping, tv'.waits = NoOne,
           \A j \in Calls : call'[j] = call[j] \/ call'[j] = IdleCall
    PROVE  CallsHonest'
  <1>1. NoOne \notin Calls  BY TvAssumption
  <1>2. ASSUME NEW j \in Calls PROVE Honest(j)'
    <2>1. tv'.waits # j  BY <1>1
    <2>. QED  BY <2>1, HonestKept, IdleHonest
  <1>. QED  BY <1>2 DEF CallsHonest

(* An answer is received: a token replaces the credential, a refused       *)
(* renewal shows the pairing as revoked, anything else changes neither.    *)
LEMMA ReceiveKeepsStanding ==
    ASSUME Stepping, NEW k \in Calls, Receive(k)
    PROVE  Standing'
  <1>0. /\ tv \in Televisions /\ call \in [Calls -> TokenRequests] /\ CredentialKnown /\ Honest(k) /\ MediaHonest
        /\ UNCHANGED <<account, device>> /\ tv.waits = k /\ call[k].pc = "answered"
        /\ call' = [call EXCEPT ![k] = IdleCall]
    BY DEF Receive, Stepping, TelevisionInv, CallsHonest, TvInv, TvTypeOK
  <1>1. \A j \in Calls : call'[j] = call[j] \/ call'[j] = IdleCall
    BY <1>0
  <1>2. CASE call[k].answer = "token"
    <2>1. /\ tv' = [state |-> "AUTHENTICATED", cred |-> call[k].d, access |-> TRUE, code |-> NoOne, waits |-> NoOne]
          /\ media' = [media EXCEPT !.current = FALSE]
      BY <1>2 DEF Receive
    <2>2. tv'.state = "AUTHENTICATED" /\ tv'.cred = call[k].d /\ tv'.waits = NoOne  BY <2>1
    <2>3. PICK d \in Devices : d = call[k].d /\ Known(d)  BY <1>0, <1>2 DEF Honest, Known
    <2>4. CallsHonest'  BY <1>1, <2>2, NotWaitingHonest
    <2>5. /\ media' \in [pc : {"idle", "sent", "refused"}, d : Devices \cup {NoOne}, current : BOOLEAN]
          /\ media'.current = FALSE
      BY <1>0, <2>1 DEF MediaHonest
    <2>6. MediaHonest'  BY <2>5 DEF MediaHonest
    <2>7. d # NoOne  BY TvAssumption
    <2>8. CredentialKnown'
      BY <1>0, <2>2, <2>3, <2>7 DEF Known, CredentialKnown
    <2>9. RevokedIsGenuine'  BY <2>2 DEF RevokedIsGenuine
    <2>. QED  BY <2>4, <2>6, <2>8, <2>9 DEF Standing
  <1>3. CASE call[k].answer # "token"
    <2>1. /\ UNCHANGED media
          /\ \/ call[k].code = NoOne /\ tv' = [tv EXCEPT !.state = Refused(call[k].answer), !.waits = NoOne]
             \/ \E code \in {NoOne, tv.code} : tv' = [tv EXCEPT !.waits = NoOne, !.code = code]
      BY <1>3 DEF Receive
    <2>2. /\ tv'.cred = tv.cred /\ tv'.access = tv.access /\ tv'.waits = NoOne
          /\ \/ tv'.state = tv.state
             \/ call[k].code = NoOne /\ tv'.state = Refused(call[k].answer)
      BY <1>0, <2>1 DEF Televisions
    <2>3. CallsHonest' /\ MediaHonest' /\ CredentialKnown'
      BY <1>1, <2>1, <2>2, NotWaitingHonest, MediaKept, CredentialKept
    <2>4. RevokedIsGenuine'
      <3>1. CASE call[k].code = NoOne /\ call[k].answer = "invalid_grant"
        <4>1. ~DeviceValid(tv.cred)  BY <1>0, <3>1 DEF Honest
        <4>. QED  BY <1>0, <2>2, <4>1 DEF RevokedIsGenuine, DeviceValid, AccountIs
      <3>2. CASE ~(call[k].code = NoOne /\ call[k].answer = "invalid_grant")
        <4>1. tv'.state = "REVOKED" => tv.state = "REVOKED"
          BY <2>2, <3>2 DEF Refused
        <4>. QED  BY <2>2, <4>1, GenuineKept
      <3>. QED  BY <3>1, <3>2
    <2>. QED  BY <2>3, <2>4 DEF Standing
  <1>. QED  BY <1>2, <1>3

(* A lost answer and a restart prove nothing, and nothing is concluded.    *)
LEMMA LosingKeepsStanding ==
    ASSUME Stepping, (\E k \in Calls : TimeOut(k)) \/ Restart
    PROVE  Standing'
  <1>0. tv \in Televisions /\ call \in [Calls -> TokenRequests] /\ MediaHonest
    BY DEF Stepping, TelevisionInv, TvInv, TvTypeOK
  <1>1. ASSUME NEW k \in Calls, TimeOut(k) PROVE Standing'
    <2>0. Refused("error") = "REVOKED" => tv.state = "REVOKED"  BY DEF Refused
    <2>1. PICK state \in {Refused("error"), tv.state} : tv' = [tv EXCEPT !.waits = NoOne, !.state = state]
      BY <1>1 DEF TimeOut
    <2>2. /\ tv'.cred = tv.cred /\ tv'.access = tv.access /\ tv'.waits = NoOne
          /\ tv'.state = "REVOKED" => tv.state = "REVOKED"
      BY <1>0, <2>0, <2>1 DEF Televisions
    <2>3. UNCHANGED media /\ \A j \in Calls : call'[j] = call[j] \/ call'[j] = IdleCall
      BY <1>0, <1>1 DEF TimeOut
    <2>. QED  BY <2>2, <2>3, NotWaitingHonest, MediaKept, CredentialKept, GenuineKept DEF Standing
  <1>2. CASE Restart
    <2>1. /\ tv' = [Unpaired EXCEPT !.cred = tv.cred, !.state = IF tv.cred = NoOne THEN "UNPAIRED" ELSE "CONNECTING"]
          /\ media' = [pc |-> "idle", d |-> NoOne, current |-> FALSE]
          /\ call' = [k \in Calls |-> IF call[k].pc = "answered" THEN IdleCall ELSE call[k]]
      BY <1>2 DEF Restart
    <2>2. tv'.cred = tv.cred /\ tv'.access = FALSE /\ tv'.waits = NoOne /\ tv'.state # "REVOKED"
      BY <2>1 DEF Unpaired
    <2>3. \A j \in Calls : call'[j] = call[j] \/ call'[j] = IdleCall
      BY <1>0, <2>1
    <2>4. MediaHonest'  BY <2>1 DEF MediaHonest
    <2>. QED  BY <2>2, <2>3, <2>4, NotWaitingHonest, CredentialKept, GenuineKept DEF Standing
  <1>. QED  BY <1>1, <1>2

(* A request with the access token is refused for the device it was sent   *)
(* for, which is the credential's own while the token sent is in use.      *)
LEMMA MediaKeepsStanding ==
    ASSUME Stepping, MediaRequest \/ AuthenticateTVDevice \/ PairingRevoked
    PROVE  Standing'
  <1>0. /\ tv \in Televisions /\ CredentialKnown /\ MediaHonest /\ CallsHonest
        /\ UNCHANGED <<account, device, call>>
    BY DEF MediaRequest, AuthenticateTVDevice, PairingRevoked, Stepping, TelevisionInv, TvInv, TvTypeOK
  <1>1. CASE MediaRequest \/ AuthenticateTVDevice
    <2>1. UNCHANGED tv  BY <1>1 DEF MediaRequest, AuthenticateTVDevice
    <2>2. CallsHonest'  BY <1>0, <2>1, HonestKept DEF CallsHonest
    <2>3. CredentialKnown' /\ RevokedIsGenuine'  BY <2>1, CredentialKept, GenuineKept
    <2>4. MediaHonest'
      <3>1. CASE MediaRequest
        <4>1. /\ tv.access /\ media' = [pc |-> "sent", d |-> tv.cred, current |-> TRUE]
          BY <3>1 DEF MediaRequest
        <4>2. tv.cred \in Devices  BY <1>0, <4>1 DEF CredentialKnown, Known
        <4>. QED  BY <2>1, <4>1, <4>2 DEF MediaHonest
      <3>2. CASE AuthenticateTVDevice
        <4>1. \/ media' = [pc |-> "idle", d |-> NoOne, current |-> FALSE]
              \/ ~DeviceValid(media.d) /\ media.pc = "sent" /\ media' = [media EXCEPT !.pc = "refused"]
          BY <3>2 DEF AuthenticateTVDevice
        <4>2. CASE media' = [pc |-> "idle", d |-> NoOne, current |-> FALSE]
          BY <4>2 DEF MediaHonest
        <4>3. CASE ~DeviceValid(media.d) /\ media.pc = "sent" /\ media' = [media EXCEPT !.pc = "refused"]
          <5>1. /\ media' \in [pc : {"idle", "sent", "refused"}, d : Devices \cup {NoOne}, current : BOOLEAN]
                /\ media'.d = media.d /\ media'.current = media.current
            BY <1>0, <4>3 DEF MediaHonest
          <5>2. media.current => /\ media.d = tv.cred /\ tv.cred \in Devices
                                 /\ ~DeviceValid(tv.cred)'
            BY <1>0, <2>1, <4>3 DEF MediaHonest, DeviceValid, AccountIs
          <5>. QED  BY <2>1, <5>1, <5>2 DEF MediaHonest
        <4>. QED  BY <4>1, <4>2, <4>3
      <3>. QED  BY <1>1, <3>1, <3>2
    <2>. QED  BY <2>2, <2>3, <2>4 DEF Standing
  <1>2. CASE PairingRevoked
    <2>1. /\ media.pc = "refused" /\ tv' = IF media.current THEN [tv EXCEPT !.state = "REVOKED"] ELSE tv
          /\ media' = [pc |-> "idle", d |-> NoOne, current |-> FALSE]
      BY <1>2 DEF PairingRevoked
    <2>2. /\ tv'.cred = tv.cred /\ tv'.access = tv.access /\ tv'.waits = tv.waits
          /\ tv'.state = tv.state \/ media.current
      BY <1>0, <2>1 DEF Televisions
    <2>3. MediaHonest'  BY <2>1 DEF MediaHonest
    <2>4. CallsHonest'  BY <1>0, <2>2, HonestKept DEF CallsHonest
    <2>5. RevokedIsGenuine'
      <3>1. CASE media.current
        <4>1. ~DeviceValid(tv.cred)  BY <1>0, <2>1, <3>1 DEF MediaHonest
        <4>. QED  BY <1>0, <2>2, <4>1 DEF RevokedIsGenuine, DeviceValid, AccountIs
      <3>2. CASE ~media.current  BY <2>2, <3>2, GenuineKept
      <3>. QED  BY <3>1, <3>2
    <2>6. CredentialKnown'  BY <2>2, CredentialKept
    <2>. QED  BY <2>3, <2>4, <2>5, <2>6 DEF Standing
  <1>. QED  BY <1>1, <1>2

LEMMA LogoutKeepsStanding ==
    ASSUME Stepping, Logout
    PROVE  Standing'
  <1>1. /\ UNCHANGED call /\ tv' \in {Unpaired, tv} /\ tv.waits = NoOne
        /\ media' = [media EXCEPT !.current = @ /\ tv' = tv]
        /\ tv \in Televisions /\ MediaHonest /\ CredentialKnown
    BY DEF Logout, Stepping, TelevisionInv, TvInv, TvTypeOK
  <1>2. tv'.waits = NoOne  BY <1>1 DEF Unpaired
  <1>3. CallsHonest'  BY <1>1, <1>2, NotWaitingHonest
  <1>4. CASE tv' = tv
    <2>1. media' = media
      <3>1. PICK c \in BOOLEAN : c = media.current  BY <1>1 DEF MediaHonest
      <3>2. (media.current /\ tv' = tv) = media.current  BY <1>4, <3>1
      <3>3. media' = [media EXCEPT !.current = media.current]  BY <1>1, <3>2
      <3>. QED  BY <1>1, <3>3 DEF MediaHonest
    <2>. QED  BY <1>3, <1>4, <2>1, MediaKept, CredentialKept, GenuineKept DEF Standing
  <1>5. CASE tv' = Unpaired /\ tv' # tv
    <2>1. tv'.cred = NoOne /\ tv'.access = FALSE /\ tv'.state = "UNPAIRED"  BY <1>5 DEF Unpaired
    <2>2. /\ media' \in [pc : {"idle", "sent", "refused"}, d : Devices \cup {NoOne}, current : BOOLEAN]
          /\ media'.current = FALSE
      <3>1. media' = [media EXCEPT !.current = FALSE]  BY <1>1, <1>5
      <3>. QED  BY <1>1, <3>1 DEF MediaHonest
    <2>3. MediaHonest'  BY <2>2 DEF MediaHonest
    <2>. QED  BY <1>3, <2>1, <2>3 DEF Standing, CredentialKnown, RevokedIsGenuine
  <1>. QED  BY <1>1, <1>4, <1>5

-----------------------------------------------------------------------------
LEMMA TelevisionInitInv == TvInit => TelevisionInv
  <1>. SUFFICES ASSUME TvInit PROVE TelevisionInv
    OBVIOUS
  <1>1. ApprovalsReached  BY DEF TvInit, ApprovalsReached, Free, NoDevice
  <1>2. CallsHonest  BY DEF TvInit, CallsHonest, Honest, IdleCall
  <1>3. MediaHonest  BY DEF TvInit, MediaHonest
  <1>4. CredentialKnown /\ RevokedIsGenuine  BY DEF TvInit, Unpaired, CredentialKnown, RevokedIsGenuine
  <1>. QED  BY <1>1, <1>2, <1>3, <1>4, TvInitInv DEF TelevisionInv

LEMMA TelevisionStepInv == TelevisionInv /\ [TvNext]_tvars => TelevisionInv'
  <1>. SUFFICES ASSUME TelevisionInv, [TvNext]_tvars PROVE TelevisionInv'
    OBVIOUS
  <1>1. TvInv'  BY TvStepInv DEF TelevisionInv
  <1>2. StandingKept  BY StepKeepsStanding DEF TelevisionInv
  <1>3. ApprovalsReached'
    BY <1>1, <1>2, ApprovalsStayReached DEF TelevisionInv, TvInv
  <1>4. Stepping  BY <1>1, <1>2 DEF Stepping, TvInv
  <1>5. ASSUME Environment \/ Browser PROVE Standing'
    BY <1>4, <1>5, AccountsAndBrowsersKeepStanding
  <1>6. ASSUME NEW k \in Calls, Server(k) PROVE Standing'
    BY <1>4, <1>6, ExchangeKeepsStanding, IssueKeepsStanding DEF Server
  <1>7. ASSUME Television PROVE Standing'
    BY <1>4, <1>7, AskingKeepsStanding, ReceiveKeepsStanding, LosingKeepsStanding, MediaKeepsStanding,
       LogoutKeepsStanding DEF Television
  <1>8. ASSUME UNCHANGED tvars PROVE Standing'
    BY <1>4, <1>8, OthersKeepStanding DEF tvars
  <1>9. Standing'  BY <1>5, <1>6, <1>7, <1>8 DEF TvNext
  <1>. QED  BY <1>1, <1>3, <1>9 DEF TelevisionInv, Standing

-----------------------------------------------------------------------------
(* What a television, its token requests and its media requests say of the *)
(* credential is true of tv_device and of the account, in every reachable  *)
(* state.                                                                  *)
THEOREM TelevisionSafety == TvSpec => []TelevisionInv
  <1>. QED  BY TelevisionInitInv, TelevisionStepInv, PTL DEF TvSpec

(* A television that says its pairing was revoked is right: V2TVToken and  *)
(* authenticateTVDevice refuse for good, and no lost answer, restart,      *)
(* second pairing or request with an older token is taken for a refusal.   *)
THEOREM RevokedForAReason == TvSpec => []RevokedIsGenuine
  <1>1. TelevisionInv => RevokedIsGenuine  BY DEF TelevisionInv
  <1>. QED  BY <1>1, TelevisionSafety, PTL

=============================================================================
