---------------------------- MODULE ViewingProofs ----------------------------
(***************************************************************************)
(* Who may watch, and what a viewer is given: accounts and the credentials *)
(* that carry their sign-ins (Accounts), the hub that feeds a response     *)
(* (ClientHub), and the programme guide (GuideImport).                     *)
(*                                                                         *)
(* An enabled administrator remains, and a session that is honoured was    *)
(* opened with the password of now: for any number of accounts, rows and   *)
(* handlers in flight.                                                     *)
(*                                                                         *)
(* SignInsCurrent is not inductive.  It rests on what every row and every  *)
(* sign-in carries: the version of the account as it was read, never a     *)
(* later one, and with the same version the same password (Carries).  That *)
(* factors are spent once and that no session revives is proved behind it, *)
(* from AccessInv, then the hub, from HubInv, and the guide, from          *)
(* GuideInv.                                                               *)
(***************************************************************************)
EXTENDS Accounts, ClientHub, GuideImport, FilteringProofs, FiniteSetTheorems, SequenceTheorems, TLAPS

AccountRows == [role : {"new", "admin", "viewer", "gone"}, disabled : BOOLEAN, version : Nat,
                temp : BOOLEAN, pass : Nat, grant : BOOLEAN, mfa : {"never", "on", "off"},
                counter : Nat, recovery : BOOLEAN]
CredRows == [kind : Kinds \cup {None}, owner : Users \cup {None},
             state : {"free", "live", "revoked", "deleted"}, version : Nat, pass : Nat,
             ch : Challenges \cup {None}, code : Nat]
ChallengeRows == [state : {"free", "open", "consumed", "deleted"}, owner : Users \cup {None},
                  version : Nat, pass : Nat, failures : Nat]
SigningIn == {"login", "verify", "proved", "consumed", "trusting"}
Changing == {"running", "changing", "deleting"}
Statements == Kinds \cup {"disconnect", "counter", "recovery", "reload", "session"}
RequestRows == [pc : SigningIn \cup Changing \cup {"idle", "revoked"}, u : Users \cup {None},
                row : AccountRows, kind : Kinds \cup Creds \cup {None}, ch : Challenges \cup {None},
                code : Nat, pass : Nat, todo : Seq(Statements)]

AccountsTypeOK ==
    /\ user \in [Users -> AccountRows]
    /\ cred \in [Creds -> CredRows]
    /\ challenge \in [Challenges -> ChallengeRows]
    /\ request \in [Requests -> RequestRows]
    /\ scenario \in Scenarios

\* What was issued for account u at version v on the proof of password p, in
\* the accounts as table holds them.
Carries(table, u, v, p) ==
    /\ table[u].role # "new"
    /\ table[u].role \in {"admin", "viewer"} =>
          /\ v <= table[u].version
          /\ v = table[u].version => p = table[u].pass

CredsCarry ==
    \A c \in Creds : cred[c].pass > 0 =>
        /\ cred[c].kind \in {"browser", "mobile", "trusted"} /\ cred[c].owner \in Users
        /\ Carries(user, cred[c].owner, cred[c].version, cred[c].pass)

ChallengesCarry ==
    \A h \in Challenges : challenge[h].state = "open" =>
        /\ challenge[h].owner \in Users
        /\ Carries(user, challenge[h].owner, challenge[h].version, challenge[h].pass)

RequestsCarry ==
    \A r \in Requests :
        /\ request[r].pc \in SigningIn \cup Changing => request[r].u \in Users
        /\ request[r].pc \in SigningIn =>
              /\ request[r].kind \in {"browser", "mobile"}
              /\ Carries(user, request[r].u, request[r].row.version, request[r].pass)

AccountsInv == AccountsTypeOK /\ AdminRemains /\ CredsCarry /\ ChallengesCarry /\ RequestsCarry

-----------------------------------------------------------------------------
(* What every step does to the rows: an account that is or was there is not *)
(* made again, its version never falls, and its password changes with it.  *)
Onward ==
    \A u \in Users : user[u].role # "new" =>
        /\ user'[u].role # "new"
        /\ user'[u].role \in {"admin", "viewer"} =>
              /\ user[u].role \in {"admin", "viewer"}
              /\ user[u].version <= user'[u].version
              /\ user'[u].version = user[u].version => user'[u].pass = user[u].pass

CredKept(c) ==
    /\ cred'[c].kind = cred[c].kind /\ cred'[c].owner = cred[c].owner
    /\ cred'[c].version = cred[c].version /\ cred'[c].pass = cred[c].pass

ChallengeKept(h) ==
    challenge'[h].state = "open" =>
        /\ challenge[h].state = "open" /\ challenge'[h].owner = challenge[h].owner
        /\ challenge'[h].version = challenge[h].version /\ challenge'[h].pass = challenge[h].pass

RequestOn(r) ==
    \/ request'[r].pc \in {"idle", "revoked"}
    \/ request'[r].pc \in Changing /\ request'[r].u \in Users
    \/ /\ request'[r].pc \in SigningIn /\ request[r].pc \in SigningIn
       /\ request'[r].u = request[r].u /\ request'[r].row = request[r].row
       /\ request'[r].pass = request[r].pass /\ request'[r].kind = request[r].kind

LEMMA CarriesOn ==
    ASSUME AccountsTypeOK, AccountsTypeOK', Onward
    PROVE  \A u \in Users, v, p \in Nat : Carries(user, u, v, p) => Carries(user', u, v, p)
  <1>. SUFFICES ASSUME NEW u \in Users, NEW v \in Nat, NEW p \in Nat, Carries(user, u, v, p)
                PROVE  Carries(user', u, v, p)
    OBVIOUS
  <1>1. user[u].version \in Nat /\ user'[u].version \in Nat
    BY DEF AccountsTypeOK, AccountRows
  <1>. QED  BY <1>1 DEF Onward, Carries

LEMMA OnwardKept == ASSUME AccountsTypeOK, UNCHANGED user PROVE Onward
  BY DEF Onward, AccountsTypeOK, AccountRows

LEMMA CredsOn ==
    ASSUME AccountsTypeOK, AccountsTypeOK', CredsCarry, Onward, \A c \in Creds : CredKept(c)
    PROVE  CredsCarry'
  <1>. SUFFICES ASSUME NEW c \in Creds, cred'[c].pass > 0
                PROVE  /\ cred'[c].kind \in {"browser", "mobile", "trusted"} /\ cred'[c].owner \in Users
                       /\ Carries(user', cred'[c].owner, cred'[c].version, cred'[c].pass)
    BY DEF CredsCarry
  <1>1. cred[c].version \in Nat /\ cred[c].pass \in Nat  BY DEF AccountsTypeOK, CredRows
  <1>2. /\ cred[c].kind \in {"browser", "mobile", "trusted"} /\ cred[c].owner \in Users
        /\ Carries(user, cred[c].owner, cred[c].version, cred[c].pass)
    BY DEF CredsCarry, CredKept
  <1>. QED  BY <1>1, <1>2, CarriesOn DEF CredKept

LEMMA ChallengesOn ==
    ASSUME AccountsTypeOK, AccountsTypeOK', ChallengesCarry, Onward, \A h \in Challenges : ChallengeKept(h)
    PROVE  ChallengesCarry'
  <1>. SUFFICES ASSUME NEW h \in Challenges, challenge'[h].state = "open"
                PROVE  /\ challenge'[h].owner \in Users
                       /\ Carries(user', challenge'[h].owner, challenge'[h].version, challenge'[h].pass)
    BY DEF ChallengesCarry
  <1>1. challenge[h].version \in Nat /\ challenge[h].pass \in Nat  BY DEF AccountsTypeOK, ChallengeRows
  <1>2. /\ challenge[h].owner \in Users
        /\ Carries(user, challenge[h].owner, challenge[h].version, challenge[h].pass)
    BY DEF ChallengesCarry, ChallengeKept
  <1>. QED  BY <1>1, <1>2, CarriesOn DEF ChallengeKept

LEMMA RequestsOn ==
    ASSUME AccountsTypeOK, AccountsTypeOK', RequestsCarry, Onward, \A r \in Requests : RequestOn(r)
    PROVE  RequestsCarry'
  <1>. SUFFICES ASSUME NEW r \in Requests
                PROVE  /\ request'[r].pc \in SigningIn \cup Changing => request'[r].u \in Users
                       /\ request'[r].pc \in SigningIn =>
                             /\ request'[r].kind \in {"browser", "mobile"}
                             /\ Carries(user', request'[r].u, request'[r].row.version, request'[r].pass)
    BY DEF RequestsCarry
  <1>1. request[r].row.version \in Nat /\ request[r].pass \in Nat
    BY DEF AccountsTypeOK, RequestRows, AccountRows
  <1>2. request[r].pc \in SigningIn =>
           /\ request[r].u \in Users /\ request[r].kind \in {"browser", "mobile"}
           /\ Carries(user, request[r].u, request[r].row.version, request[r].pass)
    BY DEF RequestsCarry
  <1>. QED  BY <1>1, <1>2, CarriesOn DEF RequestOn, SigningIn, Changing

(* Steps that leave every administrator one.                               *)
LEMMA AdminsKept ==
    ASSUME AdminRemains,
           \A u \in Users : user'[u].role = user[u].role /\ user'[u].disabled = user[u].disabled
    PROVE  AdminRemains'
  BY DEF AdminRemains, EnabledAdmins

LEMMA AnotherAdmin ==
    ASSUME NEW u \in Users, Cardinality(EnabledAdmins(user)) > 1
    PROVE  \E x \in EnabledAdmins(user) : x # u
  <1>1. IsFiniteSet(EnabledAdmins(user))
    BY AccountsAssumption, FS_Subset DEF EnabledAdmins
  <1>2. IsFiniteSet({u}) /\ Cardinality({u}) = 1  BY FS_Singleton
  <1>. SUFFICES ASSUME EnabledAdmins(user) \subseteq {u} PROVE FALSE
    OBVIOUS
  <1>3. Cardinality(EnabledAdmins(user)) <= 1  BY <1>2, FS_Subset
  <1>4. Cardinality(EnabledAdmins(user)) \in Nat  BY <1>1, FS_CardinalityType
  <1>. QED  BY <1>3, <1>4

LEMMA StepKeeps ==
    ASSUME AccountsInv, AccountsTypeOK', Onward, AdminRemains', CredsCarry',
           \A h \in Challenges : ChallengeKept(h), \A r \in Requests : RequestOn(r)
    PROVE  AccountsInv'
  BY ChallengesOn, RequestsOn DEF AccountsInv

(* Steps that leave the accounts alone.                                    *)
LEMMA OtherRows ==
    ASSUME AccountsInv, AccountsTypeOK', UNCHANGED user, \A c \in Creds : CredKept(c),
           \A h \in Challenges : ChallengeKept(h), \A r \in Requests : RequestOn(r)
    PROVE  AccountsInv'
  <1>1. AdminRemains'  BY DEF AccountsInv, AdminRemains, EnabledAdmins
  <1>2. Onward  BY OnwardKept DEF AccountsInv
  <1>. QED  BY <1>1, <1>2, CredsOn, StepKeeps DEF AccountsInv

LEMMA FreeTyped ==
    /\ FreeUser \in AccountRows /\ FreeCred \in CredRows /\ FreeChallenge \in ChallengeRows
    /\ IdleRequest \in RequestRows /\ IdleRequest.pc = "idle" /\ NoCode \in Nat
  <1>1. NoCode \in Nat  BY AccountsAssumption DEF NoCode
  <1>2. FreeUser \in AccountRows  BY DEF FreeUser, AccountRows
  <1>3. FreeCred \in CredRows  BY <1>1 DEF FreeCred, CredRows
  <1>4. FreeChallenge \in ChallengeRows  BY DEF FreeChallenge, ChallengeRows
  <1>5. <<>> \in Seq(Statements)  OBVIOUS
  <1>6. IdleRequest \in RequestRows  BY <1>1, <1>2, <1>5 DEF IdleRequest, RequestRows
  <1>7. IdleRequest.pc = "idle"  BY DEF IdleRequest
  <1>. QED  BY <1>1, <1>2, <1>3, <1>4, <1>6, <1>7

LEMMA NothingMoved ==
    ASSUME AccountsInv
    PROVE  /\ UNCHANGED cred => \A c \in Creds : CredKept(c)
           /\ UNCHANGED challenge => \A h \in Challenges : ChallengeKept(h)
           /\ UNCHANGED request => \A r \in Requests : RequestOn(r)
  <1>1. UNCHANGED cred => \A c \in Creds : CredKept(c)  BY DEF CredKept
  <1>2. UNCHANGED challenge => \A h \in Challenges : ChallengeKept(h)  BY DEF ChallengeKept
  <1>3. ASSUME UNCHANGED request, NEW r \in Requests PROVE RequestOn(r)
    BY <1>3 DEF AccountsInv, AccountsTypeOK, RequestRows, RequestsCarry, RequestOn
  <1>. QED  BY <1>1, <1>2, <1>3

(* One request begins, goes on or ends.                                    *)
LEMMA OneRequest ==
    ASSUME AccountsInv, NEW r \in Requests, NEW q \in RequestRows,
           request' = [request EXCEPT ![r] = q],
           \/ q.pc \in {"idle", "revoked"}
           \/ q.pc \in Changing /\ q.u \in Users
           \/ /\ q.pc \in SigningIn /\ request[r].pc \in SigningIn
              /\ q.u = request[r].u /\ q.row = request[r].row
              /\ q.pass = request[r].pass /\ q.kind = request[r].kind
    PROVE  request' \in [Requests -> RequestRows] /\ \A x \in Requests : RequestOn(x)
  <1>1. request \in [Requests -> RequestRows]  BY DEF AccountsInv, AccountsTypeOK
  <1>2. request' \in [Requests -> RequestRows]  BY <1>1
  <1>3. RequestOn(r)  BY <1>1 DEF RequestOn
  <1>4. ASSUME NEW x \in Requests, x # r PROVE RequestOn(x)
    <2>1. request'[x] = request[x]  BY <1>1, <1>4
    <2>2. request[x].pc \in SigningIn \cup Changing \cup {"idle", "revoked"}  BY <1>1 DEF RequestRows
    <2>. QED  BY <1>4, <2>1, <2>2 DEF RequestOn, AccountsInv, RequestsCarry
  <1>. QED  BY <1>2, <1>3, <1>4

LEMMA Finished ==
    ASSUME AccountsInv, NEW r \in Requests, Finish(r)
    PROVE  request' \in [Requests -> RequestRows] /\ \A x \in Requests : RequestOn(x)
  BY OneRequest, FreeTyped DEF Finish

(* A handler goes on with its list.                                        *)
LEMMA GoesOn ==
    ASSUME AccountsInv, NEW r \in Requests, NEW u \in Users, NEW code \in Nat, NEW todo \in Seq(Statements),
           ThenRun(r, u, 0, code, todo)
    PROVE  request' \in [Requests -> RequestRows] /\ \A x \in Requests : RequestOn(x)
  <1>1. PICK q : q = [IdleRequest EXCEPT !.pc = "running", !.u = u, !.pass = 0, !.code = code, !.todo = todo]
    OBVIOUS
  <1>2. q \in RequestRows  BY <1>1, FreeTyped DEF RequestRows, Changing
  <1>3. q.pc = "running" /\ q.u = u  BY <1>1 DEF IdleRequest
  <1>4. request' = [request EXCEPT ![r] = q]  BY <1>1 DEF ThenRun
  <1>. QED  BY <1>2, <1>3, <1>4, OneRequest DEF Changing

LEMMA ListsTyped ==
    /\ Everything \in Seq(Statements) /\ Everything \o <<"reload", "session">> \in Seq(Statements)
    /\ <<"browser", "mobile", "trusted", "disconnect">> \in Seq(Statements)
    /\ <<"browser", "mobile", "trusted", "disconnect", "reload", "session">> \in Seq(Statements)
    /\ <<"counter", "recovery", "browser", "mobile", "trusted", "reload", "session">> \in Seq(Statements)
  <1>. {"browser", "mobile", "trusted", "key", "disconnect", "counter", "recovery", "reload", "session"}
         \subseteq Statements
    BY DEF Statements, Kinds
  <1>1. Everything \in Seq(Statements)  BY DEF Everything
  <1>2. <<"reload", "session">> \in Seq(Statements)  OBVIOUS
  <1>3. Everything \o <<"reload", "session">> \in Seq(Statements)  BY <1>1, <1>2, ConcatProperties
  <1>4. <<"browser", "mobile", "trusted", "disconnect">> \in Seq(Statements)  OBVIOUS
  <1>5. <<"browser", "mobile", "trusted", "disconnect", "reload", "session">> \in Seq(Statements)  OBVIOUS
  <1>6. <<"counter", "recovery", "browser", "mobile", "trusted", "reload", "session">> \in Seq(Statements)  OBVIOUS
  <1>. QED  BY <1>1, <1>3, <1>4, <1>5, <1>6

(* A handler goes on with the rest of its list.                            *)
LEMMA RestOn ==
    ASSUME AccountsInv, NEW r \in Requests, request[r].pc = "running", request[r].todo # <<>>, request' = Rest(r)
    PROVE  request' \in [Requests -> RequestRows] /\ \A x \in Requests : RequestOn(x)
  <1>1. request[r] \in RequestRows /\ request[r].u \in Users
    BY DEF AccountsInv, AccountsTypeOK, RequestsCarry, Changing
  <1>2. Tail(request[r].todo) \in Seq(Statements)  BY <1>1, HeadTailProperties DEF RequestRows
  <1>3. PICK q : q = [request[r] EXCEPT !.todo = Tail(@)]  OBVIOUS
  <1>4. q \in RequestRows  BY <1>1, <1>2, <1>3 DEF RequestRows
  <1>5. q.pc = "running" /\ q.u = request[r].u  BY <1>1, <1>3 DEF RequestRows
  <1>6. request' = [request EXCEPT ![r] = q]  BY <1>3 DEF Rest
  <1>. QED  BY <1>1, <1>4, <1>5, <1>6, OneRequest DEF Changing

-----------------------------------------------------------------------------
(* One account's row is written.                                           *)
LEMMA OneRow ==
    ASSUME AccountsInv, NEW u \in Users, NEW row \in AccountRows, user' = [user EXCEPT ![u] = row],
           \/ user[u].role = "new"
           \/ /\ row.role # "new"
              /\ row.role \in {"admin", "viewer"} =>
                    /\ Exists(u) /\ user[u].version <= row.version
                    /\ row.version = user[u].version => row.pass = user[u].pass
    PROVE  user' \in [Users -> AccountRows] /\ Onward
  <1>1. user \in [Users -> AccountRows]  BY DEF AccountsInv, AccountsTypeOK
  <1>2. user' \in [Users -> AccountRows]  BY <1>1
  <1>3. ASSUME NEW x \in Users PROVE user[x].version <= user[x].version  BY <1>1 DEF AccountRows
  <1>. QED  BY <1>1, <1>2, <1>3 DEF Onward, Exists

LEMMA QuietRow ==
    ASSUME AccountsInv, NEW u \in Users, NEW row \in AccountRows, user' = [user EXCEPT ![u] = row],
           row.role = user[u].role, row.disabled = user[u].disabled, user[u].version <= row.version,
           row.version = user[u].version => row.pass = user[u].pass
    PROVE  user' \in [Users -> AccountRows] /\ Onward /\ AdminRemains'
  <1>1. user \in [Users -> AccountRows]  BY DEF AccountsInv, AccountsTypeOK
  <1>2. user' \in [Users -> AccountRows] /\ Onward  BY <1>1, OneRow DEF Exists, AccountRows
  <1>3. AdminRemains'  BY <1>1, AdminsKept DEF AccountsInv
  <1>. QED  BY <1>2, <1>3

LEMMA StampOn ==
    ASSUME AccountsInv, NEW u \in Users, UpdateUserIdentity(u)
    PROVE  user' \in [Users -> AccountRows] /\ Onward /\ AdminRemains'
  <1>1. user \in [Users -> AccountRows]  BY DEF AccountsInv, AccountsTypeOK
  <1>2. PICK row : row = [user[u] EXCEPT !.version = @ + 1]  OBVIOUS
  <1>3. row \in AccountRows  BY <1>1, <1>2 DEF AccountRows
  <1>4. /\ row.role = user[u].role /\ row.disabled = user[u].disabled
        /\ user[u].version <= row.version /\ row.version # user[u].version
    BY <1>1, <1>2 DEF AccountRows
  <1>5. user' = [user EXCEPT ![u] = row]  BY <1>1, <1>2 DEF UpdateUserIdentity
  <1>. QED  BY <1>3, <1>4, <1>5, QuietRow

LEMMA PasswordOn ==
    ASSUME AccountsInv, NEW u \in Users, NEW temp \in BOOLEAN, SetUserPassword(u, temp)
    PROVE  user' \in [Users -> AccountRows] /\ Onward /\ AdminRemains'
  <1>1. user \in [Users -> AccountRows]  BY DEF AccountsInv, AccountsTypeOK
  <1>2. PICK row : row = [user[u] EXCEPT !.version = @ + 1, !.pass = user[u].version + 1, !.temp = temp]
    OBVIOUS
  <1>3. row \in AccountRows
    <2>1. user[u] \in AccountRows /\ user[u].version + 1 \in Nat  BY <1>1 DEF AccountRows
    <2>2. [user[u] EXCEPT !.temp = temp] \in AccountRows  BY <2>1 DEF AccountRows
    <2>3. row = [[user[u] EXCEPT !.temp = temp] EXCEPT !.version = user[u].version + 1, !.pass = user[u].version + 1]
      BY <1>2, <2>1 DEF AccountRows
    <2>. QED  BY <2>1, <2>2, <2>3 DEF AccountRows
  <1>4. /\ row.role = user[u].role /\ row.disabled = user[u].disabled
        /\ user[u].version <= row.version /\ row.version # user[u].version
    BY <1>1, <1>2 DEF AccountRows
  <1>5. user' = [user EXCEPT ![u] = row]  BY <1>1, <1>2 DEF SetUserPassword
  <1>. QED  BY <1>3, <1>4, <1>5, QuietRow

(* The second factor of one account changes, and nothing else of it.       *)
LEMMA CounterOn ==
    ASSUME AccountsInv, NEW u \in Users, NEW n \in Nat,
           user' = [user EXCEPT ![u].counter = n]
    PROVE  user' \in [Users -> AccountRows] /\ Onward /\ AdminRemains'
  <1>1. user \in [Users -> AccountRows]  BY DEF AccountsInv, AccountsTypeOK
  <1>2. PICK row : row = [user[u] EXCEPT !.counter = n]  OBVIOUS
  <1>3. row \in AccountRows  BY <1>1, <1>2 DEF AccountRows
  <1>4. /\ row.role = user[u].role /\ row.disabled = user[u].disabled
        /\ user[u].version <= row.version /\ row.pass = user[u].pass
    BY <1>1, <1>2 DEF AccountRows
  <1>5. user' = [user EXCEPT ![u] = row]  BY <1>1, <1>2
  <1>. QED  BY <1>3, <1>4, <1>5, QuietRow

LEMMA RecoveryOn ==
    ASSUME AccountsInv, NEW u \in Users, NEW b \in BOOLEAN,
           user' = [user EXCEPT ![u].recovery = b]
    PROVE  user' \in [Users -> AccountRows] /\ Onward /\ AdminRemains'
  <1>1. user \in [Users -> AccountRows]  BY DEF AccountsInv, AccountsTypeOK
  <1>2. PICK row : row = [user[u] EXCEPT !.recovery = b]  OBVIOUS
  <1>3. row \in AccountRows  BY <1>1, <1>2 DEF AccountRows
  <1>4. /\ row.role = user[u].role /\ row.disabled = user[u].disabled
        /\ user[u].version <= row.version /\ row.pass = user[u].pass
    BY <1>1, <1>2 DEF AccountRows
  <1>5. user' = [user EXCEPT ![u] = row]  BY <1>1, <1>2
  <1>. QED  BY <1>3, <1>4, <1>5, QuietRow

LEMMA FactorOn ==
    ASSUME AccountsInv, NEW u \in Users,
           user' = [user EXCEPT ![u].mfa = "on", ![u].counter = 0]
    PROVE  user' \in [Users -> AccountRows] /\ Onward /\ AdminRemains'
  <1>1. user \in [Users -> AccountRows]  BY DEF AccountsInv, AccountsTypeOK
  <1>2. PICK row : row = [user[u] EXCEPT !.mfa = "on", !.counter = 0]  OBVIOUS
  <1>3. row \in AccountRows  BY <1>1, <1>2 DEF AccountRows
  <1>4. /\ row.role = user[u].role /\ row.disabled = user[u].disabled
        /\ user[u].version <= row.version /\ row.pass = user[u].pass
    BY <1>1, <1>2 DEF AccountRows
  <1>5. user' = [user EXCEPT ![u] = row]  BY <1>1, <1>2
  <1>. QED  BY <1>3, <1>4, <1>5, QuietRow

LEMMA FactorOff ==
    ASSUME AccountsInv, NEW u \in Users,
           user' = [user EXCEPT ![u].mfa = "off", ![u].recovery = FALSE]
    PROVE  user' \in [Users -> AccountRows] /\ Onward /\ AdminRemains'
  <1>1. user \in [Users -> AccountRows]  BY DEF AccountsInv, AccountsTypeOK
  <1>2. PICK row : row = [user[u] EXCEPT !.mfa = "off", !.recovery = FALSE]  OBVIOUS
  <1>3. row \in AccountRows  BY <1>1, <1>2 DEF AccountRows
  <1>4. /\ row.role = user[u].role /\ row.disabled = user[u].disabled
        /\ user[u].version <= row.version /\ row.pass = user[u].pass
    BY <1>1, <1>2 DEF AccountRows
  <1>5. user' = [user EXCEPT ![u] = row]  BY <1>1, <1>2
  <1>. QED  BY <1>3, <1>4, <1>5, QuietRow

LEMMA AccountsStill ==
    ASSUME AccountsInv, UNCHANGED user
    PROVE  user' \in [Users -> AccountRows] /\ Onward /\ AdminRemains'
  BY OnwardKept DEF AccountsInv, AccountsTypeOK, AdminRemains, EnabledAdmins

(* A row of a credential is made.                                          *)
LEMMA Inserted ==
    ASSUME AccountsInv, UNCHANGED user, NEW c \in Creds, NEW kind \in Kinds, NEW u \in Users,
           NEW version \in Nat, NEW pass \in Nat, NEW ch \in Challenges \cup {None}, NEW code \in Nat,
           InsertCred(c, kind, u, version, pass, ch, code),
           pass > 0 => kind # "key" /\ Carries(user, u, version, pass)
    PROVE  cred' \in [Creds -> CredRows] /\ CredsCarry'
  <1>1. cred \in [Creds -> CredRows]  BY DEF AccountsInv, AccountsTypeOK
  <1>2. PICK row : row = [kind |-> kind, owner |-> u, state |-> "live", version |-> version,
                          pass |-> pass, ch |-> ch, code |-> code]
    OBVIOUS
  <1>3. row \in CredRows  BY <1>2 DEF CredRows
  <1>4. cred' = [cred EXCEPT ![c] = row]  BY <1>2 DEF InsertCred
  <1>5. cred' \in [Creds -> CredRows]  BY <1>1, <1>3, <1>4
  <1>6. CredsCarry'
    <2>. SUFFICES ASSUME NEW d \in Creds, cred'[d].pass > 0
                  PROVE  /\ cred'[d].kind \in {"browser", "mobile", "trusted"} /\ cred'[d].owner \in Users
                         /\ Carries(user', cred'[d].owner, cred'[d].version, cred'[d].pass)
      BY DEF CredsCarry
    <2>1. CASE d = c
      <3>1. cred'[d] = row  BY <1>1, <1>4, <2>1
      <3>. QED  BY <1>2, <3>1 DEF Kinds
    <2>2. CASE d # c
      <3>1. cred'[d] = cred[d]  BY <1>1, <1>4, <2>2
      <3>. QED  BY <3>1 DEF AccountsInv, CredsCarry
    <2>. QED  BY <2>1, <2>2
  <1>. QED  BY <1>5, <1>6

(* The account's own change, or a media key: no password was proved.       *)
LEMMA OwnRow ==
    ASSUME AccountsInv, UNCHANGED user, NEW c \in Creds, NEW kind \in Kinds, NEW u \in Users,
           NEW version \in Nat, InsertCred(c, kind, u, version, 0, None, NoCode)
    PROVE  cred' \in [Creds -> CredRows] /\ CredsCarry'
  <1>1. 0 \in Nat /\ None \in Challenges \cup {None} /\ NoCode \in Nat /\ ~(0 > 0)  BY FreeTyped
  <1>2. PICK p \in Nat, ch \in Challenges \cup {None}, code \in Nat : p = 0 /\ ch = None /\ code = NoCode
    BY <1>1
  <1>3. InsertCred(c, kind, u, version, p, ch, code) /\ ~(p > 0)  BY <1>1, <1>2
  <1>. QED  BY <1>3, Inserted

-----------------------------------------------------------------------------
(* The tables a step leaves alone, and those it only revokes in.           *)
LEMMA TablesStill ==
    ASSUME AccountsInv
    PROVE  /\ UNCHANGED cred => cred' \in [Creds -> CredRows] /\ \A c \in Creds : CredKept(c)
           /\ UNCHANGED challenge =>
                 challenge' \in [Challenges -> ChallengeRows] /\ \A h \in Challenges : ChallengeKept(h)
           /\ UNCHANGED request => request' \in [Requests -> RequestRows] /\ \A r \in Requests : RequestOn(r)
  BY NothingMoved DEF AccountsInv, AccountsTypeOK

LEMMA Revoking ==
    ASSUME AccountsInv, \A c \in Creds : \E state \in {"revoked", "deleted"} :
              cred'[c] \in {cred[c], [cred[c] EXCEPT !.state = state]},
           cred' = [c \in Creds |-> cred'[c]]
    PROVE  cred' \in [Creds -> CredRows] /\ \A c \in Creds : CredKept(c)
  <1>1. cred \in [Creds -> CredRows]  BY DEF AccountsInv, AccountsTypeOK
  <1>2. ASSUME NEW c \in Creds PROVE cred'[c] \in CredRows /\ CredKept(c)
    BY <1>1 DEF CredRows, CredKept
  <1>. QED  BY <1>2

LEMMA RevokedOn ==
    ASSUME AccountsInv, NEW u, NEW kind, cred' = RevokeUser(cred, u, kind)
    PROVE  cred' \in [Creds -> CredRows] /\ \A c \in Creds : CredKept(c)
  BY Revoking DEF RevokeUser

LEMMA CascadeOn ==
    ASSUME AccountsInv, NEW u, cred' = Cascade(cred, u), challenge' = Cascade(challenge, u)
    PROVE  /\ cred' \in [Creds -> CredRows] /\ \A c \in Creds : CredKept(c)
           /\ challenge' \in [Challenges -> ChallengeRows] /\ \A h \in Challenges : ChallengeKept(h)
  <1>1. cred \in [Creds -> CredRows] /\ challenge \in [Challenges -> ChallengeRows]
    BY DEF AccountsInv, AccountsTypeOK
  <1>2. cred' \in [Creds -> CredRows] /\ \A c \in Creds : CredKept(c)
    BY <1>1, Revoking DEF Cascade
  <1>3. ASSUME NEW h \in Challenges PROVE challenge'[h] \in ChallengeRows /\ ChallengeKept(h)
    BY <1>1 DEF Cascade, ChallengeRows, ChallengeKept
  <1>4. challenge' = [h \in Challenges |-> challenge'[h]]  BY <1>1 DEF Cascade
  <1>. QED  BY <1>2, <1>3, <1>4

(* A step in which no row and no sign-in gains anything.                   *)
LEMMA NothingGained ==
    ASSUME AccountsInv, UNCHANGED scenario,
           user' \in [Users -> AccountRows] /\ Onward /\ AdminRemains',
           cred' \in [Creds -> CredRows] /\ \A c \in Creds : CredKept(c),
           challenge' \in [Challenges -> ChallengeRows] /\ \A h \in Challenges : ChallengeKept(h),
           request' \in [Requests -> RequestRows] /\ \A r \in Requests : RequestOn(r)
    PROVE  AccountsInv'
  <1>1. AccountsTypeOK'  BY DEF AccountsInv, AccountsTypeOK
  <1>. QED  BY <1>1, CredsOn, StepKeeps DEF AccountsInv

(* A sign-in reaches an account.                                           *)
LEMMA SignInBegins ==
    ASSUME AccountsInv, UNCHANGED <<user, cred, challenge, scenario>>, NEW r \in Requests, NEW q \in RequestRows,
           request' = [request EXCEPT ![r] = q], q.pc \in SigningIn, q.u \in Users,
           q.kind \in {"browser", "mobile"}, Carries(user, q.u, q.row.version, q.pass)
    PROVE  AccountsInv'
  <1>1. request \in [Requests -> RequestRows]  BY DEF AccountsInv, AccountsTypeOK
  <1>2. request' \in [Requests -> RequestRows]  BY <1>1
  <1>3. AccountsTypeOK'  BY <1>2 DEF AccountsInv, AccountsTypeOK
  <1>4. ASSUME NEW x \in Requests
        PROVE  /\ request'[x].pc \in SigningIn \cup Changing => request'[x].u \in Users
               /\ request'[x].pc \in SigningIn =>
                     /\ request'[x].kind \in {"browser", "mobile"}
                     /\ Carries(user', request'[x].u, request'[x].row.version, request'[x].pass)
    <2>1. CASE x = r  BY <1>1, <2>1
    <2>2. CASE x # r
      <3>1. request'[x] = request[x]  BY <1>1, <2>2
      <3>. QED  BY <3>1 DEF AccountsInv, RequestsCarry
    <2>. QED  BY <2>1, <2>2
  <1>5. RequestsCarry'  BY <1>4 DEF RequestsCarry
  <1>6. AdminRemains' /\ CredsCarry' /\ ChallengesCarry'
    BY DEF AccountsInv, AdminRemains, EnabledAdmins, CredsCarry, ChallengesCarry
  <1>. QED  BY <1>3, <1>5, <1>6 DEF AccountsInv

(* A credential is made for what a handler carries.                        *)
LEMMA RowMade ==
    ASSUME AccountsInv, UNCHANGED <<user, challenge, scenario>>,
           cred' \in [Creds -> CredRows] /\ CredsCarry',
           request' \in [Requests -> RequestRows] /\ \A r \in Requests : RequestOn(r)
    PROVE  AccountsInv'
  <1>1. AccountsTypeOK'  BY DEF AccountsInv, AccountsTypeOK
  <1>2. \A h \in Challenges : ChallengeKept(h)  BY NothingMoved
  <1>. QED  BY <1>1, <1>2, AccountsStill, StepKeeps

-----------------------------------------------------------------------------
(* Account rows.                                                           *)
LEMMA FirstAdmin ==
    ASSUME AccountsInv, NEW u \in Users, NEW role \in {"admin", "viewer"}, NEW grant \in BOOLEAN,
           user[u].role = "new", user' = [user EXCEPT ![u] = NewRow(role, grant)],
           role = "admin" \/ \E x \in Users : Exists(x), UNCHANGED <<cred, challenge, request, scenario>>
    PROVE  AccountsInv'
  <1>1. user \in [Users -> AccountRows] /\ scenario.temp \in BOOLEAN
    BY AccountsAssumption DEF AccountsInv, AccountsTypeOK
  <1>2. PICK g \in BOOLEAN, temp \in BOOLEAN : g = (grant /\ role = "viewer") /\ temp = scenario.temp
    BY <1>1
  <1>3. PICK row : row = [FreeUser EXCEPT !.role = role, !.temp = temp, !.grant = g]  OBVIOUS
  <1>4. NewRow(role, grant) = row  BY <1>2, <1>3 DEF NewRow
  <1>5. row \in AccountRows /\ row.role = role /\ row.disabled = FALSE
    <2>1. row = [role |-> role, disabled |-> FALSE, version |-> 1, temp |-> temp, pass |-> 1,
                 grant |-> g, mfa |-> "never", counter |-> 0, recovery |-> FALSE]
      BY <1>3 DEF FreeUser
    <2>. QED  BY <2>1 DEF AccountRows
  <1>6. user' \in [Users -> AccountRows] /\ Onward  BY <1>4, <1>5, OneRow
  <1>7. AdminRemains'
    <2>1. CASE role = "admin"
      <3>1. user'[u].role = "admin" /\ ~user'[u].disabled  BY <1>1, <1>4, <1>5, <2>1
      <3>. QED  BY <3>1 DEF AdminRemains, EnabledAdmins
    <2>2. CASE role # "admin"
      <3>1. PICK x \in EnabledAdmins(user) : TRUE  BY <2>2 DEF AccountsInv, AdminRemains, Exists
      <3>2. x \in Users /\ x # u /\ user'[x] = user[x]  BY <1>1, <3>1 DEF EnabledAdmins
      <3>3. x \in EnabledAdmins(user')  BY <3>1, <3>2 DEF EnabledAdmins
      <3>. QED  BY <3>3 DEF AdminRemains
    <2>. QED  BY <2>1, <2>2
  <1>. QED  BY <1>6, <1>7, TablesStill, NothingGained

LEMMA UpdatedOn ==
    ASSUME AccountsInv, NEW u \in Users, NEW role \in {"admin", "viewer"}, NEW disabled \in BOOLEAN,
           NEW grant \in BOOLEAN, Exists(u), UpdateUser(u, role, disabled, grant)
    PROVE  user' \in [Users -> AccountRows] /\ Onward /\ AdminRemains'
  <1>1. user \in [Users -> AccountRows]  BY DEF AccountsInv, AccountsTypeOK
  <1>2. PICK g \in BOOLEAN : g = (grant /\ role = "viewer")  OBVIOUS
  <1>3. PICK row : row = [user[u] EXCEPT !.role = role, !.disabled = disabled, !.grant = g, !.version = @ + 1]
    OBVIOUS
  <1>4. row \in AccountRows
    <2>1. user[u] \in AccountRows /\ user[u].version + 1 \in Nat  BY <1>1 DEF AccountRows
    <2>2. [user[u] EXCEPT !.role = role, !.disabled = disabled] \in AccountRows  BY <2>1 DEF AccountRows
    <2>3. [[user[u] EXCEPT !.role = role, !.disabled = disabled] EXCEPT !.grant = g] \in AccountRows
      BY <2>2 DEF AccountRows
    <2>4. row = [[[user[u] EXCEPT !.role = role, !.disabled = disabled] EXCEPT !.grant = g]
                    EXCEPT !.version = user[u].version + 1]
      BY <1>3, <2>1 DEF AccountRows
    <2>. QED  BY <2>1, <2>3, <2>4 DEF AccountRows
  <1>5. /\ row.role = role /\ row.disabled = disabled
        /\ user[u].version <= row.version /\ row.version # user[u].version
    BY <1>1, <1>3 DEF AccountRows
  <1>6. user' = [user EXCEPT ![u] = row]  BY <1>1, <1>2, <1>3, ZenonT(40) DEF UpdateUser, Written
  <1>7. user' \in [Users -> AccountRows] /\ Onward  BY <1>4, <1>5, <1>6, OneRow
  <1>8. AdminRemains'
    <2>1. CASE EndsAdmin(u, role, disabled)
      <3>1. PICK x \in EnabledAdmins(user) : x # u  BY <2>1, AnotherAdmin DEF UpdateUser
      <3>2. x \in EnabledAdmins(user')  BY <1>1, <1>6, <3>1 DEF EnabledAdmins
      <3>. QED  BY <3>2 DEF AdminRemains
    <2>2. CASE ~EndsAdmin(u, role, disabled)
      <3>1. PICK x \in EnabledAdmins(user) : TRUE  BY DEF AccountsInv, AdminRemains, Exists
      <3>2. CASE x # u
        <4>1. x \in EnabledAdmins(user')  BY <1>1, <1>6, <3>1, <3>2 DEF EnabledAdmins
        <4>. QED  BY <4>1 DEF AdminRemains
      <3>3. CASE x = u
        <4>1. role = "admin" /\ ~disabled  BY <2>2, <3>1, <3>3 DEF EndsAdmin, EnabledAdmins
        <4>2. x \in EnabledAdmins(user')  BY <1>1, <1>5, <1>6, <3>3, <4>1 DEF EnabledAdmins
        <4>. QED  BY <4>2 DEF AdminRemains
      <3>. QED  BY <3>2, <3>3
    <2>. QED  BY <2>1, <2>2
  <1>. QED  BY <1>7, <1>8

LEMMA DeletedOn ==
    ASSUME AccountsInv, NEW r \in Requests, DeleteUser(r)
    PROVE  AccountsInv'
  <1>1. request' \in [Requests -> RequestRows] /\ \A x \in Requests : RequestOn(x)
    BY Finished DEF DeleteUser
  <1>2. CASE UNCHANGED <<user, cred, challenge>>
    BY <1>1, <1>2, TablesStill, AccountsStill, NothingGained DEF DeleteUser
  <1>3. CASE ~UNCHANGED <<user, cred, challenge>>
    <2>1. PICK u \in Users : u = request[r].u
      BY DEF DeleteUser, AccountsInv, RequestsCarry, Changing
    <2>2. /\ Exists(u) /\ (u \in EnabledAdmins(user) => Cardinality(EnabledAdmins(user)) > 1)
          /\ user' = [user EXCEPT ![u] = [FreeUser EXCEPT !.role = "gone"]]
          /\ cred' = Cascade(cred, u) /\ challenge' = Cascade(challenge, u)
      BY <1>3, <2>1 DEF DeleteUser
    <2>3. user \in [Users -> AccountRows]  BY DEF AccountsInv, AccountsTypeOK
    <2>4. [FreeUser EXCEPT !.role = "gone"] \in AccountRows  BY FreeTyped DEF AccountRows
    <2>5. [FreeUser EXCEPT !.role = "gone"].role = "gone"  BY DEF FreeUser
    <2>6. user' \in [Users -> AccountRows] /\ Onward  BY <2>2, <2>4, <2>5, OneRow
    <2>7. \E x \in EnabledAdmins(user) : x # u
      <3>1. CASE u \in EnabledAdmins(user)  BY <2>2, <3>1, AnotherAdmin
      <3>2. CASE u \notin EnabledAdmins(user)
        BY <2>2, <3>2 DEF AccountsInv, AdminRemains, Exists
      <3>. QED  BY <3>1, <3>2
    <2>8. AdminRemains'
      <3>1. PICK x \in EnabledAdmins(user) : x # u  BY <2>7
      <3>2. x \in EnabledAdmins(user')  BY <2>2, <2>3, <3>1 DEF EnabledAdmins
      <3>. QED  BY <3>2 DEF AdminRemains
    <2>. QED  BY <1>1, <2>2, <2>6, <2>8, CascadeOn, NothingGained DEF DeleteUser
  <1>. QED  BY <1>2, <1>3

-----------------------------------------------------------------------------
(* The steps, in the order of Next.                                        *)
LEMMA AccountStepOn ==
    ASSUME AccountsInv, NEW r \in Requests, AccountStep(r)
    PROVE  AccountsInv'
  <1>1. ASSUME NEW u \in Users, NEW role \in {"admin", "viewer"}, NEW disabled \in BOOLEAN,
               NEW grant \in BOOLEAN, V2UpdateStudioUser(r, u, role, disabled, grant)
        PROVE  AccountsInv'
    <2>1. user' \in [Users -> AccountRows] /\ Onward /\ AdminRemains'
      BY <1>1, UpdatedOn DEF V2UpdateStudioUser
    <2>2. request' \in [Requests -> RequestRows] /\ \A x \in Requests : RequestOn(x)
      BY <1>1, GoesOn, ListsTyped, FreeTyped DEF V2UpdateStudioUser
    <2>. QED  BY <1>1, <2>1, <2>2, TablesStill, NothingGained DEF V2UpdateStudioUser
  <1>2. ASSUME NEW u \in Users, V2DeleteStudioUser(r, u) PROVE AccountsInv'
    <2>1. PICK q : q = [IdleRequest EXCEPT !.pc = "deleting", !.u = u]  OBVIOUS
    <2>2. q \in RequestRows  BY <2>1, FreeTyped DEF RequestRows, Changing
    <2>3. q.pc = "deleting" /\ q.u = u  BY <2>1 DEF IdleRequest
    <2>4. request' = [request EXCEPT ![r] = q]  BY <1>2, <2>1 DEF V2DeleteStudioUser
    <2>5. request' \in [Requests -> RequestRows] /\ \A x \in Requests : RequestOn(x)
      BY <2>2, <2>3, <2>4, OneRequest DEF Changing
    <2>. QED  BY <1>2, <2>5, TablesStill, AccountsStill, NothingGained DEF V2DeleteStudioUser
  <1>3. ASSUME NEW u \in Users, V2UpdateStudioUserProfile(r, u) \/ V2UpdateAccountProfile(r, u)
        PROVE  AccountsInv'
    <2>1. UpdateUserIdentity(u) /\ UNCHANGED <<cred, challenge, scenario>>
      BY <1>3 DEF V2UpdateStudioUserProfile, V2UpdateAccountProfile
    <2>2. request' \in [Requests -> RequestRows] /\ \A x \in Requests : RequestOn(x)
      BY <1>3, GoesOn, ListsTyped, FreeTyped DEF V2UpdateStudioUserProfile, V2UpdateAccountProfile
    <2>. QED  BY <2>1, <2>2, StampOn, TablesStill, NothingGained
  <1>4. ASSUME NEW u \in Users, V2ResetStudioUserPassword(r, u) PROVE AccountsInv'
    <2>1. request' \in [Requests -> RequestRows] /\ \A x \in Requests : RequestOn(x)
      BY <1>4, GoesOn, ListsTyped, FreeTyped DEF V2ResetStudioUserPassword
    <2>2. user' \in [Users -> AccountRows] /\ Onward /\ AdminRemains'
      BY <1>4, PasswordOn DEF V2ResetStudioUserPassword
    <2>. QED  BY <1>4, <2>1, <2>2, TablesStill, NothingGained DEF V2ResetStudioUserPassword
  <1>5. ASSUME NEW u \in Users, V2ChangePassword(r, u) PROVE AccountsInv'
    <2>1. PICK q : q = [IdleRequest EXCEPT !.pc = "changing", !.u = u]  OBVIOUS
    <2>2. q \in RequestRows  BY <2>1, FreeTyped DEF RequestRows, Changing
    <2>3. q.pc = "changing" /\ q.u = u  BY <2>1 DEF IdleRequest
    <2>4. request' = [request EXCEPT ![r] = q]  BY <1>5, <2>1 DEF V2ChangePassword
    <2>5. request' \in [Requests -> RequestRows] /\ \A x \in Requests : RequestOn(x)
      BY <2>2, <2>3, <2>4, OneRequest DEF Changing
    <2>6. user' \in [Users -> AccountRows] /\ Onward /\ AdminRemains'
      <3>1. CASE UNCHANGED user  BY <3>1, AccountsStill
      <3>2. CASE \E code \in (user[u].counter + 1) .. MaxCode : user' = [user EXCEPT ![u].counter = code]
        <4>1. PICK code \in (user[u].counter + 1) .. MaxCode : user' = [user EXCEPT ![u].counter = code]
          BY <3>2
        <4>2. user[u].counter \in Nat  BY DEF AccountsInv, AccountsTypeOK, AccountRows
        <4>3. code \in Nat  BY <4>1, <4>2, AccountsAssumption
        <4>. QED  BY <4>1, <4>3, CounterOn
      <3>3. CASE user' = [user EXCEPT ![u].recovery = FALSE]  BY <3>3, RecoveryOn
      <3>. QED  BY <1>5, <3>1, <3>2, <3>3 DEF V2ChangePassword, FactorSpent
    <2>. QED  BY <1>5, <2>5, <2>6, TablesStill, NothingGained DEF V2ChangePassword
  <1>6. ASSUME NEW u \in Users, V2MFAConfirm(r, u, 1) PROVE AccountsInv'
    <2>1. request' \in [Requests -> RequestRows] /\ \A x \in Requests : RequestOn(x)
      BY <1>6, GoesOn, ListsTyped DEF V2MFAConfirm
    <2>2. user' = [user EXCEPT ![u].mfa = "on", ![u].counter = 0]  BY <1>6 DEF V2MFAConfirm
    <2>3. user' \in [Users -> AccountRows] /\ Onward /\ AdminRemains'
      BY <2>2, FactorOn
    <2>. QED  BY <1>6, <2>1, <2>3, TablesStill, NothingGained DEF V2MFAConfirm
  <1>7. ASSUME NEW u \in Users, V2MFADisable(r, u) \/ V2ResetStudioUserMFA(r, u) PROVE AccountsInv'
    <2>1. DisableMFA(u) /\ UNCHANGED <<cred, challenge, scenario>>
      BY <1>7 DEF V2MFADisable, V2ResetStudioUserMFA
    <2>2. request' \in [Requests -> RequestRows] /\ \A x \in Requests : RequestOn(x)
      BY <1>7, GoesOn, ListsTyped, FreeTyped DEF V2MFADisable, V2ResetStudioUserMFA
    <2>3. user' \in [Users -> AccountRows] /\ Onward /\ AdminRemains'
      BY <2>1, FactorOff DEF DisableMFA
    <2>. QED  BY <2>1, <2>2, <2>3, TablesStill, NothingGained
  <1>8. ASSUME WriteNewPassword(r) PROVE AccountsInv'
    <2>1. PICK u \in Users : u = request[r].u
      BY <1>8 DEF WriteNewPassword, AccountsInv, RequestsCarry, Changing
    <2>2. request' \in [Requests -> RequestRows] /\ \A x \in Requests : RequestOn(x)
      BY <1>8, <2>1, GoesOn, ListsTyped, FreeTyped DEF WriteNewPassword
    <2>3. user' \in [Users -> AccountRows] /\ Onward /\ AdminRemains'
      BY <1>8, <2>1, PasswordOn DEF WriteNewPassword
    <2>. QED  BY <1>8, <2>2, <2>3, TablesStill, NothingGained DEF WriteNewPassword
  <1>. QED  BY <1>1, <1>2, <1>3, <1>4, <1>5, <1>6, <1>7, <1>8, DeletedOn DEF AccountStep

LEMMA FollowStepOn ==
    ASSUME AccountsInv, NEW r \in Requests, FollowStep(r)
    PROVE  AccountsInv'
  <1>1. CASE RunRevocation(r)
    <2>1. request' \in [Requests -> RequestRows] /\ \A x \in Requests : RequestOn(x)
      BY <1>1, RestOn DEF RunRevocation
    <2>2. cred' \in [Creds -> CredRows] /\ \A c \in Creds : CredKept(c)
      BY <1>1, RevokedOn, TablesStill DEF RunRevocation
    <2>. QED  BY <1>1, <2>1, <2>2, AccountsStill, TablesStill, NothingGained DEF RunRevocation
  <1>2. CASE RunDisconnect(r)
    <2>1. request' \in [Requests -> RequestRows] /\ \A x \in Requests : RequestOn(x)
      BY <1>2, RestOn DEF RunDisconnect
    <2>. QED  BY <1>2, <2>1, AccountsStill, TablesStill, NothingGained DEF RunDisconnect
  <1>3. CASE RunEnrolment(r)
    <2>1. PICK u \in Users : u = request[r].u
      BY <1>3 DEF RunEnrolment, AccountsInv, RequestsCarry, Changing
    <2>2. request' \in [Requests -> RequestRows] /\ \A x \in Requests : RequestOn(x)
      BY <1>3, RestOn, Finished DEF RunEnrolment
    <2>3. request[r].code \in Nat  BY DEF AccountsInv, AccountsTypeOK, RequestRows
    <2>4. user' \in [Users -> AccountRows] /\ Onward /\ AdminRemains'
      <3>1. CASE UNCHANGED user  BY <3>1, AccountsStill
      <3>2. CASE user' = [user EXCEPT ![u].counter = request[r].code]
        BY <2>3, <3>2, CounterOn
      <3>3. CASE user' = [user EXCEPT ![u].recovery = TRUE]  BY <3>3, RecoveryOn
      <3>4. CASE user' = [user EXCEPT ![u].mfa = "off", ![u].recovery = FALSE]
        BY <3>4, FactorOff
      <3>. QED  BY <1>3, <2>1, <3>1, <3>2, <3>3, <3>4 DEF RunEnrolment
    <2>. QED  BY <1>3, <2>2, <2>4, TablesStill, NothingGained DEF RunEnrolment
  <1>4. CASE RunReload(r)
    <2>1. request[r] \in RequestRows /\ request[r].u \in Users
      BY <1>4 DEF RunReload, AccountsInv, AccountsTypeOK, RequestsCarry, Changing
    <2>2. Tail(request[r].todo) \in Seq(Statements) /\ user[request[r].u] \in AccountRows
      BY <1>4, <2>1, HeadTailProperties DEF RunReload, RequestRows, AccountsInv, AccountsTypeOK
    <2>3. PICK q : q = [request[r] EXCEPT !.todo = Tail(request[r].todo), !.row = user[request[r].u]]  OBVIOUS
    <2>4. q \in RequestRows  BY <2>1, <2>2, <2>3 DEF RequestRows
    <2>5. q.pc = "running" /\ q.u = request[r].u  BY <1>4, <2>1, <2>3 DEF RunReload, RequestRows
    <2>6. request' = [request EXCEPT ![r] = q]
      BY <1>4, <2>1, <2>3 DEF RunReload, AccountsInv, AccountsTypeOK, RequestRows
    <2>7. request' \in [Requests -> RequestRows] /\ \A x \in Requests : RequestOn(x)
      BY <2>1, <2>4, <2>5, <2>6, OneRequest DEF Changing
    <2>. QED  BY <1>4, <2>7, AccountsStill, TablesStill, NothingGained DEF RunReload
  <1>5. CASE RunEnds(r)
    BY <1>5, Finished, AccountsStill, TablesStill, NothingGained DEF RunEnds
  <1>6. ASSUME NEW c \in Creds, RunSession(r, c, scenario.client) PROVE AccountsInv'
    <2>1. request[r].u \in Users /\ request[r].row.version \in Nat
      BY <1>6 DEF RunSession, AccountsInv, AccountsTypeOK, RequestsCarry, Changing, RequestRows, AccountRows
    <2>2. scenario.client \in Kinds
      BY AccountsAssumption DEF AccountsInv, AccountsTypeOK, Kinds
    <2>3. /\ InsertCred(c, scenario.client, request[r].u, request[r].row.version, 0, None, NoCode)
          /\ UNCHANGED user
      BY <1>6 DEF RunSession
    <2>4. cred' \in [Creds -> CredRows] /\ CredsCarry'
      BY <2>1, <2>2, <2>3, OwnRow
    <2>5. request' \in [Requests -> RequestRows] /\ \A x \in Requests : RequestOn(x)
      BY <1>6, Finished DEF RunSession
    <2>. QED  BY <1>6, <2>4, <2>5, RowMade DEF RunSession
  <1>. QED  BY <1>1, <1>2, <1>3, <1>4, <1>5, <1>6 DEF FollowStep

(* A sign-in goes on.                                                      *)
LEMMA SignInGoesOn ==
    ASSUME AccountsInv, NEW r \in Requests, request[r].pc \in SigningIn,
           NEW pc \in SigningIn, NEW code \in Nat,
           request' = [request EXCEPT ![r] = [request[r] EXCEPT !.pc = pc, !.code = code]]
    PROVE  request' \in [Requests -> RequestRows] /\ \A x \in Requests : RequestOn(x)
  <1>1. request[r] \in RequestRows  BY DEF AccountsInv, AccountsTypeOK
  <1>2. PICK q : q = [request[r] EXCEPT !.pc = pc, !.code = code]  OBVIOUS
  <1>3. q \in RequestRows  BY <1>1, <1>2 DEF RequestRows
  <1>4. /\ q.pc = pc /\ q.u = request[r].u /\ q.row = request[r].row
        /\ q.pass = request[r].pass /\ q.kind = request[r].kind
    BY <1>1, <1>2 DEF RequestRows
  <1>. QED  BY <1>2, <1>3, <1>4, OneRequest

(* A credential is made for what a sign-in read and proved.                *)
LEMMA ProvedRow ==
    ASSUME AccountsInv, UNCHANGED user, NEW r \in Requests, NEW c \in Creds, request[r].pc \in SigningIn,
           NEW kind \in Kinds, kind # "key", NEW ch \in Challenges \cup {None}, NEW code \in Nat,
           InsertCred(c, kind, request[r].u, request[r].row.version, request[r].pass, ch, code)
    PROVE  cred' \in [Creds -> CredRows] /\ CredsCarry'
  <1>1. PICK u \in Users, v \in Nat, p \in Nat :
           u = request[r].u /\ v = request[r].row.version /\ p = request[r].pass
    BY DEF AccountsInv, AccountsTypeOK, RequestsCarry, RequestRows, AccountRows
  <1>2. Carries(user, u, v, p)  BY <1>1 DEF AccountsInv, RequestsCarry
  <1>3. InsertCred(c, kind, u, v, p, ch, code)  BY <1>1
  <1>. QED  BY <1>2, <1>3, Inserted

LEMMA LookupOn ==
    ASSUME AccountsInv, NEW r \in Requests, NEW u \in Users, NEW kind \in {"browser", "mobile"},
           LoginLookup(r, u, kind)
    PROVE  AccountsInv'
  <1>1. user[u] \in AccountRows  BY DEF AccountsInv, AccountsTypeOK
  <1>2. PICK q : q = [IdleRequest EXCEPT !.pc = "login", !.u = u, !.row = user[u], !.kind = kind, !.pass = user[u].pass]
    OBVIOUS
  <1>3. user[u].pass \in Nat /\ kind \in Kinds  BY <1>1 DEF AccountRows, Kinds
  <1>4. q \in RequestRows  BY <1>1, <1>2, <1>3, FreeTyped DEF RequestRows, SigningIn
  <1>5. q.pc = "login" /\ q.u = u /\ q.row = user[u] /\ q.kind = kind /\ q.pass = user[u].pass
    BY <1>2 DEF IdleRequest
  <1>6. Carries(user, u, user[u].version, user[u].pass)
    BY <1>1 DEF LoginLookup, Exists, Carries, AccountRows
  <1>7. request' = [request EXCEPT ![r] = q]  BY <1>2 DEF LoginLookup
  <1>. QED  BY <1>4, <1>5, <1>6, <1>7, SignInBegins DEF LoginLookup, SigningIn

LEMMA CompleteOn ==
    ASSUME AccountsInv, NEW r \in Requests, NEW h \in Challenges, NEW kind \in {"browser", "mobile"},
           CompleteLookup(r, h, kind)
    PROVE  AccountsInv'
  <1>1. PICK u \in Users : u = challenge[h].owner
    BY DEF CompleteLookup, AccountsInv, ChallengesCarry
  <1>2. user[u] \in AccountRows /\ challenge[h].pass \in Nat
    BY DEF AccountsInv, AccountsTypeOK, ChallengeRows
  <1>3. PICK q : q = [IdleRequest EXCEPT !.pc = "verify", !.u = u, !.row = user[u], !.kind = kind, !.ch = h,
                                         !.pass = challenge[h].pass]
    OBVIOUS
  <1>4. q \in RequestRows  BY <1>2, <1>3, FreeTyped DEF RequestRows, SigningIn, Kinds
  <1>5. /\ q.pc = "verify" /\ q.u = u /\ q.row = user[u] /\ q.kind = kind
        /\ q.pass = challenge[h].pass
    BY <1>3 DEF IdleRequest
  <1>6. Carries(user, u, challenge[h].version, challenge[h].pass) /\ user[u].version = challenge[h].version
    BY <1>1 DEF CompleteLookup, AccountsInv, ChallengesCarry
  <1>7. request' = [request EXCEPT ![r] = q]  BY <1>1, <1>3 DEF CompleteLookup
  <1>. QED  BY <1>4, <1>5, <1>6, <1>7, SignInBegins DEF CompleteLookup, SigningIn

LEMMA ChallengeMade ==
    ASSUME AccountsInv, NEW r \in Requests, NEW h \in Challenges, CreateLoginChallenge(r, h)
    PROVE  AccountsInv'
  <1>1. PICK u \in Users, v \in Nat, p \in Nat :
           u = request[r].u /\ v = request[r].row.version /\ p = request[r].pass
    BY DEF CreateLoginChallenge, SigningIn, AccountsInv, AccountsTypeOK, RequestsCarry, RequestRows, AccountRows
  <1>2. Carries(user, u, v, p)
    BY <1>1 DEF CreateLoginChallenge, SigningIn, AccountsInv, RequestsCarry
  <1>3. PICK row : row = [state |-> "open", owner |-> u, version |-> v, pass |-> p, failures |-> 0]  OBVIOUS
  <1>4. row \in ChallengeRows  BY <1>3 DEF ChallengeRows
  <1>5. challenge' = [challenge EXCEPT ![h] = row] /\ challenge \in [Challenges -> ChallengeRows]
    BY <1>1, <1>3 DEF CreateLoginChallenge, AccountsInv, AccountsTypeOK
  <1>6. request' \in [Requests -> RequestRows] /\ \A x \in Requests : RequestOn(x)
    BY Finished DEF CreateLoginChallenge
  <1>7. AccountsTypeOK'
    BY <1>4, <1>5, <1>6 DEF CreateLoginChallenge, AccountsInv, AccountsTypeOK
  <1>8. ChallengesCarry'
    <2>. SUFFICES ASSUME NEW x \in Challenges, challenge'[x].state = "open"
                  PROVE  /\ challenge'[x].owner \in Users
                         /\ Carries(user', challenge'[x].owner, challenge'[x].version, challenge'[x].pass)
      BY DEF ChallengesCarry
    <2>1. user' = user  BY DEF CreateLoginChallenge
    <2>2. CASE x = h
      <3>1. challenge'[x] = row  BY <1>5, <2>2
      <3>. QED  BY <1>2, <1>3, <2>1, <3>1
    <2>3. CASE x # h
      <3>1. challenge'[x] = challenge[x]  BY <1>5, <2>3
      <3>. QED  BY <2>1, <3>1 DEF AccountsInv, ChallengesCarry
    <2>. QED  BY <2>2, <2>3
  <1>9. RequestsCarry'  BY <1>6, <1>7, AccountsStill, RequestsOn DEF CreateLoginChallenge, AccountsInv
  <1>. QED  BY <1>7, <1>8, <1>9, AccountsStill DEF CreateLoginChallenge, AccountsInv, CredsCarry

LEMMA SignInStepOn ==
    ASSUME AccountsInv, NEW r \in Requests, SignInStep(r)
    PROVE  AccountsInv'
  <1>1. ASSUME NEW u \in Users, V2Login(r, u) \/ V2MobileLogin(r, u) PROVE AccountsInv'
    BY <1>1, LookupOn DEF V2Login, V2MobileLogin
  <1>2. ASSUME NEW c \in Creds, LoginSession(r, c) PROVE AccountsInv'
    <2>1. request[r].pc \in SigningIn  BY <1>2 DEF LoginSession, SigningIn
    <2>2. PICK kind \in {"browser", "mobile"} : kind = request[r].kind
      BY <2>1 DEF AccountsInv, RequestsCarry
    <2>3. kind \in Kinds /\ kind # "key" /\ NoCode \in Nat  BY FreeTyped DEF Kinds
    <2>4. InsertCred(c, kind, request[r].u, request[r].row.version, request[r].pass, None, NoCode)
      BY <1>2, <2>2 DEF LoginSession
    <2>5. cred' \in [Creds -> CredRows] /\ CredsCarry'
      BY <1>2, <2>1, <2>3, <2>4, ProvedRow DEF LoginSession
    <2>. QED  BY <1>2, <2>5, Finished, RowMade DEF LoginSession
  <1>3. ASSUME NEW c \in Creds, CreateTrustedBrowser(r, c) PROVE AccountsInv'
    <2>1. request[r].pc \in SigningIn  BY <1>3 DEF CreateTrustedBrowser, SigningIn
    <2>2. PICK kind \in Kinds : kind = "trusted" /\ kind # "key"  BY DEF Kinds
    <2>3. InsertCred(c, kind, request[r].u, request[r].row.version, request[r].pass, None, NoCode)
      BY <1>3, <2>2 DEF CreateTrustedBrowser
    <2>4. cred' \in [Creds -> CredRows] /\ CredsCarry'
      BY <1>3, <2>1, <2>2, <2>3, FreeTyped, ProvedRow DEF CreateTrustedBrowser
    <2>. QED  BY <1>3, <2>4, Finished, RowMade DEF CreateTrustedBrowser
  <1>4. ASSUME NEW c \in Creds, NEW trust \in BOOLEAN, CompleteSession(r, c, trust) PROVE AccountsInv'
    <2>1. request[r].pc \in SigningIn /\ request[r] \in RequestRows
      BY <1>4 DEF CompleteSession, SigningIn, AccountsInv, AccountsTypeOK
    <2>2. PICK kind \in {"browser", "mobile"} : kind = request[r].kind
      BY <2>1 DEF AccountsInv, RequestsCarry
    <2>3. kind \in Kinds /\ kind # "key"  BY DEF Kinds
    <2>4. PICK ch \in Challenges \cup {None}, code \in Nat : ch = request[r].ch /\ code = request[r].code
      BY <2>1 DEF RequestRows
    <2>5. InsertCred(c, kind, request[r].u, request[r].row.version, request[r].pass, ch, code)
      BY <1>4, <2>2, <2>4 DEF CompleteSession
    <2>6. cred' \in [Creds -> CredRows] /\ CredsCarry'
      BY <1>4, <2>1, <2>3, <2>5, ProvedRow DEF CompleteSession
    <2>7. request' \in [Requests -> RequestRows] /\ \A x \in Requests : RequestOn(x)
      <3>1. CASE Finish(r)  BY <3>1, Finished
      <3>2. CASE request' = [request EXCEPT ![r].pc = "trusting"]
        <4>1. request' = [request EXCEPT ![r] = [request[r] EXCEPT !.pc = "trusting", !.code = code]]
          BY <2>1, <2>4, <3>2 DEF RequestRows
        <4>. QED  BY <2>1, <4>1, SignInGoesOn DEF SigningIn
      <3>. QED  BY <1>4, <3>1, <3>2 DEF CompleteSession, Finish
    <2>. QED  BY <1>4, <2>6, <2>7, RowMade DEF CompleteSession
  <1>5. ASSUME NEW h \in Challenges, V2CompleteMFALogin(r, h) \/ V2MobileCompleteMFALogin(r, h)
        PROVE  AccountsInv'
    BY <1>5, CompleteOn DEF V2CompleteMFALogin, V2MobileCompleteMFALogin
  <1>6. ASSUME NEW code \in 1 .. MaxCode, UseMFACounter(r, code) PROVE AccountsInv'
    <2>1. PICK u \in Users : u = request[r].u
      BY <1>6 DEF UseMFACounter, SigningIn, AccountsInv, RequestsCarry
    <2>2. code \in Nat  BY AccountsAssumption
    <2>3. user' = [user EXCEPT ![u].counter = code]  BY <1>6, <2>1 DEF UseMFACounter
    <2>4. user' \in [Users -> AccountRows] /\ Onward /\ AdminRemains'  BY <2>2, <2>3, CounterOn
    <2>5. request[r] \in RequestRows  BY DEF AccountsInv, AccountsTypeOK
    <2>6. request' = [request EXCEPT ![r] = [request[r] EXCEPT !.pc = "proved", !.code = code]]
      BY <1>6, <2>5 DEF UseMFACounter
    <2>7. request' \in [Requests -> RequestRows] /\ \A x \in Requests : RequestOn(x)
      BY <1>6, <2>2, <2>6, SignInGoesOn DEF UseMFACounter, SigningIn
    <2>. QED  BY <1>6, <2>4, <2>7, TablesStill, NothingGained DEF UseMFACounter
  <1>7. CASE UseRecoveryCode(r)
    <2>1. PICK u \in Users : u = request[r].u
      BY <1>7 DEF UseRecoveryCode, SigningIn, AccountsInv, RequestsCarry
    <2>2. user' = [user EXCEPT ![u].recovery = FALSE]  BY <1>7, <2>1 DEF UseRecoveryCode
    <2>3. user' \in [Users -> AccountRows] /\ Onward /\ AdminRemains'  BY <2>2, RecoveryOn
    <2>4. request[r] \in RequestRows  BY DEF AccountsInv, AccountsTypeOK
    <2>5. request' = [request EXCEPT ![r] = [request[r] EXCEPT !.pc = "proved", !.code = Recovery]]
      BY <1>7, <2>4 DEF UseRecoveryCode
    <2>6. Recovery \in Nat  BY DEF Recovery
    <2>7. request' \in [Requests -> RequestRows] /\ \A x \in Requests : RequestOn(x)
      BY <1>7, <2>5, <2>6, SignInGoesOn DEF UseRecoveryCode, SigningIn
    <2>. QED  BY <1>7, <2>3, <2>7, TablesStill, NothingGained DEF UseRecoveryCode
  <1>8. CASE RecordLoginChallengeFailure(r)
    <2>1. challenge \in [Challenges -> ChallengeRows]  BY DEF AccountsInv, AccountsTypeOK
    <2>2. \/ UNCHANGED challenge
          \/ challenge' = [challenge EXCEPT ![request[r].ch].failures = @ + 1]
      BY <1>8, <2>1 DEF RecordLoginChallengeFailure
    <2>3. ASSUME NEW h \in Challenges PROVE challenge'[h] \in ChallengeRows /\ ChallengeKept(h)
      <3>1. \/ challenge'[h] = challenge[h]
            \/ challenge'[h] = [challenge[h] EXCEPT !.failures = challenge[h].failures + 1]
        BY <2>1, <2>2
      <3>2. challenge[h].failures + 1 \in Nat  BY <2>1 DEF ChallengeRows
      <3>. QED  BY <2>1, <3>1, <3>2 DEF ChallengeRows, ChallengeKept
    <2>4. challenge' \in [Challenges -> ChallengeRows] /\ \A h \in Challenges : ChallengeKept(h)
      BY <2>1, <2>2, <2>3
    <2>. QED  BY <1>8, <2>4, Finished, AccountsStill, TablesStill, NothingGained DEF RecordLoginChallengeFailure
  <1>9. CASE ConsumeLoginChallenge(r)
    <2>1. challenge \in [Challenges -> ChallengeRows] /\ request[r] \in RequestRows /\ request[r].code \in Nat
      BY DEF AccountsInv, AccountsTypeOK, RequestRows
    <2>2. challenge' \in [Challenges -> ChallengeRows] /\ \A h \in Challenges : ChallengeKept(h)
      BY <1>9, <2>1 DEF ConsumeLoginChallenge, ChallengeRows, ChallengeKept
    <2>3. request' \in [Requests -> RequestRows] /\ \A x \in Requests : RequestOn(x)
      <3>1. CASE Finish(r)  BY <3>1, Finished
      <3>2. CASE request' = [request EXCEPT ![r].pc = "consumed"]
        <4>1. request' = [request EXCEPT ![r] = [request[r] EXCEPT !.pc = "consumed", !.code = request[r].code]]
          BY <2>1, <3>2 DEF RequestRows
        <4>. QED  BY <1>9, <2>1, <4>1, SignInGoesOn DEF ConsumeLoginChallenge, SigningIn
      <3>. QED  BY <1>9, <3>1, <3>2 DEF ConsumeLoginChallenge
    <2>. QED  BY <1>9, <2>2, <2>3, AccountsStill, TablesStill, NothingGained DEF ConsumeLoginChallenge
  <1>10. CASE SignInFails(r)
    BY <1>10, Finished, AccountsStill, TablesStill, NothingGained DEF SignInFails
  <1>. QED  BY <1>1, <1>2, <1>3, <1>4, <1>5, <1>6, <1>7, <1>8, <1>9, <1>10, ChallengeMade DEF SignInStep

LEMMA RowStepOn ==
    ASSUME AccountsInv, RowStep
    PROVE  AccountsInv'
  <1>1. ASSUME NEW u \in Users, CreateInitialAdminIfEmpty(u) PROVE AccountsInv'
    BY <1>1, FirstAdmin DEF CreateInitialAdminIfEmpty
  <1>2. ASSUME NEW u \in Users, NEW role \in {"admin", "viewer"}, NEW grant \in BOOLEAN, CreateUser(u, role, grant)
        PROVE  AccountsInv'
    BY <1>2, FirstAdmin DEF CreateUser
  <1>3. ASSUME NEW u \in Users, NEW c \in Creds, CreateMediaKey(u, c) PROVE AccountsInv'
    <2>1. user[u].version \in Nat /\ "key" \in Kinds  BY DEF AccountsInv, AccountsTypeOK, AccountRows, Kinds
    <2>2. cred' \in [Creds -> CredRows] /\ CredsCarry'  BY <1>3, <2>1, OwnRow DEF CreateMediaKey
    <2>. QED  BY <1>3, <2>2, TablesStill, RowMade DEF CreateMediaKey
  <1>4. ASSUME NEW c \in Creds, CredEnds(c) PROVE AccountsInv'
    <2>1. cred' \in [Creds -> CredRows] /\ \A d \in Creds : CredKept(d)
      BY <1>4, Revoking DEF CredEnds, AccountsInv, AccountsTypeOK
    <2>. QED  BY <1>4, <2>1, AccountsStill, TablesStill, NothingGained DEF CredEnds
  <1>5. CASE PruneSecurityData
    <2>1. cred' \in [Creds -> CredRows] /\ \A d \in Creds : CredKept(d)
      BY <1>5, Revoking DEF PruneSecurityData
    <2>2. challenge \in [Challenges -> ChallengeRows]  BY DEF AccountsInv, AccountsTypeOK
    <2>3. challenge' \in [Challenges -> ChallengeRows] /\ \A h \in Challenges : ChallengeKept(h)
      BY <1>5, <2>2 DEF PruneSecurityData, ChallengeRows, ChallengeKept
    <2>. QED  BY <1>5, <2>1, <2>3, AccountsStill, TablesStill, NothingGained DEF PruneSecurityData
  <1>. QED  BY <1>1, <1>2, <1>3, <1>4, <1>5 DEF RowStep

LEMMA RevokeOneOn ==
    ASSUME AccountsInv, NEW r \in Requests, NEW c \in Creds, RevokeOne(r, c)
    PROVE  AccountsInv'
  <1>1. cred' \in [Creds -> CredRows] /\ \A d \in Creds : CredKept(d)
    BY Revoking DEF RevokeOne, AccountsInv, AccountsTypeOK
  <1>2. PICK q : q = [IdleRequest EXCEPT !.pc = "revoked", !.kind = c]  OBVIOUS
  <1>3. q \in RequestRows  BY <1>2, FreeTyped DEF RequestRows
  <1>4. q.pc = "revoked"  BY <1>2 DEF IdleRequest
  <1>5. request' = [request EXCEPT ![r] = q]  BY <1>2 DEF RevokeOne
  <1>6. request' \in [Requests -> RequestRows] /\ \A x \in Requests : RequestOn(x)
    BY <1>3, <1>4, <1>5, OneRequest
  <1>. QED  BY <1>1, <1>6, AccountsStill, TablesStill, NothingGained DEF RevokeOne

-----------------------------------------------------------------------------
(* What is carried is current whenever it is honoured.                     *)
LEMMA CarriedIsCurrent == AccountsInv => SignInsCurrent
  <1>. SUFFICES ASSUME AccountsInv, NEW c \in Creds, Valid(c), cred[c].pass > 0
                PROVE  cred[c].pass = user[cred[c].owner].pass
    BY DEF SignInsCurrent
  <1>. QED  BY DEF AccountsInv, CredsCarry, Carries, Valid, RowHonoured, OfThisVersion, Exists

(* In every reachable state the rows have their types, an administrator    *)
(* remains, and whatever a row or a sign-in of security_query.go carries   *)
(* was true of the account when it was read.                               *)
THEOREM AccountsSafety == Spec => []AccountsInv
  <1>1. Init => AccountsInv
    <2>. SUFFICES ASSUME Init PROVE AccountsInv
      OBVIOUS
    <2>1. AccountsTypeOK  BY FreeTyped DEF Init, AccountsTypeOK
    <2>2. AdminRemains  BY DEF Init, AdminRemains, FreeUser
    <2>3. CredsCarry /\ ChallengesCarry /\ RequestsCarry
      BY DEF Init, CredsCarry, FreeCred, ChallengesCarry, FreeChallenge, RequestsCarry, IdleRequest, SigningIn, Changing
    <2>. QED  BY <2>1, <2>2, <2>3 DEF AccountsInv
  <1>2. AccountsInv /\ [Next]_vars => AccountsInv'
    <2>. SUFFICES ASSUME AccountsInv, [Next]_vars PROVE AccountsInv'
      OBVIOUS
    <2>1. ASSUME NEW r \in Requests, DisconnectOne(r) PROVE AccountsInv'
      BY <2>1, Finished, AccountsStill, TablesStill, NothingGained DEF DisconnectOne
    <2>2. ASSUME NEW s \in Streams, StreamStep(s) PROVE AccountsInv'
      <3>1. UNCHANGED <<user, cred, challenge, request, scenario>>
        BY <2>2 DEF StreamStep, AdmitStream, RegisterStream, RecheckStream
      <3>. QED  BY <3>1, AccountsStill, TablesStill, NothingGained
    <2>3. CASE UNCHANGED vars
      BY <2>3, AccountsStill, TablesStill, NothingGained DEF vars
    <2>. QED  BY <2>1, <2>2, <2>3, RowStepOn, AccountStepOn, FollowStepOn, SignInStepOn, RevokeOneOn DEF Next
  <1>. QED  BY <1>1, <1>2, PTL DEF Spec

(* However administrators demote, disable and delete one another at once,  *)
(* UpdateUser and DeleteUser leave an enabled one.                         *)
THEOREM AdminStays == Spec => []AdminRemains
  <1>1. AccountsInv => AdminRemains  BY DEF AccountsInv
  <1>. QED  BY <1>1, AccountsSafety, PTL

(* A session that proved an older password is never honoured, however late *)
(* its row is inserted and whichever revocations failed.                   *)
THEOREM SessionsStayCurrent == Spec => []SignInsCurrent
  BY CarriedIsCurrent, AccountsSafety, PTL

-----------------------------------------------------------------------------
(* A session that is refused stays refused, and a second factor is spent   *)
(* once.  Neither follows from the rows alone.                             *)
(*                                                                         *)
(* NoRevival needs that what was issued is of a version the account had    *)
(* (CredsBehind, RequestsBehind): a version is never given back, so a row  *)
(* of an older one cannot match again.                                     *)
(*                                                                         *)
(* SecondFactorOnce needs to follow what was spent from the request that   *)
(* spent it to the session it opens: a consumed challenge, and a code that *)
(* nobody can prove any more (UsedUp), are in the hands of one request or  *)
(* of one session.  A code stays used up because the counter only grows    *)
(* while an account has a factor, because an account is enrolled once, and *)
(* because its recovery codes are stored once, by that enrolment, before   *)
(* one of them can be used (Enrolments).                                   *)

EnrolmentList == <<"counter", "recovery", "browser", "mobile", "trusted", "reload", "session">>
\* The rest of an enrolment up to ReplaceRecoveryCodes, and every other list.
NoCodesToStore(todo) == \A i \in 1 .. Len(todo) : todo[i] # "recovery"
Storing(r) == request[r].pc = "running" /\ request[r].todo \in {EnrolmentList, Tail(EnrolmentList)}

\* An account that is not there, or never enrolled, has no second factor.
RowsPlain ==
    \A u \in Users :
        /\ user[u].version >= 1
        /\ user[u].role \in {"new", "gone"} => user[u].mfa = "never"
        /\ user[u].mfa = "never" => ~user[u].recovery

\* Version v of account u was there.
Behind(table, u, v) ==
    /\ table[u].role # "new"
    /\ table[u].role \in {"admin", "viewer"} => v <= table[u].version

\* A credential is of a version that its account had.
CredsBehind ==
    \A c \in Creds :
        /\ cred[c].state = "free" => cred[c].kind = None
        /\ cred[c].state = "live" =>
              cred[c].owner \in Users /\ Behind(user, cred[c].owner, cred[c].version)

RequestsBehind ==
    \A r \in Requests :
        request[r].pc \in Changing => Behind(user, request[r].u, request[r].row.version)

Spent(h) == challenge[h].state \in {"consumed", "deleted"}

\* A challenge that was consumed is in the hands of one request or one session.
ChallengesOnce ==
    /\ \A r \in Requests :
          /\ request[r].pc \in {"verify", "proved", "consumed"} => request[r].ch \in Challenges
          /\ request[r].pc = "consumed" =>
                /\ Spent(request[r].ch)
                /\ \A s \in Requests \ {r} : request[s].pc = "consumed" => request[s].ch # request[r].ch
                /\ \A c \in Creds : cred[c].ch # None => cred[c].ch # request[r].ch
    /\ \A c \in Creds : cred[c].ch # None =>
          /\ cred[c].ch \in Challenges /\ Spent(cred[c].ch)
          /\ \A d \in Creds \ {c} : cred[d].ch # cred[c].ch

\* No request can prove code k of account u any more.
UsedUp(table, u, k) ==
    /\ table[u].role # "new"
    /\ table[u].role \in {"admin", "viewer"} =>
          /\ table[u].mfa # "never"
          /\ k = Recovery => ~table[u].recovery
          /\ k # Recovery => k <= table[u].counter

Holds(r, u, k) == request[r].pc \in {"proved", "consumed"} /\ request[r].u = u /\ request[r].code = k
Bears(c, u, k) == cred[c].code # NoCode /\ cred[c].owner = u /\ cred[c].code = k

\* So is a code.
CodesOnce ==
    /\ \A r \in Requests, u \in Users, k \in Nat : Holds(r, u, k) =>
          /\ UsedUp(user, u, k)
          /\ \A s \in Requests \ {r} : ~Holds(s, u, k)
          /\ \A c \in Creds : ~Bears(c, u, k)
    /\ \A c \in Creds : cred[c].code # NoCode => cred[c].owner \in Users
    /\ \A c \in Creds, u \in Users, k \in Nat : Bears(c, u, k) =>
          /\ UsedUp(user, u, k)
          /\ \A d \in Creds \ {c} : ~Bears(d, u, k)

\* Recovery codes are stored once for an account, before the first is used.
Enrolments ==
    \A r \in Requests : request[r].pc = "running" =>
        /\ Storing(r) \/ NoCodesToStore(request[r].todo)
        /\ Storing(r) =>
              /\ UsedUp(user, request[r].u, Recovery)
              /\ \A s \in Requests \ {r} : Storing(s) => request[s].u # request[r].u
              /\ \A s \in Requests : ~Holds(s, request[r].u, Recovery)
              /\ \A c \in Creds : ~Bears(c, request[r].u, Recovery)

\* What a row or a handler was issued for, and what was spent on it.
AgeInv == CredsBehind /\ RequestsBehind
FactorInv == RowsPlain /\ CodesOnce /\ Enrolments
AccessInv == AccountsInv /\ AgeInv /\ ChallengesOnce /\ FactorInv

-----------------------------------------------------------------------------
\* What any step does to a row: what changes its role or lock gives it a version.
RowAged(u) ==
    user[u].role # "new" =>
        /\ user'[u].role # "new"
        /\ user'[u].role \in {"admin", "viewer"} =>
              /\ user[u].role \in {"admin", "viewer"}
              /\ \/ user[u].version < user'[u].version
                 \/ /\ user'[u].version = user[u].version
                    /\ user'[u].role = user[u].role /\ user'[u].disabled = user[u].disabled

\* A row that has its factors spent or dropped, and no factor given.
RowQuiet(u) ==
    \/ user'[u] = user[u]
    \/ /\ user[u].role = "new" \/ user'[u].role = "gone"
       /\ user'[u].version >= 1 /\ user'[u].mfa = "never" /\ ~user'[u].recovery
    \/ /\ user[u].role \in {"admin", "viewer"} /\ user'[u].role \in {"admin", "viewer"}
       /\ user[u].version <= user'[u].version /\ user[u].counter <= user'[u].counter
       /\ user'[u].mfa = "never" <=> user[u].mfa = "never"
       /\ user'[u].recovery => user[u].recovery

\* A credential ends or stays; a new one is of a version of now or before.
CredAged(c) ==
    /\ cred'[c].state = "free" => cred[c].state = "free" /\ cred'[c].kind = cred[c].kind
    /\ \/ CredKept(c) /\ (cred'[c].state = "live" => cred[c].state = "live")
       \/ /\ cred[c].state = "free" /\ cred'[c].owner \in Users
          /\ Behind(user', cred'[c].owner, cred'[c].version)

\* No session gains a challenge or a code,
CredPlain(c) ==
    /\ cred'[c].ch \in {cred[c].ch, None}
    /\ cred'[c].code = NoCode \/ (cred'[c].code = cred[c].code /\ cred'[c].owner = cred[c].owner)

\* A handler carries a row of a version of now or before.
RequestAged(r) ==
    request'[r].pc \in Changing => Behind(user', request'[r].u, request'[r].row.version)

\* no request a challenge,
TicketKept(r) ==
    /\ request'[r].pc \in {"verify", "proved", "consumed"} => request'[r].ch \in Challenges
    /\ request'[r].pc = "consumed" => request[r].pc = "consumed" /\ request'[r].ch = request[r].ch

\* nor a code,
CodeKept(r) ==
    request'[r].pc \in {"proved", "consumed"} =>
        /\ request[r].pc \in {"proved", "consumed"}
        /\ request'[r].u = request[r].u /\ request'[r].code = request[r].code

\* and no enrolment begins.
ListKept(r) ==
    /\ request'[r].pc = "running" => Storing(r)' \/ NoCodesToStore(request'[r].todo)
    /\ Storing(r)' => Storing(r) /\ request'[r].u = request[r].u

ChallengeAged(h) == Spent(h) => Spent(h)'

(* What is behind stays behind.                                            *)
LEMMA BehindOn ==
    ASSUME AccountsTypeOK, AccountsTypeOK', NEW u \in Users, RowAged(u), NEW v \in Nat, Behind(user, u, v)
    PROVE  Behind(user', u, v)
  <1>1. user[u].version \in Nat /\ user'[u].version \in Nat
    BY DEF AccountsTypeOK, AccountRows
  <1>. QED  BY <1>1 DEF RowAged, Behind

LEMMA AgeOn ==
    ASSUME AccountsTypeOK, AccountsTypeOK', AgeInv, \A u \in Users : RowAged(u),
           \A c \in Creds : CredAged(c), \A r \in Requests : RequestAged(r)
    PROVE  AgeInv'
  <1>1. ASSUME NEW c \in Creds
        PROVE  /\ cred'[c].state = "free" => cred'[c].kind = None
               /\ cred'[c].state = "live" =>
                     cred'[c].owner \in Users /\ Behind(user', cred'[c].owner, cred'[c].version)
    <2>1. cred[c].version \in Nat
      BY DEF AccountsTypeOK, CredRows
    <2>2. CASE CredKept(c) /\ (cred'[c].state = "live" => cred[c].state = "live")
      BY <2>1, <2>2, BehindOn DEF CredKept, CredAged, AgeInv, CredsBehind
    <2>3. CASE ~(CredKept(c) /\ (cred'[c].state = "live" => cred[c].state = "live"))
      BY <2>3 DEF CredAged, AgeInv, CredsBehind
    <2>. QED  BY <2>2, <2>3
  <1>. QED  BY <1>1 DEF AgeInv, CredsBehind, RequestsBehind, RequestAged

LEMMA TicketsOn ==
    ASSUME ChallengesOnce, \A h \in Challenges : ChallengeAged(h),
           \A c \in Creds : CredPlain(c), \A r \in Requests : TicketKept(r)
    PROVE  ChallengesOnce'
  <1>1. ASSUME NEW r \in Requests
        PROVE  /\ request'[r].pc \in {"verify", "proved", "consumed"} => request'[r].ch \in Challenges
               /\ request'[r].pc = "consumed" =>
                     /\ Spent(request[r].ch)'
                     /\ \A s \in Requests \ {r} : request'[s].pc = "consumed" => request'[s].ch # request'[r].ch
                     /\ \A c \in Creds : cred'[c].ch # None => cred'[c].ch # request'[r].ch
    <2>1. request'[r].pc \in {"verify", "proved", "consumed"} => request'[r].ch \in Challenges
      BY DEF TicketKept
    <2>2. ASSUME request'[r].pc = "consumed"
          PROVE  /\ Spent(request[r].ch)'
                 /\ \A s \in Requests \ {r} : request'[s].pc = "consumed" => request'[s].ch # request'[r].ch
                 /\ \A c \in Creds : cred'[c].ch # None => cred'[c].ch # request'[r].ch
      <3>1. /\ request[r].pc = "consumed" /\ request'[r].ch = request[r].ch
            /\ request[r].ch \in Challenges /\ Spent(request[r].ch)
        BY <2>2 DEF TicketKept, ChallengesOnce
      <3>2. Spent(request[r].ch)'
        BY <3>1 DEF ChallengeAged, Spent
      <3>3. ASSUME NEW s \in Requests \ {r}, request'[s].pc = "consumed" PROVE request'[s].ch # request'[r].ch
        BY <3>1, <3>3 DEF TicketKept, ChallengesOnce
      <3>4. ASSUME NEW c \in Creds, cred'[c].ch # None PROVE cred'[c].ch # request'[r].ch
        BY <3>1, <3>4 DEF CredPlain, ChallengesOnce
      <3>. QED  BY <3>2, <3>3, <3>4
    <2>. QED  BY <2>1, <2>2
  <1>2. ASSUME NEW c \in Creds, cred'[c].ch # None
        PROVE  /\ cred'[c].ch \in Challenges /\ Spent(cred[c].ch)'
               /\ \A d \in Creds \ {c} : cred'[d].ch # cred'[c].ch
    <2>1. cred'[c].ch = cred[c].ch /\ cred[c].ch \in Challenges /\ Spent(cred[c].ch)
      BY <1>2 DEF CredPlain, ChallengesOnce
    <2>2. Spent(cred[c].ch)'
      BY <2>1 DEF ChallengeAged, Spent
    <2>3. ASSUME NEW d \in Creds \ {c} PROVE cred'[d].ch # cred'[c].ch
      BY <1>2, <2>1 DEF CredPlain, ChallengesOnce
    <2>. QED  BY <2>1, <2>2, <2>3
  <1>. QED  BY <1>1, <1>2 DEF ChallengesOnce

LEMMA UsedUpOn ==
    ASSUME AccountsTypeOK, AccountsTypeOK', NEW u \in Users, RowAged(u), RowQuiet(u), NEW k \in Nat,
           UsedUp(user, u, k)
    PROVE  UsedUp(user', u, k)
  <1>1. user[u].counter \in Nat /\ user'[u].counter \in Nat
    BY DEF AccountsTypeOK, AccountRows
  <1>. QED  BY <1>1 DEF RowAged, RowQuiet, UsedUp, Recovery

LEMMA PlainOn ==
    ASSUME AccountsTypeOK, AccountsTypeOK', RowsPlain, \A u \in Users : RowQuiet(u)
    PROVE  RowsPlain'
  <1>. SUFFICES ASSUME NEW u \in Users
                PROVE  /\ user'[u].version >= 1
                       /\ user'[u].role \in {"new", "gone"} => user'[u].mfa = "never"
                       /\ user'[u].mfa = "never" => ~user'[u].recovery
    BY DEF RowsPlain
  <1>1. user[u].version \in Nat /\ user'[u].version \in Nat
    BY DEF AccountsTypeOK, AccountRows
  <1>. QED  BY <1>1 DEF RowsPlain, RowQuiet

LEMMA CodesOn ==
    ASSUME CodesOnce, \A u \in Users, k \in Nat : UsedUp(user, u, k) => UsedUp(user', u, k),
           \A c \in Creds : CredPlain(c), \A r \in Requests : CodeKept(r)
    PROVE  CodesOnce'
  <1>1. \A r \in Requests, u \in Users, k \in Nat : Holds(r, u, k)' => Holds(r, u, k)
    BY DEF CodeKept, Holds
  <1>2. \A c \in Creds, u \in Users, k \in Nat : Bears(c, u, k)' => Bears(c, u, k)
    BY DEF CredPlain, Bears, NoCode
  <1>3. \A c \in Creds : cred'[c].code # NoCode => cred'[c].owner \in Users
    BY DEF CredPlain, CodesOnce
  <1>4. ASSUME NEW r \in Requests, NEW u \in Users, NEW k \in Nat, Holds(r, u, k)'
        PROVE  /\ UsedUp(user', u, k)
               /\ \A s \in Requests \ {r} : ~Holds(s, u, k)'
               /\ \A c \in Creds : ~Bears(c, u, k)'
    BY <1>1, <1>2, <1>4 DEF CodesOnce
  <1>5. ASSUME NEW c \in Creds, NEW u \in Users, NEW k \in Nat, Bears(c, u, k)'
        PROVE  UsedUp(user', u, k) /\ \A d \in Creds \ {c} : ~Bears(d, u, k)'
    BY <1>2, <1>5 DEF CodesOnce
  <1>. QED  BY <1>3, <1>4, <1>5 DEF CodesOnce, NoCode

LEMMA EnrolmentsOn ==
    ASSUME Enrolments, RequestsCarry, \A u \in Users : UsedUp(user, u, Recovery) => UsedUp(user', u, Recovery),
           \A c \in Creds : CredPlain(c), \A r \in Requests : CodeKept(r) /\ ListKept(r)
    PROVE  Enrolments'
  <1>1. \A r \in Requests, u \in Users : Holds(r, u, Recovery)' => Holds(r, u, Recovery)
    BY DEF CodeKept, Holds
  <1>2. \A c \in Creds, u \in Users : Bears(c, u, Recovery)' => Bears(c, u, Recovery)
    BY DEF CredPlain, Bears, NoCode
  <1>3. ASSUME NEW r \in Requests, Storing(r)'
        PROVE  /\ UsedUp(user', request'[r].u, Recovery)
               /\ \A s \in Requests \ {r} : Storing(s)' => request'[s].u # request'[r].u
               /\ \A s \in Requests : ~Holds(s, request[r].u, Recovery)'
               /\ \A c \in Creds : ~Bears(c, request[r].u, Recovery)'
    <2>1. /\ Storing(r) /\ request'[r].u = request[r].u /\ request[r].pc = "running"
          /\ request[r].u \in Users
      BY <1>3 DEF ListKept, Storing, RequestsCarry, Changing
    <2>2. UsedUp(user', request'[r].u, Recovery)
      BY <2>1 DEF Enrolments
    <2>3. ASSUME NEW s \in Requests \ {r}, Storing(s)' PROVE request'[s].u # request'[r].u
      BY <2>1, <2>3 DEF ListKept, Enrolments
    <2>4. ASSUME NEW s \in Requests PROVE ~Holds(s, request[r].u, Recovery)'
      BY <1>1, <2>1 DEF Enrolments, Holds
    <2>5. ASSUME NEW c \in Creds PROVE ~Bears(c, request[r].u, Recovery)'
      BY <1>2, <2>1 DEF Enrolments, Bears
    <2>. QED  BY <2>2, <2>3, <2>4, <2>5
  <1>. QED  BY <1>3 DEF Enrolments, ListKept

RequestQuiet(r) == RequestAged(r) /\ TicketKept(r) /\ CodeKept(r) /\ ListKept(r)
Aged == (\A u \in Users : RowAged(u)) /\ (\A c \in Creds : CredAged(c))
SpendingInv == AgeInv /\ ChallengesOnce /\ FactorInv

(* A step in which nothing is spent and no factor is given.                *)
LEMMA QuietStep ==
    ASSUME AccountsInv, AccountsInv', SpendingInv, Aged, \A u \in Users : RowQuiet(u),
           \A c \in Creds : CredPlain(c), \A r \in Requests : RequestQuiet(r),
           \A h \in Challenges : ChallengeAged(h)
    PROVE  Aged /\ SpendingInv'
  <1>1. \A u \in Users, k \in Nat : UsedUp(user, u, k) => UsedUp(user', u, k)
    BY UsedUpOn DEF Aged, AccountsInv
  <1>2. AgeInv'
    BY AgeOn DEF Aged, AccountsInv, SpendingInv, RequestQuiet
  <1>3. ChallengesOnce'
    BY TicketsOn DEF SpendingInv, RequestQuiet
  <1>4. RowsPlain'
    BY PlainOn DEF AccountsInv, SpendingInv, FactorInv
  <1>5. CodesOnce'
    BY <1>1, CodesOn DEF SpendingInv, FactorInv, RequestQuiet
  <1>6. Enrolments'
    <2>1. \A u \in Users : UsedUp(user, u, Recovery) => UsedUp(user', u, Recovery)
      BY <1>1 DEF Recovery
    <2>. QED  BY <2>1, EnrolmentsOn DEF AccountsInv, SpendingInv, FactorInv, RequestQuiet
  <1>. QED  BY <1>2, <1>3, <1>4, <1>5, <1>6 DEF SpendingInv, FactorInv

LEMMA RowsStill ==
    ASSUME AccountsInv, UNCHANGED user
    PROVE  \A u \in Users : RowAged(u) /\ RowQuiet(u)
  BY DEF AccountsInv, AccountsTypeOK, AccountRows, RowAged, RowQuiet

(* One row is written.                                                     *)
LEMMA RowWritten ==
    ASSUME AccountsInv, NEW u \in Users, NEW row, user' = [user EXCEPT ![u] = row]
    PROVE  /\ user'[u] = row
           /\ \A x \in Users \ {u} : RowAged(x) /\ RowQuiet(x)
  BY DEF AccountsInv, AccountsTypeOK, AccountRows, RowAged, RowQuiet

LEMMA CredsStill ==
    ASSUME UNCHANGED cred
    PROVE  \A c \in Creds : CredAged(c) /\ CredPlain(c)
  BY DEF CredAged, CredPlain, CredKept

LEMMA CredsEnded ==
    ASSUME AccountsInv,
           NEW table, cred' = table, \A c \in Creds : table[c] = cred[c] \/
              \E state \in {"revoked", "deleted"} : table[c] = [cred[c] EXCEPT !.state = state]
    PROVE  \A c \in Creds : CredAged(c) /\ CredPlain(c)
  <1>. SUFFICES ASSUME NEW c \in Creds PROVE CredAged(c) /\ CredPlain(c)
    OBVIOUS
  <1>1. cred[c] \in CredRows
    BY DEF AccountsInv, AccountsTypeOK
  <1>2. CASE cred'[c] = cred[c]
    BY <1>2 DEF CredAged, CredPlain, CredKept
  <1>3. ASSUME NEW state \in {"revoked", "deleted"}, cred'[c] = [cred[c] EXCEPT !.state = state]
        PROVE  CredAged(c) /\ CredPlain(c)
    <2>1. /\ cred'[c].state = state /\ cred'[c].kind = cred[c].kind /\ cred'[c].owner = cred[c].owner
          /\ cred'[c].version = cred[c].version /\ cred'[c].pass = cred[c].pass
          /\ cred'[c].ch = cred[c].ch /\ cred'[c].code = cred[c].code
      BY <1>1, <1>3 DEF CredRows
    <2>. QED  BY <2>1 DEF CredAged, CredPlain, CredKept
  <1>. QED  BY <1>2, <1>3

LEMMA CredMade ==
    ASSUME AccountsInv, NEW c \in Creds, NEW kind, NEW u \in Users, NEW version, NEW pass, NEW ch, NEW code,
           InsertCred(c, kind, u, version, pass, ch, code), Behind(user', u, version)
    PROVE  /\ \A d \in Creds : CredAged(d)
           /\ \A d \in Creds \ {c} : CredPlain(d) /\ cred'[d] = cred[d]
           /\ cred'[c].ch = ch /\ cred'[c].code = code /\ cred'[c].owner = u
           /\ ch = None /\ code = NoCode => CredPlain(c)
  <1>1. cred \in [Creds -> CredRows]
    BY DEF AccountsInv, AccountsTypeOK
  <1>2. /\ cred'[c].owner = u /\ cred'[c].version = version /\ cred'[c].ch = ch /\ cred'[c].code = code
        /\ cred'[c].state = "live" /\ cred[c].state = "free"
    BY <1>1 DEF InsertCred
  <1>3. \A d \in Creds \ {c} : cred'[d] = cred[d]
    BY <1>1 DEF InsertCred
  <1>4. \A d \in Creds \ {c} : CredAged(d) /\ CredPlain(d)
    BY <1>3 DEF CredAged, CredPlain, CredKept
  <1>5. CredAged(c)
    BY <1>2 DEF CredAged
  <1>6. ch = None /\ code = NoCode => CredPlain(c)
    BY <1>2 DEF CredPlain
  <1>. QED  BY <1>2, <1>3, <1>4, <1>5, <1>6

LEMMA StillAged ==
    ASSUME AccountsInv, AccountsInv', SpendingInv, \A u \in Users : RowAged(u),
           NEW r \in Requests, request'[r] = request[r]
    PROVE  RequestQuiet(r)
  <1>1. request[r] \in RequestRows /\ request[r].row.version \in Nat
    BY DEF AccountsInv, AccountsTypeOK, RequestRows, AccountRows
  <1>2. RequestAged(r)
    BY <1>1, BehindOn DEF RequestAged, SpendingInv, AgeInv, RequestsBehind, AccountsInv, RequestsCarry
  <1>3. TicketKept(r)
    BY DEF TicketKept, SpendingInv, ChallengesOnce
  <1>4. CodeKept(r)
    BY DEF CodeKept
  <1>5. ListKept(r)
    BY DEF ListKept, Storing, SpendingInv, FactorInv, Enrolments
  <1>. QED  BY <1>2, <1>3, <1>4, <1>5 DEF RequestQuiet

LEMMA RequestsStill ==
    ASSUME AccountsInv, AccountsInv', SpendingInv, \A u \in Users : RowAged(u), UNCHANGED request
    PROVE  \A r \in Requests : RequestQuiet(r)
  BY StillAged

(* One request moves.                                                      *)
LEMMA OneMoves ==
    ASSUME AccountsInv, AccountsInv', SpendingInv, \A u \in Users : RowAged(u),
           NEW r \in Requests, NEW q, request' = [request EXCEPT ![r] = q]
    PROVE  request'[r] = q /\ \A s \in Requests \ {r} : RequestQuiet(s) /\ request'[s] = request[s]
  <1>1. \A s \in Requests \ {r} : request'[s] = request[s]
    BY DEF AccountsInv, AccountsTypeOK
  <1>2. request'[r] = q
    BY DEF AccountsInv, AccountsTypeOK
  <1>. QED  BY <1>1, <1>2, StillAged

(* It ends, or begins without anything in hand.                            *)
LEMMA EmptyHanded ==
    ASSUME AccountsInv, AccountsInv', SpendingInv, \A u \in Users : RowAged(u),
           NEW r \in Requests, NEW q, request' = [request EXCEPT ![r] = q],
           \/ q.pc \in {"idle", "revoked", "login", "trusting"}
           \/ q.pc = "verify" /\ q.ch \in Challenges
           \/ q.pc \in {"changing", "deleting"} /\ Behind(user', q.u, q.row.version)
           \/ /\ q.pc = "running" /\ Behind(user', q.u, q.row.version)
              /\ NoCodesToStore(q.todo) /\ q.todo \notin {EnrolmentList, Tail(EnrolmentList)}
    PROVE  \A s \in Requests : RequestQuiet(s)
  <1>1. request'[r] = q /\ \A s \in Requests \ {r} : RequestQuiet(s)
    BY OneMoves
  <1>2. RequestQuiet(r)
    BY <1>1 DEF RequestQuiet, RequestAged, TicketKept, CodeKept, ListKept, Storing, Changing
  <1>. QED  BY <1>1, <1>2

LEMMA Ending ==
    ASSUME AccountsInv, AccountsInv', SpendingInv, \A u \in Users : RowAged(u), NEW r \in Requests, Finish(r)
    PROVE  \A s \in Requests : RequestQuiet(s)
  BY EmptyHanded, FreeTyped DEF Finish

LEMMA Lists ==
    /\ \A todo \in {EnrolmentList, Tail(EnrolmentList)} : ~NoCodesToStore(todo)
    /\ NoCodesToStore(Tail(Tail(EnrolmentList)))
  <1>1. /\ Len(EnrolmentList) = 7 /\ EnrolmentList # <<>> /\ EnrolmentList[2] = "recovery"
        /\ EnrolmentList \in Seq(Statements)
        /\ \A i \in 3 .. 7 : EnrolmentList[i] # "recovery"
    BY ListsTyped DEF EnrolmentList
  <1>2. PICK rest \in Seq(Statements) : rest = Tail(EnrolmentList)
    BY <1>1, HeadTailProperties
  <1>3. Len(rest) = 6 /\ \A i \in 1 .. 6 : rest[i] = EnrolmentList[i + 1]
    <2>1. /\ Len(rest) = Len(EnrolmentList) - 1
          /\ \A i \in 1 .. Len(rest) : rest[i] = EnrolmentList[i + 1]
      BY <1>1, <1>2, HeadTailProperties, Zenon
    <2>. QED  BY <1>1, <2>1
  <1>4. rest # <<>>
    <2>1. rest = <<>> => Len(rest) = 0
      OBVIOUS
    <2>. QED  BY <1>3, <2>1
  <1>5. PICK end \in Seq(Statements) : end = Tail(rest)
    BY <1>4, HeadTailProperties
  <1>6. Len(end) = 5 /\ \A i \in 1 .. 5 : end[i] = rest[i + 1]
    <2>1. Len(end) = Len(rest) - 1 /\ \A i \in 1 .. Len(end) : end[i] = rest[i + 1]
      BY <1>4, <1>5, HeadTailProperties, Zenon
    <2>. QED  BY <1>3, <2>1
  <1>7. \A i \in 1 .. 5 : end[i] = EnrolmentList[i + 2] /\ i + 2 \in 3 .. 7
    BY <1>3, <1>6
  <1>8. NoCodesToStore(end)
    BY <1>1, <1>6, <1>7 DEF NoCodesToStore
  <1>9. rest[1] = "recovery"
    BY <1>1, <1>3
  <1>10. ~NoCodesToStore(EnrolmentList) /\ ~NoCodesToStore(rest)
    BY <1>1, <1>3, <1>9 DEF NoCodesToStore
  <1>. QED  BY <1>2, <1>5, <1>8, <1>10

LEMMA OtherLists ==
    /\ NoCodesToStore(Everything) /\ NoCodesToStore(Everything \o <<"reload", "session">>)
    /\ NoCodesToStore(<<"browser", "mobile", "trusted", "disconnect">>)
    /\ NoCodesToStore(<<"browser", "mobile", "trusted", "disconnect", "reload", "session">>)
  <1>1. NoCodesToStore(Everything)
    BY DEF NoCodesToStore, Everything
  <1>2. Everything \in Seq(Statements) /\ Len(Everything) \in Nat
    BY ListsTyped
  <1>3. NoCodesToStore(Everything \o <<"reload", "session">>)
    <2>1. PICK more \in Seq(Statements) :
             more = <<"reload", "session">> /\ Len(more) = 2 /\ \A i \in 1 .. 2 : more[i] # "recovery"
      <3>1. <<"reload", "session">> \in Seq(Statements)
        BY DEF Statements
      <3>2. Len(<<"reload", "session">>) = 2
        OBVIOUS
      <3>3. \A i \in 1 .. 2 : <<"reload", "session">>[i] # "recovery"
        OBVIOUS
      <3>. QED  BY <3>1, <3>2, <3>3
    <2>2. \A i \in 1 .. Len(Everything) + 2 :
             (Everything \o more)[i] = IF i <= Len(Everything) THEN Everything[i] ELSE more[i - Len(Everything)]
      BY <1>2, <2>1, ConcatProperties
    <2>3. Len(Everything \o more) = Len(Everything) + 2
      BY <1>2, <2>1, ConcatProperties
    <2>4. ASSUME NEW i \in 1 .. Len(Everything) + 2 PROVE (Everything \o more)[i] # "recovery"
      <3>1. CASE i <= Len(Everything)
        BY <1>1, <1>2, <2>2, <3>1 DEF NoCodesToStore
      <3>2. CASE i > Len(Everything)
        <4>1. i - Len(Everything) \in 1 .. 2
          BY <1>2, <3>2
        <4>2. ~(i <= Len(Everything))
          BY <1>2, <3>2
        <4>3. (Everything \o more)[i] = more[i - Len(Everything)]
          BY <2>2, <4>2, Zenon
        <4>4. more[i - Len(Everything)] # "recovery"
          BY <2>1, <4>1, Zenon
        <4>. QED  BY <4>3, <4>4, Zenon
      <3>3. i <= Len(Everything) \/ i > Len(Everything)
        BY <1>2
      <3>. QED  BY <3>1, <3>2, <3>3, Zenon
    <2>. QED  BY <2>1, <2>3, <2>4 DEF NoCodesToStore
  <1>4. /\ NoCodesToStore(<<"browser", "mobile", "trusted", "disconnect">>)
        /\ NoCodesToStore(<<"browser", "mobile", "trusted", "disconnect", "reload", "session">>)
    BY DEF NoCodesToStore
  <1>. QED  BY <1>1, <1>3, <1>4

(* A handler begins its list.                                              *)
LEMMA ListBegins ==
    ASSUME AccountsInv, AccountsInv', SpendingInv, \A u \in Users : RowAged(u) /\ RowQuiet(u),
           NEW r \in Requests, NEW u \in Users, NEW code, NEW todo, ThenRun(r, u, 0, code, todo),
           NoCodesToStore(todo), Exists(u)
    PROVE  \A s \in Requests : RequestQuiet(s)
  <1>1. PICK q : q = [IdleRequest EXCEPT !.pc = "running", !.u = u, !.pass = 0, !.code = code, !.todo = todo]
    OBVIOUS
  <1>2. q.pc = "running" /\ q.u = u /\ q.todo = todo /\ q.row = FreeUser
    BY <1>1 DEF IdleRequest
  <1>3. request' = [request EXCEPT ![r] = q]
    BY <1>1 DEF ThenRun
  <1>4. Behind(user', q.u, q.row.version)
    <2>1. user'[u].role # "new"
      BY DEF RowAged, Exists
    <2>2. user'[u].version >= 1 /\ user'[u].version \in Nat
      BY PlainOn DEF SpendingInv, FactorInv, AccountsInv, AccountsTypeOK, AccountRows, RowsPlain
    <2>. QED  BY <1>2, <2>1, <2>2 DEF Behind, FreeUser
  <1>5. todo \notin {EnrolmentList, Tail(EnrolmentList)}
    BY Lists
  <1>. QED  BY <1>2, <1>3, <1>4, <1>5, EmptyHanded

(* A handler goes on with its list, but does not store the codes.          *)
LEMMA ListGoesOn ==
    ASSUME AccountsInv, AccountsInv', SpendingInv, \A u \in Users : RowAged(u),
           NEW r \in Requests, request[r].pc = "running", request[r].todo # <<>>,
           NEW row, row \in {request[r].row, user[request[r].u]},
           request' = [request EXCEPT ![r] = [request[r] EXCEPT !.todo = Tail(request[r].todo), !.row = row]],
           UNCHANGED user \/ row = request[r].row
    PROVE  \A s \in Requests : RequestQuiet(s)
  <1>1. request[r] \in RequestRows /\ request[r].u \in Users /\ request[r].todo \in Seq(Statements)
    BY DEF AccountsInv, AccountsTypeOK, RequestRows, RequestsCarry, Changing
  <1>2. PICK q : q = [request[r] EXCEPT !.todo = Tail(request[r].todo), !.row = row]
    OBVIOUS
  <1>3. q.pc = "running" /\ q.todo = Tail(request[r].todo) /\ q.u = request[r].u /\ q.row = row
    BY <1>1, <1>2 DEF RequestRows
  <1>4. request'[r] = q /\ \A s \in Requests \ {r} : RequestQuiet(s)
    BY <1>2, OneMoves
  <1>5. RequestAged(r)
    <2>1. request[r].row.version \in Nat /\ Behind(user, request[r].u, request[r].row.version)
      BY <1>1 DEF RequestRows, AccountRows, SpendingInv, AgeInv, RequestsBehind, Changing
    <2>2. Behind(user', request[r].u, request[r].row.version)
      BY <1>1, <2>1, BehindOn DEF AccountsInv
    <2>3. ASSUME UNCHANGED user PROVE Behind(user', request[r].u, user[request[r].u].version)
      BY <1>1, <2>1, <2>3 DEF Behind, AccountsInv, AccountsTypeOK, AccountRows
    <2>. QED  BY <1>3, <1>4, <2>2, <2>3 DEF RequestAged
  <1>6. ListKept(r)
    <2>1. CASE Storing(r)
      BY <1>3, <1>4, <2>1, Lists DEF ListKept, Storing
    <2>2. CASE ~Storing(r)
      <3>1. NoCodesToStore(request[r].todo)
        BY <2>2 DEF SpendingInv, FactorInv, Enrolments
      <3>2. NoCodesToStore(Tail(request[r].todo))
        BY <1>1, <3>1, HeadTailProperties DEF NoCodesToStore
      <3>. QED  BY <1>3, <1>4, <3>2, Lists DEF ListKept, Storing
    <2>. QED  BY <2>1, <2>2
  <1>7. TicketKept(r) /\ CodeKept(r)
    BY <1>3, <1>4 DEF TicketKept, CodeKept
  <1>. QED  BY <1>4, <1>5, <1>6, <1>7 DEF RequestQuiet

(* No challenge is opened again.                                          *)
LEMMA ChallengesStill ==
    ASSUME UNCHANGED challenge
    PROVE  \A h \in Challenges : ChallengeAged(h)
  BY DEF ChallengeAged, Spent

(* A row that moves on, or has a factor spent or dropped.                  *)
LEMMA RowChanged ==
    ASSUME AccountsInv, NEW u \in Users, NEW row \in AccountRows, user' = [user EXCEPT ![u] = row],
           row.role \in {"admin", "viewer"}, user[u].role \in {"admin", "viewer"},
           \/ user[u].version < row.version
           \/ row.version = user[u].version /\ row.role = user[u].role /\ row.disabled = user[u].disabled,
           user[u].counter <= row.counter, row.mfa = "never" <=> user[u].mfa = "never",
           row.recovery => user[u].recovery
    PROVE  \A x \in Users : RowAged(x) /\ RowQuiet(x)
  <1>1. user'[u] = row /\ \A x \in Users \ {u} : RowAged(x) /\ RowQuiet(x)
    BY RowWritten
  <1>2. user[u].version <= row.version
    BY DEF AccountsInv, AccountsTypeOK, AccountRows
  <1>3. RowAged(u)
    BY <1>1 DEF RowAged
  <1>4. RowQuiet(u)
    BY <1>1, <1>2 DEF RowQuiet
  <1>. QED  BY <1>1, <1>3, <1>4

LEMMA UpdateAges ==
    ASSUME AccountsInv, NEW u \in Users, NEW role \in {"admin", "viewer"}, NEW disabled \in BOOLEAN,
           NEW grant \in BOOLEAN, Exists(u), UpdateUser(u, role, disabled, grant)
    PROVE  \A x \in Users : RowAged(x) /\ RowQuiet(x)
  <1>1. user \in [Users -> AccountRows]
    BY DEF AccountsInv, AccountsTypeOK
  <1>2. PICK g \in BOOLEAN : g = (grant /\ role = "viewer")
    OBVIOUS
  <1>3. PICK row : row = [user[u] EXCEPT !.role = role, !.disabled = disabled, !.grant = g, !.version = @ + 1]
    OBVIOUS
  <1>4. /\ row.role = role /\ user[u].version < row.version /\ row.counter = user[u].counter
        /\ row.mfa = user[u].mfa /\ row.recovery = user[u].recovery
    BY <1>1, <1>3 DEF AccountRows
  <1>5. user' = [user EXCEPT ![u] = row]
    BY <1>1, <1>2, <1>3, ZenonT(40) DEF UpdateUser, Written
  <1>6. row \in AccountRows
    <2>1. user' \in [Users -> AccountRows]
      BY UpdatedOn
    <2>. QED  BY <1>1, <1>5, <2>1
  <1>7. user[u].counter <= row.counter
    BY <1>1, <1>4 DEF AccountRows
  <1>. QED  BY <1>4, <1>5, <1>6, <1>7, RowChanged DEF Exists

LEMMA IdentityAges ==
    ASSUME AccountsInv, NEW u \in Users, UpdateUserIdentity(u)
    PROVE  \A x \in Users : RowAged(x) /\ RowQuiet(x)
  <1>1. user \in [Users -> AccountRows]
    BY DEF AccountsInv, AccountsTypeOK
  <1>2. PICK row : row = [user[u] EXCEPT !.version = @ + 1]
    OBVIOUS
  <1>3. row \in AccountRows
    BY <1>1, <1>2 DEF AccountRows
  <1>4. /\ row.role = user[u].role /\ user[u].version < row.version /\ user[u].counter <= row.counter
        /\ row.mfa = user[u].mfa /\ row.recovery = user[u].recovery
    BY <1>1, <1>2 DEF AccountRows
  <1>5. user' = [user EXCEPT ![u] = row]
    BY <1>1, <1>2 DEF UpdateUserIdentity
  <1>. QED  BY <1>3, <1>4, <1>5, RowChanged DEF UpdateUserIdentity, Exists

LEMMA PasswordAges ==
    ASSUME AccountsInv, NEW u \in Users, NEW temp \in BOOLEAN, SetUserPassword(u, temp)
    PROVE  \A x \in Users : RowAged(x) /\ RowQuiet(x)
  <1>1. user \in [Users -> AccountRows]
    BY DEF AccountsInv, AccountsTypeOK
  <1>2. PICK row : row = [user[u] EXCEPT !.version = @ + 1, !.pass = user[u].version + 1, !.temp = temp]
    OBVIOUS
  <1>3. /\ row.role = user[u].role /\ user[u].version < row.version /\ user[u].counter <= row.counter
        /\ row.mfa = user[u].mfa /\ row.recovery = user[u].recovery
    BY <1>1, <1>2 DEF AccountRows
  <1>4. user' = [user EXCEPT ![u] = row]
    BY <1>1, <1>2 DEF SetUserPassword
  <1>5. row \in AccountRows
    <2>1. user' \in [Users -> AccountRows]
      BY PasswordOn
    <2>. QED  BY <1>1, <1>4, <2>1
  <1>. QED  BY <1>3, <1>4, <1>5, RowChanged DEF SetUserPassword, Exists

LEMMA CounterAges ==
    ASSUME AccountsInv, NEW u \in Users, Exists(u), NEW n \in Nat, user[u].counter <= n,
           user' = [user EXCEPT ![u].counter = n]
    PROVE  user'[u].counter = n /\ \A x \in Users : RowAged(x) /\ RowQuiet(x)
  <1>1. user \in [Users -> AccountRows]
    BY DEF AccountsInv, AccountsTypeOK
  <1>2. PICK row : row = [user[u] EXCEPT !.counter = n]
    OBVIOUS
  <1>3. row \in AccountRows
    BY <1>1, <1>2 DEF AccountRows
  <1>4. /\ row.role = user[u].role /\ row.disabled = user[u].disabled /\ row.version = user[u].version
        /\ row.counter = n /\ row.mfa = user[u].mfa /\ row.recovery = user[u].recovery
    BY <1>1, <1>2 DEF AccountRows
  <1>5. user' = [user EXCEPT ![u] = row]
    BY <1>1, <1>2
  <1>6. user'[u] = row
    BY <1>1, <1>5
  <1>. QED  BY <1>3, <1>4, <1>5, <1>6, RowChanged DEF Exists

LEMMA RecoveryAges ==
    ASSUME AccountsInv, NEW u \in Users, Exists(u), user' = [user EXCEPT ![u].recovery = FALSE]
    PROVE  ~user'[u].recovery /\ \A x \in Users : RowAged(x) /\ RowQuiet(x)
  <1>1. user \in [Users -> AccountRows]
    BY DEF AccountsInv, AccountsTypeOK
  <1>2. PICK row : row = [user[u] EXCEPT !.recovery = FALSE]
    OBVIOUS
  <1>3. row \in AccountRows
    BY <1>1, <1>2 DEF AccountRows
  <1>4. /\ row.role = user[u].role /\ row.disabled = user[u].disabled /\ row.version = user[u].version
        /\ user[u].counter <= row.counter /\ row.mfa = user[u].mfa /\ ~row.recovery
    BY <1>1, <1>2 DEF AccountRows
  <1>5. user' = [user EXCEPT ![u] = row]
    BY <1>1, <1>2
  <1>6. user'[u] = row
    BY <1>1, <1>5
  <1>7. ~user'[u].recovery
    BY <1>4, <1>6
  <1>8. \A x \in Users : RowAged(x) /\ RowQuiet(x)
    BY <1>3, <1>4, <1>5, RowChanged DEF Exists
  <1>. QED  BY <1>7, <1>8

LEMMA FactorDropAges ==
    ASSUME AccountsInv, NEW u \in Users, Exists(u), user[u].mfa = "on",
           user' = [user EXCEPT ![u].mfa = "off", ![u].recovery = FALSE]
    PROVE  \A x \in Users : RowAged(x) /\ RowQuiet(x)
  <1>1. user \in [Users -> AccountRows]
    BY DEF AccountsInv, AccountsTypeOK
  <1>2. PICK row : row = [user[u] EXCEPT !.mfa = "off", !.recovery = FALSE]
    OBVIOUS
  <1>3. row \in AccountRows
    BY <1>1, <1>2 DEF AccountRows
  <1>4. /\ row.role = user[u].role /\ row.disabled = user[u].disabled /\ row.version = user[u].version
        /\ user[u].counter <= row.counter /\ row.mfa = "off" /\ ~row.recovery
    BY <1>1, <1>2 DEF AccountRows
  <1>5. user' = [user EXCEPT ![u] = row]
    BY <1>1, <1>2
  <1>. QED  BY <1>3, <1>4, <1>5, RowChanged DEF Exists

\* A row with a factor is the row of an account.
LEMMA FactorOfAccount ==
    ASSUME AccountsInv, SpendingInv, NEW u \in Users, user[u].mfa = "on" \/ user[u].recovery
    PROVE  Exists(u)
  <1>1. user[u].role \in {"new", "admin", "viewer", "gone"}
    BY DEF AccountsInv, AccountsTypeOK, AccountRows
  <1>. QED  BY <1>1 DEF SpendingInv, FactorInv, RowsPlain, Exists

(* The second factor is enrolled.                                          *)
LEMMA ConfirmSpends ==
    ASSUME AccountsInv, AccountsInv', SpendingInv, NEW r \in Requests, NEW u \in Users, V2MFAConfirm(r, u, 1)
    PROVE  Aged /\ SpendingInv'
  <1>1. user \in [Users -> AccountRows]
    BY DEF AccountsInv, AccountsTypeOK
  <1>2. PICK row : row = [user[u] EXCEPT !.mfa = "on", !.counter = 0]
    OBVIOUS
  <1>3. /\ row.role = user[u].role /\ row.disabled = user[u].disabled /\ row.version = user[u].version
        /\ row.mfa = "on" /\ row.recovery = user[u].recovery /\ Exists(u) /\ user[u].mfa = "never"
    BY <1>1, <1>2 DEF AccountRows, V2MFAConfirm
  <1>4. user' = [user EXCEPT ![u] = row]
    BY <1>1, <1>2 DEF V2MFAConfirm
  <1>5. user'[u] = row /\ \A x \in Users \ {u} : RowAged(x) /\ RowQuiet(x)
    BY <1>4, RowWritten
  <1>6. RowAged(u)
    BY <1>3, <1>5 DEF RowAged, Exists
  <1>7. \A x \in Users : RowAged(x)
    BY <1>5, <1>6
  <1>8. PICK q : q = [IdleRequest EXCEPT !.pc = "running", !.u = u, !.pass = 0, !.code = 1, !.todo = EnrolmentList]
    OBVIOUS
  <1>9. q.pc = "running" /\ q.u = u /\ q.todo = EnrolmentList /\ q.row = FreeUser
    BY <1>8 DEF IdleRequest
  <1>10. request' = [request EXCEPT ![r] = q]
    BY <1>8 DEF V2MFAConfirm, ThenRun, EnrolmentList
  <1>11. request'[r] = q /\ \A s \in Requests \ {r} : RequestQuiet(s) /\ request'[s] = request[s]
    BY <1>7, <1>10, OneMoves
  <1>12. user[u].version >= 1 /\ ~user[u].recovery /\ user[u].version \in Nat
    BY <1>1, <1>3 DEF SpendingInv, FactorInv, RowsPlain, AccountRows
  <1>13. RequestAged(r) /\ TicketKept(r) /\ CodeKept(r)
    BY <1>3, <1>5, <1>9, <1>11, <1>12 DEF RequestAged, TicketKept, CodeKept, Behind, FreeUser, Exists
  <1>14. \A c \in Creds : CredAged(c) /\ CredPlain(c)
    BY CredsStill DEF V2MFAConfirm
  <1>15. \A h \in Challenges : ChallengeAged(h)
    BY ChallengesStill DEF V2MFAConfirm
  <1>16. AgeInv' /\ ChallengesOnce'
    BY <1>7, <1>11, <1>13, <1>14, <1>15, AgeOn, TicketsOn DEF AccountsInv, SpendingInv, RequestQuiet
  <1>17. \A k \in Nat : ~UsedUp(user, u, k)
    BY <1>3 DEF UsedUp, Exists
  <1>18. ASSUME NEW x \in Users, NEW k \in Nat, UsedUp(user, x, k) PROVE UsedUp(user', x, k)
    BY <1>5, <1>7, <1>17, <1>18, UsedUpOn DEF AccountsInv
  <1>19. CodesOnce'
    BY <1>11, <1>13, <1>14, <1>18, CodesOn DEF SpendingInv, FactorInv, RequestQuiet
  <1>20. RowsPlain'
    <2>. SUFFICES ASSUME NEW x \in Users
                  PROVE  /\ user'[x].version >= 1
                         /\ user'[x].role \in {"new", "gone"} => user'[x].mfa = "never"
                         /\ user'[x].mfa = "never" => ~user'[x].recovery
      BY DEF RowsPlain
    <2>1. CASE x = u
      BY <1>3, <1>5, <1>12, <2>1 DEF Exists
    <2>2. CASE x # u
      BY <1>1, <1>4, <2>2 DEF SpendingInv, FactorInv, RowsPlain
    <2>. QED  BY <2>1, <2>2
  <1>21. Enrolments'
    <2>1. Recovery \in Nat
      BY DEF Recovery
    <2>2. /\ \A s \in Requests : ~Holds(s, u, Recovery)
          /\ \A c \in Creds : ~Bears(c, u, Recovery)
          /\ \A s \in Requests : Storing(s) => request[s].u # u
      BY <1>17, <2>1 DEF SpendingInv, FactorInv, CodesOnce, Enrolments, Storing
    <2>3. \A s \in Requests, x \in Users : Holds(s, x, Recovery)' => Holds(s, x, Recovery)
      BY <1>9, <1>11 DEF Holds
    <2>4. \A c \in Creds, x \in Users : Bears(c, x, Recovery)' => Bears(c, x, Recovery)
      BY DEF V2MFAConfirm, Bears, NoCode
    <2>5. \A s \in Requests \ {r} : Storing(s)' => Storing(s) /\ request'[s].u = request[s].u
      BY <1>11 DEF Storing
    <2>6. UsedUp(user', u, Recovery)
      BY <1>3, <1>5, <1>12 DEF UsedUp, Exists, Recovery
    <2>7. ASSUME NEW s \in Requests, Storing(s)'
          PROVE  /\ UsedUp(user', request'[s].u, Recovery)
                 /\ \A t \in Requests \ {s} : Storing(t)' => request'[t].u # request'[s].u
                 /\ \A t \in Requests : ~Holds(t, request[s].u, Recovery)'
                 /\ \A c \in Creds : ~Bears(c, request[s].u, Recovery)'
      <3>1. CASE s = r
        BY <1>9, <1>11, <2>2, <2>3, <2>4, <2>5, <2>6, <3>1 DEF Holds, Bears
      <3>2. CASE s # r
        <4>1. /\ Storing(s) /\ request'[s].u = request[s].u /\ request[s].pc = "running"
              /\ request[s].u \in Users
          BY <2>5, <2>7, <3>2 DEF Storing, AccountsInv, RequestsCarry, Changing
        <4>2. UsedUp(user', request[s].u, Recovery)
          BY <1>18, <2>1, <4>1 DEF SpendingInv, FactorInv, Enrolments
        <4>3. ASSUME NEW t \in Requests \ {s}, Storing(t)' PROVE request'[t].u # request[s].u
          <5>1. CASE t = r
            BY <1>9, <1>11, <2>2, <4>1, <5>1
          <5>2. CASE t # r
            BY <2>5, <4>1, <4>3, <5>2 DEF SpendingInv, FactorInv, Enrolments
          <5>. QED  BY <5>1, <5>2
        <4>4. ASSUME NEW t \in Requests PROVE ~Holds(t, request[s].u, Recovery)'
          BY <2>3, <4>1 DEF SpendingInv, FactorInv, Enrolments, Holds
        <4>5. ASSUME NEW c \in Creds PROVE ~Bears(c, request[s].u, Recovery)'
          BY <2>4, <4>1 DEF SpendingInv, FactorInv, Enrolments, Bears
        <4>. QED  BY <4>1, <4>2, <4>3, <4>4, <4>5
      <3>. QED  BY <3>1, <3>2
    <2>8. ASSUME NEW s \in Requests, request'[s].pc = "running"
          PROVE  Storing(s)' \/ NoCodesToStore(request'[s].todo)
      BY <1>9, <1>11, <2>8 DEF Storing, RequestQuiet, ListKept
    <2>. QED  BY <2>7, <2>8 DEF Enrolments
  <1>. QED  BY <1>7, <1>14, <1>16, <1>19, <1>20, <1>21 DEF Aged, SpendingInv, FactorInv

LEMMA AccountStepSpends ==
    ASSUME AccountsInv, AccountsInv', SpendingInv, NEW r \in Requests, AccountStep(r)
    PROVE  Aged /\ SpendingInv'
  <1>1. ASSUME NEW u \in Users, NEW role \in {"admin", "viewer"}, NEW disabled \in BOOLEAN,
               NEW grant \in BOOLEAN, V2UpdateStudioUser(r, u, role, disabled, grant)
        PROVE  Aged /\ SpendingInv'
    <2>1. \A x \in Users : RowAged(x) /\ RowQuiet(x)
      BY <1>1, UpdateAges DEF V2UpdateStudioUser
    <2>2. \A s \in Requests : RequestQuiet(s)
      BY <1>1, <2>1, ListBegins, OtherLists DEF V2UpdateStudioUser
    <2>. QED  BY <1>1, <2>1, <2>2, CredsStill, ChallengesStill, QuietStep DEF V2UpdateStudioUser, Aged
  <1>2. ASSUME NEW u \in Users, V2DeleteStudioUser(r, u) PROVE Aged /\ SpendingInv'
    <2>1. \A x \in Users : RowAged(x) /\ RowQuiet(x)
      BY <1>2, RowsStill DEF V2DeleteStudioUser
    <2>2. PICK q : q = [IdleRequest EXCEPT !.pc = "deleting", !.u = u]
      OBVIOUS
    <2>3. q.pc = "deleting" /\ q.u = u /\ q.row = FreeUser
      BY <2>2 DEF IdleRequest
    <2>4. request' = [request EXCEPT ![r] = q]
      BY <1>2, <2>2 DEF V2DeleteStudioUser
    <2>5. Behind(user', u, FreeUser.version)
      BY <1>2 DEF V2DeleteStudioUser, Behind, FreeUser, SpendingInv, FactorInv, RowsPlain, Exists
    <2>6. \A s \in Requests : RequestQuiet(s)
      BY <2>1, <2>3, <2>4, <2>5, EmptyHanded
    <2>. QED  BY <1>2, <2>1, <2>6, CredsStill, ChallengesStill, QuietStep DEF V2DeleteStudioUser, Aged
  <1>3. ASSUME NEW u \in Users, V2UpdateStudioUserProfile(r, u) \/ V2UpdateAccountProfile(r, u)
        PROVE  Aged /\ SpendingInv'
    <2>1. UpdateUserIdentity(u) /\ Exists(u) /\ UNCHANGED <<cred, challenge>>
      BY <1>3 DEF V2UpdateStudioUserProfile, V2UpdateAccountProfile, UpdateUserIdentity
    <2>2. \A x \in Users : RowAged(x) /\ RowQuiet(x)
      BY <2>1, IdentityAges
    <2>3. \A s \in Requests : RequestQuiet(s)
      BY <1>3, <2>1, <2>2, ListBegins, OtherLists DEF V2UpdateStudioUserProfile, V2UpdateAccountProfile
    <2>. QED  BY <2>1, <2>2, <2>3, CredsStill, ChallengesStill, QuietStep DEF Aged
  <1>4. ASSUME NEW u \in Users, V2ResetStudioUserPassword(r, u) PROVE Aged /\ SpendingInv'
    <2>1. \A x \in Users : RowAged(x) /\ RowQuiet(x)
      BY <1>4, PasswordAges DEF V2ResetStudioUserPassword
    <2>2. \A s \in Requests : RequestQuiet(s)
      BY <1>4, <2>1, ListBegins, OtherLists DEF V2ResetStudioUserPassword, SetUserPassword
    <2>. QED  BY <1>4, <2>1, <2>2, CredsStill, ChallengesStill, QuietStep DEF V2ResetStudioUserPassword, Aged
  <1>5. ASSUME NEW u \in Users, V2ChangePassword(r, u) PROVE Aged /\ SpendingInv'
    <2>1. \A x \in Users : RowAged(x) /\ RowQuiet(x)
      <3>1. CASE UNCHANGED user
        BY <3>1, RowsStill
      <3>2. CASE user' \in FactorSpent(u)
        <4>1. ASSUME NEW code \in (user[u].counter + 1) .. MaxCode, user' = [user EXCEPT ![u].counter = code]
              PROVE  \A x \in Users : RowAged(x) /\ RowQuiet(x)
          <5>1. user[u].counter \in Nat
            BY DEF AccountsInv, AccountsTypeOK, AccountRows
          <5>2. code \in Nat /\ user[u].counter <= code
            BY <5>1, AccountsAssumption
          <5>. QED  BY <1>5, <4>1, <5>2, CounterAges DEF V2ChangePassword
        <4>2. CASE user' = [user EXCEPT ![u].recovery = FALSE]
          BY <1>5, <4>2, RecoveryAges DEF V2ChangePassword
        <4>. QED  BY <3>2, <4>1, <4>2 DEF FactorSpent
      <3>. QED  BY <1>5, <3>1, <3>2 DEF V2ChangePassword
    <2>2. PICK q : q = [IdleRequest EXCEPT !.pc = "changing", !.u = u]
      OBVIOUS
    <2>3. q.pc = "changing" /\ q.u = u /\ q.row = FreeUser
      BY <2>2 DEF IdleRequest
    <2>4. request' = [request EXCEPT ![r] = q]
      BY <1>5, <2>2 DEF V2ChangePassword
    <2>5. Behind(user, u, FreeUser.version)
      BY <1>5 DEF V2ChangePassword, Behind, FreeUser, SpendingInv, FactorInv, RowsPlain, Exists
    <2>6. FreeUser.version \in Nat
      BY DEF FreeUser
    <2>7. Behind(user', u, FreeUser.version)
      BY <2>1, <2>5, <2>6, BehindOn DEF AccountsInv
    <2>8. \A s \in Requests : RequestQuiet(s)
      BY <2>1, <2>3, <2>4, <2>7, EmptyHanded
    <2>. QED  BY <1>5, <2>1, <2>8, CredsStill, ChallengesStill, QuietStep DEF V2ChangePassword, Aged
  <1>6. ASSUME NEW u \in Users, V2MFADisable(r, u) \/ V2ResetStudioUserMFA(r, u) PROVE Aged /\ SpendingInv'
    <2>1. DisableMFA(u) /\ Exists(u) /\ UNCHANGED <<cred, challenge>>
      BY <1>6 DEF V2MFADisable, V2ResetStudioUserMFA, DisableMFA
    <2>2. \A x \in Users : RowAged(x) /\ RowQuiet(x)
      BY <2>1, FactorDropAges DEF DisableMFA
    <2>3. \A s \in Requests : RequestQuiet(s)
      BY <1>6, <2>1, <2>2, ListBegins, OtherLists DEF V2MFADisable, V2ResetStudioUserMFA
    <2>. QED  BY <2>1, <2>2, <2>3, CredsStill, ChallengesStill, QuietStep DEF Aged
  <1>7. CASE DeleteUser(r)
    <2>1. CASE UNCHANGED <<user, cred, challenge>>
      BY <1>7, <2>1, RowsStill, CredsStill, ChallengesStill, Ending, QuietStep DEF DeleteUser, Aged
    <2>2. CASE ~UNCHANGED <<user, cred, challenge>>
      <3>1. PICK u \in Users : u = request[r].u
        BY <1>7 DEF DeleteUser, AccountsInv, RequestsCarry, Changing
      <3>2. PICK row : row = [FreeUser EXCEPT !.role = "gone"]
        OBVIOUS
      <3>3. row.role = "gone" /\ row.version >= 1 /\ row.mfa = "never" /\ ~row.recovery
        BY <3>2 DEF FreeUser
      <3>4. /\ user' = [user EXCEPT ![u] = row]
            /\ cred' = Cascade(cred, u) /\ challenge' = Cascade(challenge, u)
        BY <1>7, <2>2, <3>1, <3>2 DEF DeleteUser
      <3>5. user'[u] = row /\ \A x \in Users \ {u} : RowAged(x) /\ RowQuiet(x)
        BY <3>4, RowWritten
      <3>6. RowAged(u) /\ RowQuiet(u)
        BY <3>3, <3>5 DEF RowAged, RowQuiet
      <3>7. \A x \in Users : RowAged(x) /\ RowQuiet(x)
        BY <3>5, <3>6
      <3>8. \A c \in Creds : CredAged(c) /\ CredPlain(c)
        <4>1. cred \in [Creds -> CredRows]
          BY DEF AccountsInv, AccountsTypeOK
        <4>2. \A c \in Creds : Cascade(cred, u)[c] = cred[c] \/
                 \E state \in {"revoked", "deleted"} : Cascade(cred, u)[c] = [cred[c] EXCEPT !.state = state]
          BY <4>1 DEF Cascade
        <4>. QED  BY <3>4, <4>2, CredsEnded
      <3>9. \A h \in Challenges : ChallengeAged(h)
        <4>1. challenge \in [Challenges -> ChallengeRows]
          BY DEF AccountsInv, AccountsTypeOK
        <4>. QED  BY <3>4, <4>1 DEF Cascade, ChallengeAged, Spent, ChallengeRows
      <3>. QED  BY <1>7, <3>7, <3>8, <3>9, Ending, QuietStep DEF DeleteUser, Aged
    <2>. QED  BY <2>1, <2>2
  <1>8. CASE WriteNewPassword(r)
    <2>1. PICK u \in Users : u = request[r].u
      BY <1>8 DEF WriteNewPassword, AccountsInv, RequestsCarry, Changing
    <2>2. SetUserPassword(u, FALSE) /\ Exists(u)
      BY <1>8, <2>1 DEF WriteNewPassword, SetUserPassword
    <2>3. \A x \in Users : RowAged(x) /\ RowQuiet(x)
      BY <2>2, PasswordAges
    <2>4. \A s \in Requests : RequestQuiet(s)
      BY <1>8, <2>1, <2>2, <2>3, ListBegins, OtherLists DEF WriteNewPassword
    <2>. QED  BY <1>8, <2>3, <2>4, CredsStill, ChallengesStill, QuietStep DEF WriteNewPassword, Aged
  <1>. QED  BY <1>1, <1>2, <1>3, <1>4, <1>5, <1>6, <1>7, <1>8, ConfirmSpends DEF AccountStep

LEMMA RestGoesOn ==
    ASSUME AccountsInv, AccountsInv', SpendingInv, \A u \in Users : RowAged(u),
           NEW r \in Requests, request[r].pc = "running", request[r].todo # <<>>, request' = Rest(r)
    PROVE  \A s \in Requests : RequestQuiet(s)
  <1>1. request[r] \in RequestRows
    BY DEF AccountsInv, AccountsTypeOK
  <1>2. PICK row : row = request[r].row
    OBVIOUS
  <1>3. [request[r] EXCEPT !.todo = Tail(@)] = [request[r] EXCEPT !.todo = Tail(request[r].todo), !.row = row]
    BY <1>1, <1>2 DEF RequestRows
  <1>4. request' = [request EXCEPT ![r] = [request[r] EXCEPT !.todo = Tail(request[r].todo), !.row = row]]
    BY <1>3 DEF Rest
  <1>. QED  BY <1>2, <1>4, ListGoesOn

(* The recovery codes are stored, for the first time.                      *)
LEMMA StoredSpends ==
    ASSUME AccountsInv, AccountsInv', SpendingInv, NEW r \in Requests, NEW u \in Users, u = request[r].u,
           request[r].pc = "running", request[r].todo # <<>>, Head(request[r].todo) = "recovery", Exists(u),
           user' = [user EXCEPT ![u].recovery = TRUE], request' = Rest(r), UNCHANGED <<cred, challenge>>
    PROVE  Aged /\ SpendingInv'
  <1>1. user \in [Users -> AccountRows] /\ request[r].todo \in Seq(Statements)
    BY DEF AccountsInv, AccountsTypeOK, RequestRows
  <1>2. Storing(r)
    <2>1. ~NoCodesToStore(request[r].todo)
      BY <1>1 DEF NoCodesToStore
    <2>. QED  BY <2>1 DEF SpendingInv, FactorInv, Enrolments
  <1>3. PICK row : row = [user[u] EXCEPT !.recovery = TRUE]
    OBVIOUS
  <1>4. /\ row.role = user[u].role /\ row.disabled = user[u].disabled /\ row.version = user[u].version
        /\ row.mfa = user[u].mfa /\ row.counter = user[u].counter
    BY <1>1, <1>3 DEF AccountRows
  <1>5. user' = [user EXCEPT ![u] = row]
    BY <1>1, <1>3
  <1>6. user'[u] = row /\ \A x \in Users \ {u} : RowAged(x) /\ RowQuiet(x)
    BY <1>5, RowWritten
  <1>7. \A x \in Users : RowAged(x)
    BY <1>4, <1>6 DEF RowAged, Exists
  <1>8. \A s \in Requests : RequestQuiet(s)
    BY <1>7, RestGoesOn
  <1>9. /\ \A c \in Creds : CredAged(c) /\ CredPlain(c)
        /\ \A h \in Challenges : ChallengeAged(h)
    BY CredsStill, ChallengesStill
  <1>10. AgeInv' /\ ChallengesOnce'
    BY <1>7, <1>8, <1>9, AgeOn, TicketsOn DEF AccountsInv, SpendingInv, RequestQuiet
  <1>11. user[u].mfa # "never"
    BY <1>2 DEF SpendingInv, FactorInv, Enrolments, UsedUp, Exists
  <1>12. RowsPlain'
    <2>. SUFFICES ASSUME NEW x \in Users
                  PROVE  /\ user'[x].version >= 1
                         /\ user'[x].role \in {"new", "gone"} => user'[x].mfa = "never"
                         /\ user'[x].mfa = "never" => ~user'[x].recovery
      BY DEF RowsPlain
    <2>1. CASE x = u
      BY <1>4, <1>6, <1>11, <2>1 DEF Exists, SpendingInv, FactorInv, RowsPlain
    <2>2. CASE x # u
      BY <1>1, <1>5, <2>2 DEF SpendingInv, FactorInv, RowsPlain
    <2>. QED  BY <2>1, <2>2
  <1>13. ASSUME NEW x \in Users, NEW k \in Nat, UsedUp(user, x, k), x # u \/ k # Recovery
         PROVE  UsedUp(user', x, k)
    <2>1. CASE x = u
      BY <1>4, <1>6, <1>13, <2>1 DEF UsedUp
    <2>2. CASE x # u
      BY <1>6, <1>7, <1>13, <2>2, UsedUpOn DEF AccountsInv
    <2>. QED  BY <2>1, <2>2
  <1>14. /\ \A s \in Requests : ~Holds(s, u, Recovery)
         /\ \A c \in Creds : ~Bears(c, u, Recovery)
         /\ \A s \in Requests \ {r} : Storing(s) => request[s].u # u
    BY <1>2 DEF SpendingInv, FactorInv, Enrolments
  <1>15. \A s \in Requests, x \in Users, k \in Nat : Holds(s, x, k)' => Holds(s, x, k)
    BY <1>8 DEF RequestQuiet, CodeKept, Holds
  <1>16. \A c \in Creds, x \in Users, k \in Nat : Bears(c, x, k)' => Bears(c, x, k)
    BY DEF Bears, NoCode
  <1>17. CodesOnce'
    <2>1. ASSUME NEW s \in Requests, NEW x \in Users, NEW k \in Nat, Holds(s, x, k)'
          PROVE  /\ UsedUp(user', x, k)
                 /\ \A t \in Requests \ {s} : ~Holds(t, x, k)'
                 /\ \A c \in Creds : ~Bears(c, x, k)'
      <3>1. Holds(s, x, k) /\ (x # u \/ k # Recovery)
        BY <1>14, <1>15, <2>1
      <3>2. UsedUp(user, x, k) /\ (\A t \in Requests \ {s} : ~Holds(t, x, k)) /\ (\A c \in Creds : ~Bears(c, x, k))
        BY <3>1 DEF SpendingInv, FactorInv, CodesOnce
      <3>3. \A t \in Requests \ {s} : ~Holds(t, x, k)'
        BY <1>15, <3>2
      <3>4. \A c \in Creds : ~Bears(c, x, k)'
        BY <1>16, <3>2
      <3>. QED  BY <1>13, <3>1, <3>2, <3>3, <3>4
    <2>2. ASSUME NEW c \in Creds, NEW x \in Users, NEW k \in Nat, Bears(c, x, k)'
          PROVE  UsedUp(user', x, k) /\ \A d \in Creds \ {c} : ~Bears(d, x, k)'
      <3>1. Bears(c, x, k) /\ (x # u \/ k # Recovery)
        BY <1>14, <1>16, <2>2
      <3>2. UsedUp(user, x, k) /\ \A d \in Creds \ {c} : ~Bears(d, x, k)
        BY <3>1 DEF SpendingInv, FactorInv, CodesOnce
      <3>3. \A d \in Creds \ {c} : ~Bears(d, x, k)'
        BY <1>16, <3>2
      <3>. QED  BY <1>13, <3>1, <3>2, <3>3
    <2>3. \A c \in Creds : cred'[c].code # NoCode => cred'[c].owner \in Users
      BY DEF SpendingInv, FactorInv, CodesOnce
    <2>. QED  BY <2>1, <2>2, <2>3 DEF CodesOnce, NoCode
  <1>18. Enrolments'
    <2>1. Recovery \in Nat
      BY DEF Recovery
    <2>2. ASSUME NEW s \in Requests, request'[s].pc = "running"
          PROVE  Storing(s)' \/ NoCodesToStore(request'[s].todo)
      BY <1>8, <2>2 DEF RequestQuiet, ListKept
    <2>3. ~Storing(r)'
      <3>1. request'[r].todo = Tail(request[r].todo)
        BY DEF Rest, AccountsInv, AccountsTypeOK, RequestRows
      <3>2. request[r].todo # EnrolmentList
        BY DEF EnrolmentList
      <3>3. request[r].todo = Tail(EnrolmentList)
        BY <1>2, <3>2 DEF Storing
      <3>. QED  BY <3>1, <3>3, Lists DEF Storing
    <2>4. ASSUME NEW s \in Requests, Storing(s)'
          PROVE  /\ UsedUp(user', request'[s].u, Recovery)
                 /\ \A t \in Requests \ {s} : Storing(t)' => request'[t].u # request'[s].u
                 /\ \A t \in Requests : ~Holds(t, request[s].u, Recovery)'
                 /\ \A c \in Creds : ~Bears(c, request[s].u, Recovery)'
      <3>1. s # r
        BY <2>3, <2>4
      <3>2. /\ Storing(s) /\ request'[s].u = request[s].u /\ request[s].pc = "running"
            /\ request[s].u \in Users /\ request[s].u # u
        BY <1>8, <1>14, <2>4, <3>1 DEF RequestQuiet, ListKept, Storing, AccountsInv, RequestsCarry, Changing
      <3>3. UsedUp(user', request[s].u, Recovery)
        BY <1>13, <2>1, <3>2 DEF SpendingInv, FactorInv, Enrolments
      <3>4. ASSUME NEW t \in Requests \ {s}, Storing(t)' PROVE request'[t].u # request[s].u
        BY <1>8, <3>2, <3>4 DEF RequestQuiet, ListKept, SpendingInv, FactorInv, Enrolments
      <3>5. ASSUME NEW t \in Requests PROVE ~Holds(t, request[s].u, Recovery)'
        BY <1>15, <2>1, <3>2 DEF SpendingInv, FactorInv, Enrolments, Holds
      <3>6. ASSUME NEW c \in Creds PROVE ~Bears(c, request[s].u, Recovery)'
        BY <1>16, <2>1, <3>2 DEF SpendingInv, FactorInv, Enrolments, Bears
      <3>. QED  BY <3>2, <3>3, <3>4, <3>5, <3>6
    <2>. QED  BY <2>2, <2>4 DEF Enrolments
  <1>. QED  BY <1>7, <1>9, <1>10, <1>12, <1>17, <1>18 DEF Aged, SpendingInv, FactorInv

(* A session that no second factor was spent on.                           *)
LEMMA PlainSession ==
    ASSUME AccountsInv, AccountsInv', SpendingInv, UNCHANGED <<user, challenge>>,
           NEW c \in Creds, NEW kind, NEW u \in Users, NEW version \in Nat, NEW pass,
           InsertCred(c, kind, u, version, pass, None, NoCode), Behind(user, u, version),
           \A s \in Requests : RequestQuiet(s)
    PROVE  Aged /\ SpendingInv'
  <1>1. \A x \in Users : RowAged(x) /\ RowQuiet(x)
    BY RowsStill
  <1>2. Behind(user', u, version)
    OBVIOUS
  <1>3. \A d \in Creds : CredAged(d) /\ CredPlain(d)
    BY <1>2, CredMade
  <1>. QED  BY <1>1, <1>3, ChallengesStill, QuietStep DEF Aged

LEMMA FollowStepSpends ==
    ASSUME AccountsInv, AccountsInv', SpendingInv, NEW r \in Requests, FollowStep(r)
    PROVE  Aged /\ SpendingInv'
  <1>1. CASE RunRevocation(r)
    <2>1. \A x \in Users : RowAged(x) /\ RowQuiet(x)
      BY <1>1, RowsStill DEF RunRevocation
    <2>2. \A c \in Creds : CredAged(c) /\ CredPlain(c)
      <3>1. CASE UNCHANGED cred
        BY <3>1, CredsStill
      <3>2. ASSUME NEW u, NEW kind, cred' = RevokeUser(cred, u, kind) PROVE \A c \in Creds : CredAged(c) /\ CredPlain(c)
        <4>1. \A c \in Creds : RevokeUser(cred, u, kind)[c] = cred[c] \/
                 \E state \in {"revoked", "deleted"} : RevokeUser(cred, u, kind)[c] = [cred[c] EXCEPT !.state = state]
          BY DEF RevokeUser
        <4>. QED  BY <3>2, <4>1, CredsEnded
      <3>. QED  BY <1>1, <3>1, <3>2 DEF RunRevocation
    <2>3. \A s \in Requests : RequestQuiet(s)
      BY <1>1, <2>1, RestGoesOn DEF RunRevocation
    <2>. QED  BY <1>1, <2>1, <2>2, <2>3, ChallengesStill, QuietStep DEF RunRevocation, Aged
  <1>2. CASE RunDisconnect(r)
    BY <1>2, RowsStill, CredsStill, ChallengesStill, RestGoesOn, QuietStep DEF RunDisconnect, Aged
  <1>3. CASE RunEnrolment(r)
    <2>1. PICK u \in Users : u = request[r].u
      BY <1>3 DEF RunEnrolment, AccountsInv, RequestsCarry, Changing
    <2>2. ASSUME user' = IF user[u].mfa = "on" /\ user[u].counter < request[r].code
                         THEN [user EXCEPT ![u].counter = request[r].code] ELSE user,
                 request' = Rest(r)
          PROVE  Aged /\ SpendingInv'
      <3>1. \A x \in Users : RowAged(x) /\ RowQuiet(x)
        <4>1. CASE UNCHANGED user
          BY <4>1, RowsStill
        <4>2. CASE user[u].mfa = "on" /\ user[u].counter < request[r].code
          <5>1. request[r].code \in Nat /\ user[u].counter \in Nat
            BY DEF AccountsInv, AccountsTypeOK, RequestRows, AccountRows
          <5>2. user[u].counter <= request[r].code
            BY <4>2, <5>1
          <5>. QED  BY <2>2, <4>2, <5>1, <5>2, FactorOfAccount, CounterAges
        <4>. QED  BY <2>2, <4>1, <4>2
      <3>2. \A s \in Requests : RequestQuiet(s)
        BY <1>3, <2>2, <3>1, RestGoesOn DEF RunEnrolment
      <3>. QED  BY <1>3, <3>1, <3>2, CredsStill, ChallengesStill, QuietStep DEF RunEnrolment, Aged
    <2>3. ASSUME Head(request[r].todo) = "recovery", Exists(u), user' = [user EXCEPT ![u].recovery = TRUE],
                 request' = Rest(r)
          PROVE  Aged /\ SpendingInv'
      BY <1>3, <2>1, <2>3, StoredSpends DEF RunEnrolment
    <2>4. ASSUME user' = IF user[u].mfa = "on"
                         THEN [user EXCEPT ![u].mfa = "off", ![u].recovery = FALSE] ELSE user,
                 Finish(r)
          PROVE  Aged /\ SpendingInv'
      <3>1. \A x \in Users : RowAged(x) /\ RowQuiet(x)
        <4>1. CASE UNCHANGED user
          BY <4>1, RowsStill
        <4>2. CASE user[u].mfa = "on"
          BY <2>4, <4>2, FactorOfAccount, FactorDropAges
        <4>. QED  BY <2>4, <4>1, <4>2
      <3>. QED  BY <1>3, <2>4, <3>1, Ending, CredsStill, ChallengesStill, QuietStep DEF RunEnrolment, Aged
    <2>. QED  BY <1>3, <2>1, <2>2, <2>3, <2>4 DEF RunEnrolment
  <1>4. CASE RunReload(r)
    <2>1. \A x \in Users : RowAged(x) /\ RowQuiet(x)
      BY <1>4, RowsStill DEF RunReload
    <2>2. PICK row : row = user[request[r].u]
      OBVIOUS
    <2>3. request[r] \in RequestRows
      BY DEF AccountsInv, AccountsTypeOK
    <2>4. request' = [request EXCEPT ![r] = [request[r] EXCEPT !.todo = Tail(request[r].todo), !.row = row]]
      BY <1>4, <2>2, <2>3 DEF RunReload, RequestRows
    <2>5. \A s \in Requests : RequestQuiet(s)
      BY <1>4, <2>1, <2>2, <2>4, ListGoesOn DEF RunReload
    <2>. QED  BY <1>4, <2>1, <2>5, CredsStill, ChallengesStill, QuietStep DEF RunReload, Aged
  <1>5. CASE RunEnds(r)
    BY <1>5, RowsStill, CredsStill, ChallengesStill, Ending, QuietStep DEF RunEnds, Aged
  <1>6. ASSUME NEW c \in Creds, NEW kind, RunSession(r, c, kind) PROVE Aged /\ SpendingInv'
    <2>1. /\ request[r].u \in Users /\ Behind(user, request[r].u, request[r].row.version)
          /\ request[r].row.version \in Nat
      BY <1>6 DEF RunSession, AccountsInv, AccountsTypeOK, RequestRows, AccountRows, RequestsCarry, Changing,
                  SpendingInv, AgeInv, RequestsBehind
    <2>2. \A s \in Requests : RequestQuiet(s)
      BY <1>6, RowsStill, Ending DEF RunSession
    <2>. QED  BY <1>6, <2>1, <2>2, PlainSession DEF RunSession
  <1>. QED  BY <1>1, <1>2, <1>3, <1>4, <1>5, <1>6 DEF FollowStep

(* A code that was not used up is proved.                                  *)
LEMMA ProvedSpends ==
    ASSUME AccountsInv, AccountsInv', SpendingInv, \A x \in Users : RowAged(x) /\ RowQuiet(x),
           UNCHANGED <<cred, challenge>>, NEW r \in Requests, request[r].pc = "verify", NEW k \in Nat, NEW u \in Users,
           u = request[r].u, ~UsedUp(user, u, k), UsedUp(user', u, k),
           request' = [request EXCEPT ![r] = [request[r] EXCEPT !.pc = "proved", !.code = k]]
    PROVE  Aged /\ SpendingInv'
  <1>1. request[r] \in RequestRows
    BY DEF AccountsInv, AccountsTypeOK
  <1>2. PICK q : q = [request[r] EXCEPT !.pc = "proved", !.code = k]
    OBVIOUS
  <1>3. q.pc = "proved" /\ q.code = k /\ q.u = u /\ q.ch = request[r].ch
    BY <1>1, <1>2 DEF RequestRows
  <1>4. request'[r] = q /\ \A s \in Requests \ {r} : RequestQuiet(s) /\ request'[s] = request[s]
    BY <1>2, OneMoves
  <1>5. RequestAged(r) /\ TicketKept(r) /\ ListKept(r)
    BY <1>3, <1>4 DEF RequestAged, TicketKept, ListKept, Storing, Changing, SpendingInv, ChallengesOnce
  <1>6. /\ \A c \in Creds : CredAged(c) /\ CredPlain(c)
        /\ \A h \in Challenges : ChallengeAged(h)
    BY CredsStill, ChallengesStill
  <1>7. AgeInv' /\ ChallengesOnce' /\ RowsPlain'
    BY <1>4, <1>5, <1>6, AgeOn, TicketsOn, PlainOn DEF AccountsInv, SpendingInv, FactorInv, RequestQuiet
  <1>8. \A x \in Users, n \in Nat : UsedUp(user, x, n) => UsedUp(user', x, n)
    BY UsedUpOn DEF AccountsInv
  <1>9. \A s \in Requests, x \in Users, n \in Nat :
           Holds(s, x, n)' => Holds(s, x, n) \/ (s = r /\ x = u /\ n = k)
    BY <1>3, <1>4 DEF Holds
  <1>10. \A c \in Creds, x \in Users, n \in Nat : Bears(c, x, n)' => Bears(c, x, n)
    BY DEF Bears, NoCode
  <1>11. /\ \A s \in Requests : ~Holds(s, u, k)
         /\ \A c \in Creds : ~Bears(c, u, k)
    BY DEF SpendingInv, FactorInv, CodesOnce
  <1>12. CodesOnce'
    <2>1. ASSUME NEW s \in Requests, NEW x \in Users, NEW n \in Nat, Holds(s, x, n)'
          PROVE  /\ UsedUp(user', x, n)
                 /\ \A t \in Requests \ {s} : ~Holds(t, x, n)'
                 /\ \A c \in Creds : ~Bears(c, x, n)'
      <3>1. CASE x = u /\ n = k
        BY <1>9, <1>10, <1>11, <2>1, <3>1
      <3>2. CASE ~(x = u /\ n = k)
        <4>1. Holds(s, x, n)
          BY <1>9, <2>1, <3>2
        <4>2. /\ UsedUp(user, x, n) /\ \A t \in Requests \ {s} : ~Holds(t, x, n)
              /\ \A c \in Creds : ~Bears(c, x, n)
          BY <4>1 DEF SpendingInv, FactorInv, CodesOnce
        <4>. QED  BY <1>8, <1>9, <1>10, <3>2, <4>2
      <3>. QED  BY <3>1, <3>2
    <2>2. ASSUME NEW c \in Creds, NEW x \in Users, NEW n \in Nat, Bears(c, x, n)'
          PROVE  UsedUp(user', x, n) /\ \A d \in Creds \ {c} : ~Bears(d, x, n)'
      BY <1>8, <1>10, <2>2 DEF SpendingInv, FactorInv, CodesOnce
    <2>3. \A c \in Creds : cred'[c].code # NoCode => cred'[c].owner \in Users
      BY DEF SpendingInv, FactorInv, CodesOnce
    <2>. QED  BY <2>1, <2>2, <2>3 DEF CodesOnce, NoCode
  <1>13. Enrolments'
    <2>1. Recovery \in Nat
      BY DEF Recovery
    <2>2. \A s \in Requests : ListKept(s)
      BY <1>4, <1>5 DEF RequestQuiet
    <2>3. ASSUME NEW s \in Requests, Storing(s)'
          PROVE  /\ UsedUp(user', request'[s].u, Recovery)
                 /\ \A t \in Requests \ {s} : Storing(t)' => request'[t].u # request'[s].u
                 /\ \A t \in Requests : ~Holds(t, request[s].u, Recovery)'
                 /\ \A c \in Creds : ~Bears(c, request[s].u, Recovery)'
      <3>1. /\ Storing(s) /\ request'[s].u = request[s].u /\ request[s].pc = "running"
            /\ request[s].u \in Users
        BY <2>2, <2>3 DEF ListKept, Storing, AccountsInv, RequestsCarry, Changing
      <3>2. UsedUp(user, request[s].u, Recovery)
        BY <3>1 DEF SpendingInv, FactorInv, Enrolments
      <3>3. ASSUME NEW t \in Requests \ {s}, Storing(t)' PROVE request'[t].u # request[s].u
        BY <2>2, <3>1, <3>3 DEF ListKept, SpendingInv, FactorInv, Enrolments
      <3>4. ASSUME NEW t \in Requests PROVE ~Holds(t, request[s].u, Recovery)'
        <4>1. ~Holds(t, request[s].u, Recovery)
          BY <3>1 DEF SpendingInv, FactorInv, Enrolments
        <4>. QED  BY <1>9, <2>1, <3>1, <3>2, <4>1 DEF Holds
      <3>5. ASSUME NEW c \in Creds PROVE ~Bears(c, request[s].u, Recovery)'
        BY <1>10, <2>1, <3>1 DEF SpendingInv, FactorInv, Enrolments, Bears
      <3>. QED  BY <1>8, <2>1, <3>1, <3>2, <3>3, <3>4, <3>5
    <2>. QED  BY <2>2, <2>3 DEF Enrolments, ListKept
  <1>. QED  BY <1>6, <1>7, <1>12, <1>13 DEF Aged, SpendingInv, FactorInv

(* A challenge that was open is consumed.                                  *)
LEMMA ConsumeSpends ==
    ASSUME AccountsInv, AccountsInv', SpendingInv, NEW r \in Requests, ConsumeLoginChallenge(r)
    PROVE  Aged /\ SpendingInv'
  <1>1. \A x \in Users : RowAged(x) /\ RowQuiet(x)
    BY RowsStill DEF ConsumeLoginChallenge
  <1>2. \A c \in Creds : CredAged(c) /\ CredPlain(c)
    BY CredsStill DEF ConsumeLoginChallenge
  <1>3. CASE Finish(r) /\ UNCHANGED challenge
    BY <1>1, <1>2, <1>3, Ending, ChallengesStill, QuietStep DEF Aged
  <1>4. CASE ~(Finish(r) /\ UNCHANGED challenge)
    <2>1. PICK h \in Challenges : h = request[r].ch
      BY DEF ConsumeLoginChallenge, SpendingInv, ChallengesOnce
    <2>2. /\ request[r].pc = "proved" /\ challenge[h].state = "open"
          /\ challenge' = [challenge EXCEPT ![h].state = "consumed"]
          /\ request' = [request EXCEPT ![r].pc = "consumed"] /\ UNCHANGED cred
      BY <1>4, <2>1 DEF ConsumeLoginChallenge
    <2>3. request \in [Requests -> RequestRows] /\ challenge \in [Challenges -> ChallengeRows]
      BY DEF AccountsInv, AccountsTypeOK
    <2>4. PICK q : q = [request[r] EXCEPT !.pc = "consumed"]
      OBVIOUS
    <2>5. q.pc = "consumed" /\ q.u = request[r].u /\ q.code = request[r].code /\ q.ch = h
      BY <2>1, <2>3, <2>4 DEF RequestRows
    <2>6. request' = [request EXCEPT ![r] = q]
      BY <2>2, <2>3, <2>4
    <2>7. request'[r] = q /\ \A s \in Requests \ {r} : RequestQuiet(s) /\ request'[s] = request[s]
      BY <1>1, <2>6, OneMoves
    <2>8. RequestAged(r) /\ CodeKept(r) /\ ListKept(r)
      BY <2>2, <2>5, <2>7 DEF RequestAged, CodeKept, ListKept, Storing, Changing
    <2>9. AgeInv' /\ RowsPlain'
      BY <1>1, <1>2, <2>7, <2>8, AgeOn, PlainOn DEF AccountsInv, SpendingInv, FactorInv, RequestQuiet
    <2>10. \A x \in Users, k \in Nat : UsedUp(user, x, k) => UsedUp(user', x, k)
      BY <1>1, UsedUpOn DEF AccountsInv
    <2>11. CodesOnce'
      BY <1>2, <2>7, <2>8, <2>10, CodesOn DEF SpendingInv, FactorInv, RequestQuiet
    <2>12. Enrolments'
      <3>1. \A x \in Users : UsedUp(user, x, Recovery) => UsedUp(user', x, Recovery)
        BY <2>10 DEF Recovery
      <3>. QED  BY <1>2, <2>7, <2>8, <3>1, EnrolmentsOn DEF AccountsInv, SpendingInv, FactorInv, RequestQuiet
    <2>13. Spent(h)' /\ \A x \in Challenges : Spent(x) => Spent(x)'
      BY <2>2, <2>3 DEF Spent
    <2>14. ~Spent(h)
      BY <2>2 DEF Spent
    <2>15. /\ \A s \in Requests : request[s].pc = "consumed" => request[s].ch # h
           /\ \A c \in Creds : cred[c].ch # None => cred[c].ch # h
      BY <2>14 DEF SpendingInv, ChallengesOnce
    <2>16. ChallengesOnce'
      <3>1. ASSUME NEW s \in Requests
            PROVE  /\ request'[s].pc \in {"verify", "proved", "consumed"} => request'[s].ch \in Challenges
                   /\ request'[s].pc = "consumed" =>
                         /\ Spent(request[s].ch)'
                         /\ \A t \in Requests \ {s} : request'[t].pc = "consumed" => request'[t].ch # request'[s].ch
                         /\ \A c \in Creds : cred'[c].ch # None => cred'[c].ch # request'[s].ch
        <4>1. CASE s = r
          <5>1. Spent(request[r].ch)'
            BY <2>5, <2>7, <2>13 DEF Spent
          <5>2. request'[r].ch = h
            BY <2>5, <2>7
          <5>3. \A t \in Requests \ {r} : request'[t].pc = "consumed" => request'[t].ch # h
            BY <2>7, <2>15
          <5>4. \A c \in Creds : cred'[c].ch # None => cred'[c].ch # h
            BY <2>2, <2>15
          <5>. QED  BY <2>1, <4>1, <5>1, <5>2, <5>3, <5>4
        <4>2. CASE s # r
          <5>1. request'[s] = request[s]
            BY <2>7, <4>2
          <5>2. request'[s].pc \in {"verify", "proved", "consumed"} => request'[s].ch \in Challenges
            BY <5>1 DEF SpendingInv, ChallengesOnce
          <5>3. ASSUME request'[s].pc = "consumed"
                PROVE  /\ Spent(request[s].ch)'
                       /\ \A t \in Requests \ {s} : request'[t].pc = "consumed" => request'[t].ch # request'[s].ch
                       /\ \A c \in Creds : cred'[c].ch # None => cred'[c].ch # request'[s].ch
            <6>1. request[s].ch \in Challenges /\ Spent(request[s].ch)
              BY <5>1, <5>3 DEF SpendingInv, ChallengesOnce
            <6>2. Spent(request[s].ch)'
              BY <2>13, <5>1, <6>1 DEF Spent
            <6>3. ASSUME NEW t \in Requests \ {s}, request'[t].pc = "consumed" PROVE request'[t].ch # request'[s].ch
              BY <2>5, <2>7, <2>15, <5>1, <5>3, <6>3 DEF SpendingInv, ChallengesOnce
            <6>4. ASSUME NEW c \in Creds, cred'[c].ch # None PROVE cred'[c].ch # request'[s].ch
              BY <2>2, <5>1, <5>3, <6>4 DEF SpendingInv, ChallengesOnce
            <6>. QED  BY <6>2, <6>3, <6>4
          <5>. QED  BY <5>2, <5>3
        <4>. QED  BY <4>1, <4>2
      <3>2. ASSUME NEW c \in Creds, cred'[c].ch # None
            PROVE  /\ cred'[c].ch \in Challenges /\ Spent(cred[c].ch)'
                   /\ \A d \in Creds \ {c} : cred'[d].ch # cred'[c].ch
        <4>1. cred[c].ch \in Challenges /\ Spent(cred[c].ch) /\ \A d \in Creds \ {c} : cred[d].ch # cred[c].ch
          BY <2>2, <3>2 DEF SpendingInv, ChallengesOnce
        <4>2. Spent(cred[c].ch)'
          BY <2>2, <2>13, <4>1 DEF Spent
        <4>. QED  BY <2>2, <4>1, <4>2
      <3>. QED  BY <3>1, <3>2 DEF ChallengesOnce
    <2>. QED  BY <1>1, <1>2, <2>9, <2>11, <2>12, <2>16 DEF Aged, SpendingInv, FactorInv
  <1>. QED  BY <1>3, <1>4

(* A session takes over what its sign-in spent.                            *)
LEMMA CompleteSpends ==
    ASSUME AccountsInv, AccountsInv', SpendingInv, NEW r \in Requests, NEW c \in Creds, NEW trust \in BOOLEAN,
           CompleteSession(r, c, trust)
    PROVE  Aged /\ SpendingInv'
  <1>1. \A x \in Users : RowAged(x) /\ RowQuiet(x)
    BY RowsStill DEF CompleteSession
  <1>2. PICK q \in RequestRows : q = request[r]
    BY DEF AccountsInv, AccountsTypeOK
  <1>3. q.pc = "consumed" /\ q.ch \in Challenges
    BY <1>2 DEF CompleteSession, SpendingInv, ChallengesOnce
  <1>4. PICK u \in Users : u = q.u
    BY <1>2, <1>3 DEF AccountsInv, RequestsCarry, SigningIn
  <1>5. Behind(user, u, q.row.version)
    BY <1>2, <1>3, <1>4 DEF AccountsInv, RequestsCarry, SigningIn, Carries, Behind
  <1>6. InsertCred(c, q.kind, u, q.row.version, q.pass, q.ch, q.code) /\ UNCHANGED <<user, challenge>>
    BY <1>2, <1>4 DEF CompleteSession
  <1>7. Behind(user', u, q.row.version)
    BY <1>5, <1>6
  <1>8. /\ \A d \in Creds : CredAged(d)
        /\ \A d \in Creds \ {c} : cred'[d] = cred[d]
        /\ cred'[c].ch = q.ch /\ cred'[c].code = q.code /\ cred'[c].owner = u
    <2>1. PICK kind, version, pass, ch, code : kind = q.kind /\ version = q.row.version /\ pass = q.pass
                                              /\ ch = q.ch /\ code = q.code
      OBVIOUS
    <2>2. InsertCred(c, kind, u, version, pass, ch, code) /\ Behind(user', u, version)
      BY <1>6, <1>7, <2>1
    <2>3. /\ \A d \in Creds : CredAged(d)
          /\ \A d \in Creds \ {c} : cred'[d] = cred[d]
          /\ cred'[c].ch = ch /\ cred'[c].code = code /\ cred'[c].owner = u
      <3>1. \A d \in Creds : CredAged(d)
        BY <2>2, CredMade
      <3>2. \A d \in Creds \ {c} : cred'[d] = cred[d]
        BY <2>2, CredMade
      <3>3. cred'[c].ch = ch /\ cred'[c].code = code /\ cred'[c].owner = u
        <4>1. cred \in [Creds -> CredRows]
          BY DEF AccountsInv, AccountsTypeOK
        <4>. QED  BY <2>2, <4>1 DEF InsertCred
      <3>. QED  BY <3>1, <3>2, <3>3
    <2>. QED  BY <2>1, <2>3
  <1>9. \A s \in Requests : RequestQuiet(s)
    <2>1. PICK next : request' = [request EXCEPT ![r] = next] /\ next.pc \in {"idle", "trusting"}
      <3>1. CASE request' = [request EXCEPT ![r] = IdleRequest]
        BY <3>1, FreeTyped
      <3>2. CASE request' = [request EXCEPT ![r].pc = "trusting"]
        <4>1. PICK next : next = [q EXCEPT !.pc = "trusting"]
          OBVIOUS
        <4>2. next.pc = "trusting"
          BY <4>1 DEF RequestRows
        <4>3. request' = [request EXCEPT ![r] = next]
          BY <1>2, <3>2, <4>1
        <4>. QED  BY <4>2, <4>3
      <3>. QED  BY <3>1, <3>2 DEF CompleteSession
    <2>. QED  BY <1>1, <2>1, EmptyHanded
  <1>10. request'[r].pc \notin {"proved", "consumed"}
    BY <1>2 DEF CompleteSession, IdleRequest, AccountsInv, AccountsTypeOK, RequestRows
  <1>11. AgeInv' /\ RowsPlain'
    BY <1>1, <1>8, <1>9, AgeOn, PlainOn DEF AccountsInv, SpendingInv, FactorInv, RequestQuiet
  <1>12. ChallengesOnce'
    <2>1. /\ Spent(q.ch) /\ \A s \in Requests \ {r} : request[s].pc = "consumed" => request[s].ch # q.ch
          /\ \A d \in Creds : cred[d].ch # None => cred[d].ch # q.ch
      BY <1>2, <1>3 DEF SpendingInv, ChallengesOnce
    <2>2. \A h \in Challenges : Spent(h) => Spent(h)'
      BY <1>6 DEF Spent
    <2>3. ASSUME NEW s \in Requests
          PROVE  /\ request'[s].pc \in {"verify", "proved", "consumed"} => request'[s].ch \in Challenges
                 /\ request'[s].pc = "consumed" =>
                       /\ Spent(request[s].ch)'
                       /\ \A t \in Requests \ {s} : request'[t].pc = "consumed" => request'[t].ch # request'[s].ch
                       /\ \A d \in Creds : cred'[d].ch # None => cred'[d].ch # request'[s].ch
      <3>1. request'[s].pc \in {"verify", "proved", "consumed"} => request'[s].ch \in Challenges
        BY <1>9 DEF RequestQuiet, TicketKept
      <3>2. ASSUME request'[s].pc = "consumed"
            PROVE  /\ Spent(request[s].ch)'
                   /\ \A t \in Requests \ {s} : request'[t].pc = "consumed" => request'[t].ch # request'[s].ch
                   /\ \A d \in Creds : cred'[d].ch # None => cred'[d].ch # request'[s].ch
        <4>1. s # r /\ request[s].pc = "consumed" /\ request'[s].ch = request[s].ch
          BY <1>9, <1>10, <3>2 DEF RequestQuiet, TicketKept
        <4>2. request[s].ch \in Challenges /\ Spent(request[s].ch)
          BY <4>1 DEF SpendingInv, ChallengesOnce
        <4>3. Spent(request[s].ch)'
          BY <2>2, <4>1, <4>2 DEF Spent
        <4>4. ASSUME NEW t \in Requests \ {s}, request'[t].pc = "consumed" PROVE request'[t].ch # request'[s].ch
          BY <1>9, <4>1, <4>4 DEF RequestQuiet, TicketKept, SpendingInv, ChallengesOnce
        <4>5. ASSUME NEW d \in Creds, cred'[d].ch # None PROVE cred'[d].ch # request'[s].ch
          <5>1. CASE d = c
            BY <1>8, <2>1, <4>1, <5>1
          <5>2. CASE d # c
            BY <1>8, <4>1, <4>5, <5>2 DEF SpendingInv, ChallengesOnce
          <5>. QED  BY <5>1, <5>2
        <4>. QED  BY <4>3, <4>4, <4>5
      <3>. QED  BY <3>1, <3>2
    <2>4. ASSUME NEW d \in Creds, cred'[d].ch # None
          PROVE  /\ cred'[d].ch \in Challenges /\ Spent(cred[d].ch)'
                 /\ \A e \in Creds \ {d} : cred'[e].ch # cred'[d].ch
      <3>1. CASE d = c
        <4>1. Spent(cred[d].ch)'
          BY <1>3, <1>8, <2>1, <2>2, <3>1 DEF Spent
        <4>2. ASSUME NEW e \in Creds \ {d} PROVE cred'[e].ch # cred'[d].ch
          BY <1>8, <2>1, <2>4, <3>1, <4>2
        <4>. QED  BY <1>3, <1>8, <3>1, <4>1, <4>2
      <3>2. CASE d # c
        <4>1. /\ cred'[d] = cred[d] /\ cred[d].ch \in Challenges /\ Spent(cred[d].ch)
              /\ \A e \in Creds \ {d} : cred[e].ch # cred[d].ch
          BY <1>8, <2>4, <3>2 DEF SpendingInv, ChallengesOnce
        <4>2. Spent(cred[d].ch)'
          BY <2>2, <4>1 DEF Spent
        <4>3. ASSUME NEW e \in Creds \ {d} PROVE cred'[e].ch # cred'[d].ch
          <5>1. CASE e = c
            BY <1>8, <2>1, <2>4, <4>1, <5>1
          <5>2. CASE e # c
            BY <1>8, <4>1, <5>2
          <5>. QED  BY <5>1, <5>2
        <4>. QED  BY <4>1, <4>2, <4>3
      <3>. QED  BY <3>1, <3>2
    <2>. QED  BY <2>3, <2>4 DEF ChallengesOnce
  <1>13. Holds(r, u, q.code) /\ q.code \in Nat
    BY <1>2, <1>3, <1>4 DEF Holds, RequestRows
  <1>14. \A s \in Requests, x \in Users, k \in Nat : Holds(s, x, k)' => Holds(s, x, k) /\ s # r
    BY <1>9, <1>10 DEF RequestQuiet, CodeKept, Holds
  <1>15. \A d \in Creds, x \in Users, k \in Nat :
            Bears(d, x, k)' => (d # c /\ Bears(d, x, k)) \/ (d = c /\ x = u /\ k = q.code)
    BY <1>8 DEF Bears, NoCode
  <1>16. CodesOnce'
    <2>1. ASSUME NEW s \in Requests, NEW x \in Users, NEW k \in Nat, Holds(s, x, k)'
          PROVE  /\ UsedUp(user', x, k)
                 /\ \A t \in Requests \ {s} : ~Holds(t, x, k)'
                 /\ \A d \in Creds : ~Bears(d, x, k)'
      <3>1. /\ s # r /\ UsedUp(user', x, k) /\ \A t \in Requests \ {s} : ~Holds(t, x, k)
            /\ \A d \in Creds : ~Bears(d, x, k)
        BY <1>6, <1>14, <2>1 DEF SpendingInv, FactorInv, CodesOnce
      <3>2. \A d \in Creds : ~Bears(d, x, k)'
        BY <1>13, <1>15, <3>1
      <3>. QED  BY <1>14, <3>1, <3>2
    <2>2. ASSUME NEW d \in Creds, NEW x \in Users, NEW k \in Nat, Bears(d, x, k)'
          PROVE  UsedUp(user', x, k) /\ \A e \in Creds \ {d} : ~Bears(e, x, k)'
      <3>1. CASE d = c
        <4>1. x = u /\ k = q.code
          BY <1>15, <2>2, <3>1
        <4>2. UsedUp(user, x, k) /\ \A e \in Creds : ~Bears(e, x, k)
          BY <1>13, <4>1 DEF SpendingInv, FactorInv, CodesOnce
        <4>. QED  BY <1>6, <1>15, <3>1, <4>2
      <3>2. CASE d # c
        <4>1. Bears(d, x, k)
          BY <1>15, <2>2, <3>2
        <4>2. /\ UsedUp(user, x, k) /\ \A e \in Creds \ {d} : ~Bears(e, x, k)
              /\ ~(x = u /\ k = q.code)
          BY <1>13, <4>1 DEF SpendingInv, FactorInv, CodesOnce
        <4>. QED  BY <1>6, <1>15, <4>2
      <3>. QED  BY <3>1, <3>2
    <2>3. \A d \in Creds : cred'[d].code # NoCode => cred'[d].owner \in Users
      BY <1>8 DEF SpendingInv, FactorInv, CodesOnce
    <2>. QED  BY <2>1, <2>2, <2>3 DEF CodesOnce, NoCode
  <1>17. Enrolments'
    <2>1. Recovery \in Nat
      BY DEF Recovery
    <2>2. ASSUME NEW s \in Requests, Storing(s)'
          PROVE  /\ UsedUp(user', request'[s].u, Recovery)
                 /\ \A t \in Requests \ {s} : Storing(t)' => request'[t].u # request'[s].u
                 /\ \A t \in Requests : ~Holds(t, request[s].u, Recovery)'
                 /\ \A d \in Creds : ~Bears(d, request[s].u, Recovery)'
      <3>1. /\ Storing(s) /\ request'[s].u = request[s].u /\ request[s].pc = "running"
            /\ request[s].u \in Users
        BY <1>9, <2>2 DEF RequestQuiet, ListKept, Storing, AccountsInv, RequestsCarry, Changing
      <3>2. /\ UsedUp(user, request[s].u, Recovery)
            /\ \A t \in Requests : ~Holds(t, request[s].u, Recovery)
            /\ \A d \in Creds : ~Bears(d, request[s].u, Recovery)
        BY <3>1 DEF SpendingInv, FactorInv, Enrolments
      <3>3. ASSUME NEW t \in Requests \ {s}, Storing(t)' PROVE request'[t].u # request[s].u
        BY <1>9, <3>1, <3>3 DEF RequestQuiet, ListKept, SpendingInv, FactorInv, Enrolments
      <3>4. ASSUME NEW t \in Requests PROVE ~Holds(t, request[s].u, Recovery)'
        BY <1>14, <2>1, <3>1, <3>2 DEF Holds
      <3>5. ~(request[s].u = u /\ Recovery = q.code)
        BY <1>13, <3>2
      <3>6. ASSUME NEW d \in Creds PROVE ~Bears(d, request[s].u, Recovery)'
        BY <1>15, <2>1, <3>1, <3>2, <3>5 DEF Bears
      <3>. QED  BY <1>6, <3>1, <3>2, <3>3, <3>4, <3>6
    <2>. QED  BY <1>9, <2>2 DEF Enrolments, RequestQuiet, ListKept
  <1>. QED  BY <1>1, <1>8, <1>11, <1>12, <1>16, <1>17 DEF Aged, SpendingInv, FactorInv

(* A sign-in begins.                                                       *)
LEMMA LookupSpends ==
    ASSUME AccountsInv, AccountsInv', SpendingInv, NEW r \in Requests, UNCHANGED <<user, cred, challenge>>,
           NEW q, request' = [request EXCEPT ![r] = q],
           q.pc = "login" \/ (q.pc = "verify" /\ q.ch \in Challenges)
    PROVE  Aged /\ SpendingInv'
  <1>1. \A x \in Users : RowAged(x) /\ RowQuiet(x)
    BY RowsStill
  <1>2. \A s \in Requests : RequestQuiet(s)
    BY <1>1, EmptyHanded
  <1>. QED  BY <1>1, <1>2, CredsStill, ChallengesStill, QuietStep DEF Aged

LEMMA SignInStepSpends ==
    ASSUME AccountsInv, AccountsInv', SpendingInv, NEW r \in Requests, SignInStep(r)
    PROVE  Aged /\ SpendingInv'
  <1>1. ASSUME NEW u \in Users, NEW kind, LoginLookup(r, u, kind) PROVE Aged /\ SpendingInv'
    <2>1. PICK q : q = [IdleRequest EXCEPT !.pc = "login", !.u = u, !.row = user[u],
                                           !.kind = kind, !.pass = user[u].pass]
      OBVIOUS
    <2>2. q.pc = "login"
      BY <2>1 DEF IdleRequest
    <2>3. request' = [request EXCEPT ![r] = q]
      BY <1>1, <2>1 DEF LoginLookup
    <2>. QED  BY <1>1, <2>2, <2>3, LookupSpends DEF LoginLookup
  <1>2. ASSUME NEW h \in Challenges, NEW kind, CompleteLookup(r, h, kind) PROVE Aged /\ SpendingInv'
    <2>1. PICK q : q = [IdleRequest EXCEPT !.pc = "verify", !.u = challenge[h].owner, !.row = user[challenge[h].owner],
                                           !.kind = kind, !.ch = h, !.pass = challenge[h].pass]
      OBVIOUS
    <2>2. q.pc = "verify" /\ q.ch = h
      BY <2>1 DEF IdleRequest
    <2>3. request' = [request EXCEPT ![r] = q]
      BY <1>2, <2>1 DEF CompleteLookup
    <2>. QED  BY <1>2, <2>2, <2>3, LookupSpends DEF CompleteLookup
  <1>3. ASSUME NEW c \in Creds, LoginSession(r, c) \/ CreateTrustedBrowser(r, c) PROVE Aged /\ SpendingInv'
    <2>1. PICK kind, u, version, pass : /\ kind \in {request[r].kind, "trusted"} /\ u = request[r].u
                                        /\ version = request[r].row.version /\ pass = request[r].pass
                                        /\ InsertCred(c, kind, u, version, pass, None, NoCode)
      BY <1>3 DEF LoginSession, CreateTrustedBrowser
    <2>2. u \in Users /\ version \in Nat /\ Behind(user, u, version)
      BY <1>3, <2>1 DEF LoginSession, CreateTrustedBrowser, AccountsInv, AccountsTypeOK, RequestRows, AccountRows,
                        RequestsCarry, SigningIn, Carries, Behind
    <2>3. \A s \in Requests : RequestQuiet(s)
      BY <1>3, RowsStill, Ending DEF LoginSession, CreateTrustedBrowser
    <2>. QED  BY <1>3, <2>1, <2>2, <2>3, PlainSession DEF LoginSession, CreateTrustedBrowser
  <1>4. ASSUME NEW h \in Challenges, CreateLoginChallenge(r, h) PROVE Aged /\ SpendingInv'
    <2>1. \A x \in Challenges : ChallengeAged(x)
      BY <1>4 DEF CreateLoginChallenge, ChallengeAged, Spent, AccountsInv, AccountsTypeOK
    <2>2. \A x \in Users : RowAged(x) /\ RowQuiet(x)
      BY <1>4, RowsStill DEF CreateLoginChallenge
    <2>. QED  BY <1>4, <2>1, <2>2, Ending, CredsStill, QuietStep DEF CreateLoginChallenge, Aged
  <1>5. ASSUME NEW code \in 1 .. MaxCode, UseMFACounter(r, code) PROVE Aged /\ SpendingInv'
    <2>1. PICK u \in Users : u = request[r].u
      BY <1>5 DEF UseMFACounter, SigningIn, AccountsInv, RequestsCarry
    <2>2. code \in Nat /\ code # Recovery
      BY AccountsAssumption DEF Recovery
    <2>3. user' = [user EXCEPT ![u].counter = code] /\ code > user[u].counter /\ user[u].mfa = "on"
      BY <1>5, <2>1 DEF UseMFACounter
    <2>4. Exists(u)
      BY <2>3, FactorOfAccount
    <2>5. user[u].counter \in Nat
      BY DEF AccountsInv, AccountsTypeOK, AccountRows
    <2>6. user[u].counter <= code /\ ~(code <= user[u].counter)
      BY <2>2, <2>3, <2>5
    <2>7. user'[u].counter = code /\ \A x \in Users : RowAged(x) /\ RowQuiet(x)
      BY <2>2, <2>3, <2>4, <2>6, CounterAges
    <2>8. ~UsedUp(user, u, code)
      BY <2>2, <2>4, <2>6 DEF UsedUp, Exists
    <2>9. UsedUp(user', u, code)
      <3>1. user'[u].mfa = "on" /\ user'[u].role = user[u].role
        BY <2>3 DEF AccountsInv, AccountsTypeOK, AccountRows
      <3>. QED  BY <2>2, <2>4, <2>7, <3>1 DEF UsedUp, Exists
    <2>10. request' = [request EXCEPT ![r] = [request[r] EXCEPT !.pc = "proved", !.code = code]]
      BY <1>5 DEF UseMFACounter, AccountsInv, AccountsTypeOK, RequestRows
    <2>. QED  BY <1>5, <2>1, <2>2, <2>7, <2>8, <2>9, <2>10, ProvedSpends DEF UseMFACounter
  <1>6. CASE UseRecoveryCode(r)
    <2>1. PICK u \in Users : u = request[r].u
      BY <1>6 DEF UseRecoveryCode, SigningIn, AccountsInv, RequestsCarry
    <2>2. user' = [user EXCEPT ![u].recovery = FALSE] /\ user[u].recovery
      BY <1>6, <2>1 DEF UseRecoveryCode
    <2>3. Exists(u)
      BY <2>2, FactorOfAccount
    <2>4. ~user'[u].recovery /\ \A x \in Users : RowAged(x) /\ RowQuiet(x)
      BY <2>2, <2>3, RecoveryAges
    <2>5. PICK k \in Nat : k = Recovery
      BY DEF Recovery
    <2>6. ~UsedUp(user, u, k)
      BY <2>2, <2>3, <2>5 DEF UsedUp, Exists
    <2>7. UsedUp(user', u, k)
      <3>1. user'[u].mfa = user[u].mfa /\ user'[u].role = user[u].role
        BY <2>2 DEF AccountsInv, AccountsTypeOK, AccountRows
      <3>2. user[u].mfa # "never"
        BY <2>2 DEF SpendingInv, FactorInv, RowsPlain
      <3>. QED  BY <2>3, <2>4, <2>5, <3>1, <3>2 DEF UsedUp, Exists
    <2>8. request' = [request EXCEPT ![r] = [request[r] EXCEPT !.pc = "proved", !.code = k]]
      BY <1>6, <2>5 DEF UseRecoveryCode, AccountsInv, AccountsTypeOK, RequestRows
    <2>. QED  BY <1>6, <2>1, <2>4, <2>6, <2>7, <2>8, ProvedSpends DEF UseRecoveryCode
  <1>7. CASE RecordLoginChallengeFailure(r)
    <2>1. \A x \in Challenges : ChallengeAged(x)
      BY <1>7 DEF RecordLoginChallengeFailure, ChallengeAged, Spent, AccountsInv, AccountsTypeOK, ChallengeRows
    <2>2. \A x \in Users : RowAged(x) /\ RowQuiet(x)
      BY <1>7, RowsStill DEF RecordLoginChallengeFailure
    <2>. QED  BY <1>7, <2>1, <2>2, Ending, CredsStill, QuietStep DEF RecordLoginChallengeFailure, Aged
  <1>8. CASE SignInFails(r)
    BY <1>8, RowsStill, CredsStill, ChallengesStill, Ending, QuietStep DEF SignInFails, Aged
  <1>. QED  BY <1>1, <1>2, <1>3, <1>4, <1>5, <1>6, <1>7, <1>8, CompleteSpends, ConsumeSpends
              DEF SignInStep, V2Login, V2MobileLogin, V2CompleteMFALogin, V2MobileCompleteMFALogin

LEMMA RowStepSpends ==
    ASSUME AccountsInv, AccountsInv', SpendingInv, RowStep
    PROVE  Aged /\ SpendingInv'
  <1>1. ASSUME NEW u \in Users, NEW role, NEW grant, user[u].role = "new",
               user' = [user EXCEPT ![u] = NewRow(role, grant)], UNCHANGED <<cred, challenge, request>>
        PROVE  Aged /\ SpendingInv'
    <2>1. PICK row : row = NewRow(role, grant)
      OBVIOUS
    <2>2. row.version >= 1 /\ row.mfa = "never" /\ ~row.recovery
      BY <2>1 DEF NewRow, FreeUser
    <2>3. user'[u] = row /\ \A x \in Users \ {u} : RowAged(x) /\ RowQuiet(x)
      BY <1>1, <2>1, RowWritten
    <2>4. RowAged(u) /\ RowQuiet(u)
      BY <1>1, <2>2, <2>3 DEF RowAged, RowQuiet
    <2>5. \A x \in Users : RowAged(x) /\ RowQuiet(x)
      BY <2>3, <2>4
    <2>. QED  BY <1>1, <2>5, CredsStill, ChallengesStill, RequestsStill, QuietStep DEF Aged
  <1>2. ASSUME NEW u \in Users, NEW c \in Creds, CreateMediaKey(u, c) PROVE Aged /\ SpendingInv'
    <2>1. user[u].version \in Nat
      BY DEF AccountsInv, AccountsTypeOK, AccountRows
    <2>2. Behind(user, u, user[u].version)
      BY <1>2, <2>1 DEF CreateMediaKey, Behind, Exists
    <2>3. \A s \in Requests : RequestQuiet(s)
      BY <1>2, RowsStill, RequestsStill DEF CreateMediaKey
    <2>. QED  BY <1>2, <2>1, <2>2, <2>3, PlainSession DEF CreateMediaKey
  <1>3. ASSUME NEW c \in Creds, CredEnds(c) PROVE Aged /\ SpendingInv'
    <2>1. \A d \in Creds : cred'[d] = cred[d] \/
             \E state \in {"revoked", "deleted"} : cred'[d] = [cred[d] EXCEPT !.state = state]
      BY <1>3 DEF CredEnds, AccountsInv, AccountsTypeOK
    <2>2. \A d \in Creds : CredAged(d) /\ CredPlain(d)
      BY <2>1, CredsEnded
    <2>. QED  BY <1>3, <2>2, RowsStill, ChallengesStill, RequestsStill, QuietStep DEF CredEnds, Aged
  <1>4. CASE PruneSecurityData
    <2>1. \A d \in Creds : cred'[d] = cred[d] \/
             \E state \in {"revoked", "deleted"} : cred'[d] = [cred[d] EXCEPT !.state = state]
      BY <1>4 DEF PruneSecurityData
    <2>2. \A d \in Creds : CredAged(d) /\ CredPlain(d)
      BY <2>1, CredsEnded
    <2>3. \A h \in Challenges : ChallengeAged(h)
      BY <1>4 DEF PruneSecurityData, ChallengeAged, Spent, AccountsInv, AccountsTypeOK, ChallengeRows
    <2>. QED  BY <1>4, <2>2, <2>3, RowsStill, RequestsStill, QuietStep DEF PruneSecurityData, Aged
  <1>. QED  BY <1>1, <1>2, <1>3, <1>4 DEF RowStep, CreateInitialAdminIfEmpty, CreateUser

(* Every step.                                                             *)
LEMMA NextSpends ==
    ASSUME AccountsInv, AccountsInv', SpendingInv, [Next]_vars
    PROVE  Aged /\ SpendingInv'
  <1>1. ASSUME NEW r \in Requests, DisconnectOne(r) PROVE Aged /\ SpendingInv'
    BY <1>1, RowsStill, CredsStill, ChallengesStill, Ending, QuietStep DEF DisconnectOne, Aged
  <1>2. ASSUME NEW r \in Requests, NEW c \in Creds, RevokeOne(r, c) PROVE Aged /\ SpendingInv'
    <2>1. \A d \in Creds : cred'[d] = cred[d] \/
             \E state \in {"revoked", "deleted"} : cred'[d] = [cred[d] EXCEPT !.state = state]
      BY <1>2 DEF RevokeOne, AccountsInv, AccountsTypeOK
    <2>2. \A d \in Creds : CredAged(d) /\ CredPlain(d)
      BY <2>1, CredsEnded
    <2>3. PICK q : q = [IdleRequest EXCEPT !.pc = "revoked", !.kind = c]
      OBVIOUS
    <2>4. q.pc = "revoked" /\ request' = [request EXCEPT ![r] = q]
      BY <1>2, <2>3 DEF RevokeOne, IdleRequest
    <2>5. \A x \in Users : RowAged(x) /\ RowQuiet(x)
      BY <1>2, RowsStill DEF RevokeOne
    <2>6. \A s \in Requests : RequestQuiet(s)
      BY <2>4, <2>5, EmptyHanded
    <2>. QED  BY <1>2, <2>2, <2>5, <2>6, ChallengesStill, QuietStep DEF RevokeOne, Aged
  <1>3. CASE UNCHANGED <<user, cred, challenge, request>>
    BY <1>3, RowsStill, CredsStill, ChallengesStill, RequestsStill, QuietStep DEF Aged
  <1>4. ASSUME NEW s \in Streams, StreamStep(s) PROVE Aged /\ SpendingInv'
    BY <1>3, <1>4 DEF StreamStep, AdmitStream, RegisterStream, RecheckStream
  <1>. QED  BY <1>1, <1>2, <1>3, <1>4, RowStepSpends, AccountStepSpends, FollowStepSpends, SignInStepSpends
              DEF Next, vars

(* In every reachable state the credentials are of versions that were, and *)
(* what a second factor consists of is used up when it is in hand.         *)
THEOREM AccessSafety == Spec => []AccessInv
  <1>1. Init => SpendingInv
    <2>. SUFFICES ASSUME Init PROVE SpendingInv
      OBVIOUS
    <2>1. AgeInv
      BY DEF Init, AgeInv, CredsBehind, RequestsBehind, FreeCred, IdleRequest, Changing
    <2>2. ChallengesOnce
      BY DEF Init, ChallengesOnce, FreeCred, IdleRequest
    <2>3. RowsPlain
      BY DEF Init, RowsPlain, FreeUser
    <2>4. CodesOnce
      BY DEF Init, CodesOnce, Holds, Bears, FreeCred, IdleRequest
    <2>5. Enrolments
      BY DEF Init, Enrolments, IdleRequest
    <2>. QED  BY <2>1, <2>2, <2>3, <2>4, <2>5 DEF SpendingInv, FactorInv
  <1>2. AccountsInv /\ AccountsInv' /\ SpendingInv /\ [Next]_vars => SpendingInv'
    BY NextSpends
  <1>3. AccountsInv /\ SpendingInv => AccessInv
    BY DEF SpendingInv, AccessInv
  <1>. QED  BY <1>1, <1>2, <1>3, AccountsSafety, PTL DEF Spec

(* A login challenge and a code open one session each, although requests   *)
(* that verify the same challenge interleave with each other, with a new   *)
(* enrolment and with a deletion of the account.                           *)
THEOREM FactorsSpentOnce == Spec => []SecondFactorOnce
  <1>1. AccessInv => SecondFactorOnce
    <2>. SUFFICES ASSUME AccessInv, NEW c \in Creds, NEW d \in Creds, c # d
                  PROVE  /\ cred[c].ch # None => cred[c].ch # cred[d].ch
                         /\ cred[c].code # NoCode =>
                               <<cred[c].owner, cred[c].code>> # <<cred[d].owner, cred[d].code>>
      BY DEF SecondFactorOnce
    <2>1. cred[c].ch # None => cred[c].ch # cred[d].ch
      BY DEF AccessInv, ChallengesOnce
    <2>2. ASSUME cred[c].code # NoCode, cred[c].owner = cred[d].owner, cred[c].code = cred[d].code PROVE FALSE
      <3>1. cred[c].code \in Nat /\ cred[c].owner \in Users
        BY <2>2 DEF AccessInv, FactorInv, CodesOnce, AccountsInv, AccountsTypeOK, CredRows
      <3>. QED  BY <2>2, <3>1 DEF AccessInv, FactorInv, CodesOnce, Bears
    <2>. QED  BY <2>1, <2>2
  <1>. QED  BY <1>1, AccessSafety, PTL

(* A session or trusted browser that AuthenticateSession would refuse is   *)
(* refused for good: its version is behind, and no version comes back.     *)
THEOREM NoSessionRevives == Spec => NoRevival
  <1>1. ASSUME AccessInv, AccountsInv', [Next]_vars, NEW c \in Creds,
               cred[c].kind \in {"browser", "mobile", "trusted"}, Valid(c)'
        PROVE  Valid(c)
    <2>1. Aged
      BY <1>1, NextSpends DEF AccessInv, SpendingInv
    <2>2. CredKept(c) /\ cred[c].state = "live"
      BY <1>1, <2>1 DEF Aged, CredAged, Valid, RowHonoured, AccessInv, AgeInv, CredsBehind, None
    <2>3. PICK u \in Users : u = cred[c].owner
      BY <1>1, <2>2 DEF AccessInv, AgeInv, CredsBehind
    <2>4. Behind(user, u, cred[c].version) /\ RowAged(u)
      BY <1>1, <2>1, <2>2, <2>3 DEF AccessInv, AgeInv, CredsBehind, Aged
    <2>5. /\ user'[u].role \in {"admin", "viewer"} /\ ~user'[u].disabled
          /\ cred[c].version = user'[u].version
      BY <1>1, <2>2, <2>3 DEF Valid, RowHonoured, OfThisVersion, Exists, CredKept
    <2>6. /\ user[u].version \in Nat /\ user'[u].version \in Nat
      BY <1>1 DEF AccessInv, AccountsInv, AccountsTypeOK, AccountRows
    <2>7. /\ user'[u].version = user[u].version /\ user'[u].role = user[u].role
          /\ user'[u].disabled = user[u].disabled
      BY <2>4, <2>5, <2>6 DEF Behind, RowAged
    <2>. QED  BY <2>2, <2>3, <2>5, <2>7 DEF Valid, RowHonoured, OfThisVersion, Exists
  <1>2. AccessInv => AccountsInv
    BY DEF AccessInv
  <1>3. AccessInv /\ AccountsInv' /\ [Next]_vars =>
           [\A c \in Creds : (cred[c].kind \in {"browser", "mobile", "trusted"} /\ ~Valid(c)) => ~Valid(c)']_vars
    BY <1>1
  <1>. QED  BY <1>2, <1>3, AccessSafety, AccountsSafety, PTL DEF Spec, NoRevival

-----------------------------------------------------------------------------
(***************************************************************************)
(* What a viewer gets decodes, for any number of viewers, sources and      *)
(* chunks, and any byte budget.                                            *)
(*                                                                         *)
(* StreamDecodable is not inductive: whether the next chunk may follow     *)
(* what a viewer has depends on where the viewer stands.  One that is not  *)
(* gated has all there is: its stream ends with the chunk published last,  *)
(* of the current source.  One that is gated has nothing queued, and what  *)
(* it saw last is of an earlier source.  And a ring is of one source,      *)
(* without gaps, and where a unit starts in it there are headers.          *)
(***************************************************************************)

Sent == {"tv", "radio", "headers", "access", "delta"}
Pushed == [kind : Sent, seq : Nat \ {0}, source : Nat \ {0}, start : Nat]
Chunks == [kind : Sent \cup {"prefix", "none"}, seq : Nat, source : Nat, start : Nat]
Subscriptions ==
    [pc : {"new", "idle", "receiving", "counting", "ended"}, queue : Seq(Chunks), pending : Nat,
     waiting : BOOLEAN,
     closed : {"no", "slow_client_dropped", "hub_closed", "subscription_closed", "closed", "over"},
     seen : Chunks]

HubTypeOK ==
    /\ ring \in Seq(Pushed)
    /\ programme \in {"none", "tv", "radio"}
    /\ unit \in Nat /\ sequence \in Nat /\ shut \in BOOLEAN
    /\ sub \in [Subs -> Subscriptions]
    /\ bridge \in [source : Nat \ {0}, pc : {"pulling", "holding", "done"},
                   kind : Sent \cup {"none"}, cancelled : BOOLEAN]
    /\ bridge.pc = "holding" => bridge.kind \in Sent
    /\ setting \in Settings

(* The ring r holds the last chunks up to number n, all of source g.       *)
RunsTo(r, n, g) ==
    \A i \in 1..Len(r) : r[i].source = g /\ r[i].seq + Len(r) = n + i

(* A chunk that a unit starts with, or will start with, has the headers.   *)
StartsAtHeaders(r, u, n) ==
    /\ u <= n
    /\ \A i \in 1..Len(r) :
          /\ r[i].start <= n
          /\ r[i].seq = u => r[i].kind = "headers"
          /\ \A j \in 1..Len(r) : r[j].start = r[i].seq => r[i].kind = "headers"

(* What a viewer saw last and what waits for it, in a row.                 *)
Joined(seen, queue) ==
    /\ Len(queue) > 0 => Continues(seen, queue[1])
    /\ \A i \in 1..Len(queue) - 1 : Continues(queue[i], queue[i + 1])

OfSource(seen, queue, g) ==
    /\ seen.source <= g
    /\ \A i \in 1..Len(queue) : queue[i].source <= g

(* The stream so far ends with chunk n of source g.                        *)
UpToDate(c, n, g) == c.seq = n /\ c.source = g /\ c.kind # "prefix" /\ n > 0

LastOf(seen, queue) == IF Len(queue) = 0 THEN seen ELSE queue[Len(queue)]

Standing(q, n, g) ==
    IF q.waiting THEN Len(q.queue) = 0 /\ q.seen.source < g
    ELSE UpToDate(LastOf(q.seen, q.queue), n, g)

Follows(q, n, g) ==
    /\ Joined(q.seen, q.queue) /\ OfSource(q.seen, q.queue, g)
    /\ q.pc # "new" /\ q.closed = "no" => Standing(q, n, g)

HubInv ==
    /\ HubTypeOK
    /\ RunsTo(ring, sequence, bridge.source)
    /\ StartsAtHeaders(ring, unit, sequence)
    /\ \A s \in Subs : Follows(sub[s], sequence, bridge.source)

-----------------------------------------------------------------------------
(* A viewer that is given chunks.                                          *)

(* What a sequence of a bootstrap has to be.                               *)
Boot(b, n, g) ==
    /\ b \in Seq(Chunks) /\ Len(b) \in Nat \ {0}
    /\ b[1].kind \in {"prefix", "radio"}
    /\ \A i \in 1..Len(b) : b[i].source = g
    /\ \A i \in 1..Len(b) - 1 : Continues(b[i], b[i + 1])
    /\ UpToDate(b[Len(b)], n, g)

LEMMA GreatestIn ==
    ASSUME NEW n \in Nat, NEW S \in SUBSET (0..n), S # {}
    PROVE  Max(S) \in S /\ \A y \in S : y <= Max(S)
  <1>1. PICK T : T = {n - j : j \in S}
    OBVIOUS
  <1>2. T \subseteq Nat /\ T # {}
    <2>1. \A j \in S : n - j \in Nat  OBVIOUS
    <2>2. PICK j \in S : TRUE  OBVIOUS
    <2>3. n - j \in T  BY <1>1, <2>2
    <2>. QED  BY <1>1, <2>1, <2>3
  <1>3. PICK x \in T : \A y \in T : x <= y
    BY <1>2, LeastNumber
  <1>4. PICK k \in S : x = n - k
    BY <1>1, <1>3
  <1>5. \A j \in S : k >= j
    <2>. TAKE j \in S
    <2>1. n - j \in T  BY <1>1
    <2>2. n - k <= n - j  BY <2>1, <1>3, <1>4
    <2>3. j \in Int /\ k \in Int  OBVIOUS
    <2>. QED  BY <2>2, <2>3
  <1>6. Max(S) \in S /\ \A y \in S : Max(S) >= y
    BY <1>5 DEF Max
  <1>. QED  BY <1>6

LEMMA PlacesToStart ==
    ASSUME NEW r \in Seq(Pushed), NEW p, StartsOf(r, p) # {}
    PROVE  /\ p \in {"tv", "radio"}
           /\ Max(StartsOf(r, p)) \in 1..Len(r)
           /\ p = "tv" => \E i \in 1..Len(r) : r[i].start = r[Max(StartsOf(r, p))].seq
           /\ p = "radio" => r[Max(StartsOf(r, p))].kind = "radio"
  <1>1. Len(r) \in Nat /\ DOMAIN r = 1..Len(r)
    OBVIOUS
  <1>2. p = "tv" \/ p = "radio"
    BY DEF StartsOf
  <1>3. StartsOf(r, p) \in SUBSET (1..Len(r))
    BY <1>1 DEF StartsOf
  <1>4. Max(StartsOf(r, p)) \in StartsOf(r, p)
    <2>1. StartsOf(r, p) \in SUBSET (0..Len(r))
      BY <1>1, <1>3
    <2>. QED  BY <2>1, <1>1, <1>3, GreatestIn
  <1>5. PICK m : m = Max(StartsOf(r, p))
    OBVIOUS
  <1>6. m \in StartsOf(r, p) /\ m \in 1..Len(r)
    BY <1>3, <1>4, <1>5
  <1>7. ASSUME p = "tv" PROVE \E i \in 1..Len(r) : r[i].start = r[m].seq
    <2>1. PICK i \in m..Len(r) : r[i].start = r[m].seq
      BY <1>6, <1>7 DEF StartsOf
    <2>2. i \in 1..Len(r)
      BY <1>6, <1>1
    <2>. QED  BY <2>1, <2>2
  <1>8. ASSUME p = "radio" PROVE r[m].kind = "radio"
    BY <1>6, <1>8 DEF StartsOf
  <1>. QED  BY <1>2, <1>5, <1>6, <1>7, <1>8

(* A viewer that starts on a ring starts where a decoder can.              *)
LEMMA BootstrapStarts ==
    ASSUME NEW r \in Seq(Pushed), NEW p, NEW u \in Nat, NEW n \in Nat, NEW g \in Nat \ {0},
           RunsTo(r, n, g), StartsAtHeaders(r, u, n), StartsOf(r, p) # {}
    PROVE  Boot(Bootstrap(r, p), n, g)
  <1>1. PICK m : m = Max(StartsOf(r, p))
    OBVIOUS
  <1>2. /\ m \in 1..Len(r) /\ Len(r) \in Nat
        /\ p = "tv" => \E i \in 1..Len(r) : r[i].start = r[m].seq
        /\ p = "radio" => r[m].kind = "radio"
        /\ p \in {"tv", "radio"}
    BY <1>1, PlacesToStart
  <1>3. PICK t : t = SubSeq(r, m, Len(r))
    OBVIOUS
  <1>4. /\ t \in Seq(Pushed) /\ Len(t) = Len(r) - m + 1
        /\ \A i \in 1..Len(t) : t[i] = r[m + i - 1]
    BY <1>2, <1>3
  <1>5. \A i \in 1..Len(r) : r[i] \in Pushed
    OBVIOUS
  <1>6. \A i \in 1..Len(t) : t[i] \in Pushed /\ t[i].source = g /\ t[i].seq + Len(t) = n + i
    <2>. TAKE i \in 1..Len(t)
    <2>1. m + i - 1 \in 1..Len(r)
      BY <1>2, <1>4
    <2>2. r[m + i - 1].source = g /\ r[m + i - 1].seq + Len(r) = n + (m + i - 1)
      BY <2>1 DEF RunsTo
    <2>3. r[m + i - 1].seq \in Nat
      BY <2>1, <1>5 DEF Pushed
    <2>4. t[i] = r[m + i - 1] /\ t[i] \in Pushed
      BY <2>1, <1>4, <1>5
    <2>5. i \in Nat /\ m \in Nat /\ Len(r) \in Nat /\ Len(t) = Len(r) - m + 1
      BY <1>2, <1>4
    <2>6. t[i].source = g /\ t[i].seq \in Nat /\ t[i].seq + Len(r) = n + (m + i - 1)
      BY ONLY <2>2, <2>3, <2>4
    <2>7. t[i].seq + Len(t) = n + i
      <3>1. PICK a : a = t[i].seq
        OBVIOUS
      <3>2. PICK b : b = Len(r)
        OBVIOUS
      <3>3. PICK k : k = Len(t)
        OBVIOUS
      <3>4. /\ a \in Nat /\ b \in Nat /\ m \in Nat /\ i \in Nat /\ n \in Nat
            /\ a + b = n + (m + i - 1) /\ k = b - m + 1
        BY <2>5, <2>6, <3>1, <3>2, <3>3
      <3>5. a + k = n + i
        BY ONLY <3>4
      <3>. QED  BY ONLY <3>1, <3>3, <3>5
    <2>. QED  BY ONLY <2>4, <2>6, <2>7
  <1>7. \A i \in 1..Len(t) - 1 : Continues(t[i], t[i + 1])
    <2>. TAKE i \in 1..Len(t) - 1
    <2>1. i \in 1..Len(t) /\ i + 1 \in 1..Len(t)
      BY <1>2, <1>4
    <2>2. /\ t[i] \in Pushed /\ t[i + 1] \in Pushed /\ t[i].source = g /\ t[i + 1].source = g
          /\ t[i].seq + Len(t) = n + i /\ t[i + 1].seq + Len(t) = n + (i + 1)
      BY <2>1, <1>6
    <2>3. PICK a, b : a = t[i] /\ b = t[i + 1]
      OBVIOUS
    <2>4. a.seq \in Nat \ {0} /\ b.seq \in Nat /\ b.kind # "prefix" /\ b.source = a.source
      BY <2>2, <2>3 DEF Pushed, Sent
    <2>5. b.seq = a.seq + 1
      <3>1. i \in Nat /\ Len(t) \in Nat  BY <1>2, <1>4
      <3>2. PICK k \in Nat, l \in Nat : k = a.seq /\ l = b.seq  BY <2>4
      <3>3. k + Len(t) = n + i /\ l + Len(t) = n + (i + 1)
        BY <3>2, <2>2, <2>3
      <3>4. l = k + 1  BY <3>1, <3>3
      <3>. QED  BY <3>2, <3>4
    <2>. QED  BY <2>3, <2>4, <2>5 DEF Continues
  <1>8. UpToDate(t[Len(t)], n, g)
    <2>1. Len(t) \in 1..Len(t)
      BY <1>2, <1>4
    <2>2. t[Len(t)] \in Pushed /\ t[Len(t)].source = g /\ t[Len(t)].seq + Len(t) = n + Len(t)
      BY <2>1, <1>6
    <2>3. t[Len(t)].seq \in Nat \ {0} /\ t[Len(t)].kind # "prefix"
      BY <2>2 DEF Pushed, Sent
    <2>. QED  BY <2>1, <2>2, <2>3 DEF UpToDate
  <1>9. t \in Seq(Chunks) /\ Len(t) \in Nat \ {0} /\ t[1] = r[m]
    <2>1. Pushed \subseteq Chunks
      BY DEF Pushed, Chunks
    <2>. QED  BY <2>1, <1>2, <1>4
  <1>10. CASE p = "radio"
    <2>1. Bootstrap(r, p) = <<>> \o t
      BY <1>1, <1>3, <1>10 DEF Bootstrap
    <2>2. <<>> \o t = t
      BY <1>9
    <2>3. t[1].kind = "radio"
      BY <1>2, <1>9, <1>10
    <2>. QED  BY <2>1, <2>2, <2>3, <1>6, <1>7, <1>8, <1>9 DEF Boot
  <1>11. CASE p = "tv"
    <2>1. PICK x : x = CopiedTables(r[m].source)
      OBVIOUS
    <2>2. Bootstrap(r, p) = <<x>> \o t
      BY <1>1, <1>3, <1>11, <2>1 DEF Bootstrap
    <2>3. r[m].source = g
      BY <1>2 DEF RunsTo
    <2>4. x.kind = "prefix" /\ x.source = g /\ x \in Chunks
      BY <2>1, <2>3 DEF CopiedTables, Chunks
    <2>5. t[1].kind = "headers"
      BY <1>2, <1>9, <1>11 DEF StartsAtHeaders
    <2>6. PICK b : b = <<x>> \o t
      OBVIOUS
    <2>7. /\ b \in Seq(Chunks) /\ Len(b) = Len(t) + 1 /\ b[1] = x
          /\ \A i \in 1..Len(t) : b[i + 1] = t[i]
      BY <2>4, <2>6, <1>9
    <2>8. \A i \in 1..Len(b) : b[i].source = g
      <3>. TAKE i \in 1..Len(b)
      <3>1. CASE i = 1  BY <3>1, <2>4, <2>7
      <3>2. CASE i # 1
        <4>1. i - 1 \in 1..Len(t)  BY <3>2, <2>7, <1>9
        <4>2. b[(i - 1) + 1] = t[i - 1]  BY <4>1, <2>7
        <4>. QED  BY <4>1, <4>2, <1>6
      <3>. QED  BY <3>1, <3>2
    <2>9. \A i \in 1..Len(b) - 1 : Continues(b[i], b[i + 1])
      <3>. TAKE i \in 1..Len(b) - 1
      <3>0. i \in 1..Len(t) /\ b[i + 1] = t[i]
        BY <2>7, <1>9
      <3>1. CASE i = 1
        <4>1. t[1].source = g  BY <3>0, <3>1, <1>6
        <4>. QED  BY <3>0, <3>1, <4>1, <2>4, <2>5, <2>7 DEF Continues
      <3>2. CASE i # 1
        <4>1. i - 1 \in 1..Len(t) - 1  BY <3>0, <3>2, <1>9
        <4>2. b[(i - 1) + 1] = t[i - 1] /\ (i - 1) + 1 = i
          <5>1. b[(i - 1) + 1] = t[i - 1]
            <6>1. i - 1 \in 1..Len(t)  BY <4>1, <1>9
            <6>. QED  BY <6>1, <2>7
          <5>. QED  BY <5>1
        <4>3. Continues(t[i - 1], t[(i - 1) + 1])  BY <4>1, <1>7
        <4>. QED  BY <3>0, <4>2, <4>3
      <3>. QED  BY <3>1, <3>2
    <2>10. UpToDate(b[Len(b)], n, g)
      <3>1. b[Len(t) + 1] = t[Len(t)]
        BY <2>7, <1>9
      <3>. QED  BY <3>1, <2>7, <1>8
    <2>11. Len(b) \in Nat \ {0}  BY <2>7, <1>9
    <2>. QED  BY <2>2, <2>4, <2>6, <2>7, <2>8, <2>9, <2>10, <2>11 DEF Boot
  <1>. QED  BY <1>2, <1>10, <1>11

-----------------------------------------------------------------------------
(* What a queue gains.                                                     *)

(* A queue that takes chunks which follow on from it.                      *)
LEMMA QueueGrows ==
    ASSUME NEW seen \in Chunks, NEW queue \in Seq(Chunks), NEW more \in Seq(Chunks),
           NEW g \in Nat, Joined(seen, queue), OfSource(seen, queue, g), Len(more) > 0,
           Continues(LastOf(seen, queue), more[1]),
           \A i \in 1..Len(more) : more[i].source = g,
           \A i \in 1..Len(more) - 1 : Continues(more[i], more[i + 1])
    PROVE  /\ Joined(seen, queue \o more) /\ OfSource(seen, queue \o more, g)
           /\ LastOf(seen, queue \o more) = more[Len(more)]
           /\ queue \o more \in Seq(Chunks)
  <1>1. PICK q : q = queue \o more
    OBVIOUS
  <1>2. PICK k \in Nat, l \in Nat : k = Len(queue) /\ l = Len(more)
    OBVIOUS
  <1>3. /\ q \in Seq(Chunks) /\ Len(q) = k + l /\ l > 0
        /\ \A i \in 1..k + l : q[i] = IF i <= k THEN queue[i] ELSE more[i - k]
    BY <1>1, <1>2
  <1>4. \A i \in 1..k : q[i] = queue[i]
    BY <1>2, <1>3
  <1>5. \A i \in 1..l : k + i \in 1..k + l /\ q[k + i] = more[i]
    <2>. TAKE i \in 1..l
    <2>1. k + i \in 1..k + l /\ ~(k + i <= k) /\ k + i - k = i
      BY <1>2
    <2>. QED  BY <2>1, <1>3
  <1>6. \A i \in 1..k + l : i \in 1..k \/ (i - k \in 1..l /\ i = k + (i - k))
    BY <1>2
  <1>7. OfSource(seen, q, g)
    <2>1. \A i \in 1..k + l : q[i].source <= g
      <3>. TAKE i \in 1..k + l
      <3>1. CASE i \in 1..k
        BY <3>1, <1>2, <1>4 DEF OfSource
      <3>2. CASE i - k \in 1..l /\ i = k + (i - k)
        <4>1. q[k + (i - k)] = more[i - k] /\ more[i - k].source = g
          BY <3>2, <1>2, <1>5
        <4>. QED  BY <4>1, <3>2
      <3>. QED  BY <3>1, <3>2, <1>6
    <2>. QED  BY <2>1, <1>3 DEF OfSource
  <1>8. Continues(seen, q[1])
    <2>1. CASE k = 0
      <3>1. q[k + 1] = more[1]
        BY <1>3, <1>5
      <3>. QED  BY <3>1, <2>1, <1>2 DEF LastOf
    <2>2. CASE k # 0
      BY <2>2, <1>2, <1>4 DEF Joined
    <2>. QED  BY <2>1, <2>2
  <1>9. \A i \in 1..Len(q) - 1 : Continues(q[i], q[i + 1])
    <2>. TAKE i \in 1..Len(q) - 1
    <2>0. i \in 1..k + l - 1
      BY <1>3
    <2>1. CASE i < k
      <3>1. i \in 1..Len(queue) - 1 /\ i \in 1..k /\ i + 1 \in 1..k
        BY <2>0, <2>1, <1>2
      <3>2. Continues(queue[i], queue[i + 1])
        BY <3>1 DEF Joined
      <3>. QED  BY <3>1, <3>2, <1>4
    <2>2. CASE i = k
      <3>1. q[i] = queue[Len(queue)] /\ Len(queue) # 0
        BY <2>0, <2>2, <1>2, <1>4
      <3>2. q[k + 1] = more[1]
        BY <1>3, <1>5
      <3>. QED  BY <3>1, <3>2, <2>2 DEF LastOf
    <2>3. CASE i > k
      <3>1. i - k \in 1..Len(more) - 1 /\ i - k \in 1..l /\ (i - k) + 1 \in 1..l
        BY <2>0, <2>3, <1>2
      <3>2. q[k + (i - k)] = more[i - k] /\ q[k + ((i - k) + 1)] = more[(i - k) + 1]
        BY <3>1, <1>5
      <3>3. Continues(more[i - k], more[(i - k) + 1])
        BY <3>1
      <3>4. k + (i - k) = i /\ k + ((i - k) + 1) = i + 1
        BY <2>0
      <3>. QED  BY <3>2, <3>3, <3>4
    <2>. QED  BY <2>1, <2>2, <2>3, <2>0
  <1>10. LastOf(seen, q) = more[Len(more)]
    <2>1. q[k + l] = more[l]
      BY <1>3, <1>5
    <2>. QED  BY <2>1, <1>2, <1>3 DEF LastOf
  <1>. QED  BY <1>1, <1>3, <1>7, <1>8, <1>9, <1>10 DEF Joined

(* A queue of a bootstrap, or of what of it fits.                          *)
LEMMA SomeOfBoot ==
    ASSUME NEW b, NEW n \in Nat, NEW g \in Nat \ {0}, Boot(b, n, g), NEW k \in Int
    PROVE  LET c == SubSeq(b, 1, k) IN
           k <= Len(b) =>
             /\ c \in Seq(Chunks) /\ (k > 0 => Len(c) = k) /\ (k <= 0 => c = <<>>)
             /\ \A i \in 1..Len(c) : c[i] = b[i] /\ c[i].source = g
             /\ \A i \in 1..Len(c) - 1 : Continues(c[i], c[i + 1])
  <1>. SUFFICES ASSUME k <= Len(b), NEW c, c = SubSeq(b, 1, k)
       PROVE  /\ c \in Seq(Chunks) /\ (k > 0 => Len(c) = k) /\ (k <= 0 => c = <<>>)
              /\ \A i \in 1..Len(c) : c[i] = b[i] /\ c[i].source = g
              /\ \A i \in 1..Len(c) - 1 : Continues(c[i], c[i + 1])
    OBVIOUS
  <1>0. b \in Seq(Chunks) /\ Len(b) \in Nat
    BY DEF Boot
  <1>1. CASE k <= 0
    <2>1. c = <<>>
      BY <1>0, <1>1
    <2>. QED  BY <2>1, <1>1
  <1>2. CASE k > 0
    <2>1. c \in Seq(Chunks) /\ Len(c) = k /\ \A i \in 1..k : c[i] = b[i]
      BY <1>0, <1>2
    <2>2. \A i \in 1..k : b[i].source = g
      BY <1>0 DEF Boot
    <2>3. \A i \in 1..k - 1 : Continues(c[i], c[i + 1])
      <3>. TAKE i \in 1..k - 1
      <3>1. i \in 1..Len(b) - 1 /\ i \in 1..k /\ i + 1 \in 1..k
        BY <1>0, <1>2
      <3>. QED  BY <3>1, <2>1 DEF Boot
    <2>. QED  BY <2>1, <2>2, <2>3, <1>2
  <1>3. k <= 0 \/ k > 0
    OBVIOUS
  <1>. QED  BY <1>1, <1>2, <1>3

LEMMA EmptyJoins ==
    ASSUME NEW seen \in Chunks, NEW queue, queue = <<>>, NEW g, seen.source <= g
    PROVE  Joined(seen, queue) /\ OfSource(seen, queue, g) /\ LastOf(seen, queue) = seen /\ Len(queue) = 0
  BY DEF Joined, OfSource, LastOf

(* What is released to a viewer that was gated.                            *)
LEMMA BootFollows ==
    ASSUME NEW b, NEW n \in Nat, NEW g \in Nat \ {0}, Boot(b, n, g),
           NEW seen \in Chunks, seen.source < g
    PROVE  /\ Joined(seen, b) /\ OfSource(seen, b, g) /\ UpToDate(LastOf(seen, b), n, g)
           /\ \A k \in Int : k <= Len(b) =>
                 Joined(seen, SubSeq(b, 1, k)) /\ OfSource(seen, SubSeq(b, 1, k), g)
  <1>0. b \in Seq(Chunks) /\ Len(b) \in Nat /\ Len(b) > 0 /\ seen.source \in Nat
    BY DEF Boot, Chunks
  <1>1. b[1] \in Chunks /\ b[1].source = g
    BY <1>0 DEF Boot
  <1>2. Continues(seen, b[1])
    BY <1>0, <1>1 DEF Boot, Continues
  <1>3. Joined(seen, b) /\ OfSource(seen, b, g) /\ UpToDate(LastOf(seen, b), n, g)
    BY <1>0, <1>2 DEF Boot, Joined, OfSource, LastOf
  <1>4. ASSUME NEW k \in Int, k <= Len(b)
        PROVE  Joined(seen, SubSeq(b, 1, k)) /\ OfSource(seen, SubSeq(b, 1, k), g)
    <2>1. PICK c : c = SubSeq(b, 1, k)
      OBVIOUS
    <2>2. /\ c \in Seq(Chunks) /\ (k > 0 => Len(c) = k) /\ (k <= 0 => c = <<>>)
          /\ \A i \in 1..Len(c) : c[i] = b[i] /\ c[i].source = g
          /\ \A i \in 1..Len(c) - 1 : Continues(c[i], c[i + 1])
      BY <1>4, <2>1, SomeOfBoot
    <2>3. Len(c) \in Nat /\ (Len(c) > 0 => c[1] = b[1])
      BY <2>2
    <2>. QED  BY <2>1, <2>2, <2>3, <1>0, <1>2 DEF Joined, OfSource
  <1>. QED  BY <1>3, <1>4

-----------------------------------------------------------------------------
(* Publishing.                                                             *)

LEMMA BudgetRoom ==
    ASSUME setting \in Settings
    PROVE  MaxClient \in Nat /\ MaxRing \in Nat /\ MaxRing >= 1
  <1>1. setting.maxClient \in Nat \ {0, 1}
    BY HubAssumption
  <1>2. \A m \in Nat \ {0, 1} : m \div 2 \in Nat /\ m \div 2 >= 1
    OBVIOUS
  <1>. QED  BY <1>1, <1>2 DEF MaxClient, MaxRing

\* The chunk that Publish makes, and what becomes of the unit.
Chunk(kind, p) ==
    [kind |-> kind, seq |-> sequence + 1, source |-> bridge.source,
     start |-> IF p = "tv" /\ kind = "access" THEN unit ELSE 0]

UnitAfter(kind, p) == IF p = "tv" THEN Opened(kind, sequence + 1) ELSE unit

RingOf(r, u, n, g) == r \in Seq(Pushed) /\ RunsTo(r, n, g) /\ StartsAtHeaders(r, u, n)

LEMMA ChunkIs ==
    ASSUME HubTypeOK, NEW kind \in Sent, NEW p
    PROVE  /\ Chunk(kind, p) \in Pushed
           /\ Chunk(kind, p).seq = sequence + 1 /\ Chunk(kind, p).source = bridge.source
           /\ Chunk(kind, p).kind = kind
           /\ Chunk(kind, p).start = unit \/ Chunk(kind, p).start = 0
  BY DEF HubTypeOK, Chunk, Pushed

LEMMA UnitIs ==
    ASSUME HubTypeOK, NEW kind \in Sent, NEW p
    PROVE  \/ UnitAfter(kind, p) = unit
           \/ UnitAfter(kind, p) = 0
           \/ kind = "headers" /\ UnitAfter(kind, p) = sequence + 1
  BY DEF HubTypeOK, UnitAfter, Opened

\* A ring with the chunk x behind it.
LEMMA RingGains ==
    ASSUME NEW r \in Seq(Pushed), NEW n \in Nat, NEW g \in Nat \ {0}, NEW u \in Nat,
           RunsTo(r, n, g), StartsAtHeaders(r, u, n),
           NEW x \in Pushed, x.seq = n + 1, x.source = g, x.start = u \/ x.start = 0,
           NEW v \in Nat, v = u \/ v = 0 \/ (x.kind = "headers" /\ v = n + 1)
    PROVE  RingOf(Append(r, x), v, n + 1, g)
  <1>1. PICK s : s = Append(r, x)
    OBVIOUS
  <1>2. PICK k \in Nat : k = Len(r)
    OBVIOUS
  <1>3. s \in Seq(Pushed) /\ Len(s) = k + 1 /\ s[k + 1] = x /\ \A i \in 1..k : s[i] = r[i]
    BY <1>1, <1>2
  <1>4. \A i \in 1..k : /\ r[i] \in Pushed /\ r[i].source = g /\ r[i].seq + k = n + i
                        /\ r[i].start <= n /\ r[i].seq \in Nat \ {0} /\ r[i].start \in Nat
                        /\ r[i].seq <= n
    <2>. TAKE i \in 1..k
    <2>1. r[i] \in Pushed
      BY <1>2
    <2>2. r[i].source = g /\ r[i].seq + k = n + i /\ r[i].start <= n
      BY <1>2 DEF RunsTo, StartsAtHeaders
    <2>3. r[i].seq \in Nat \ {0} /\ r[i].start \in Nat
      BY <2>1 DEF Pushed
    <2>4. PICK m \in Nat : m = r[i].seq
      BY <2>3
    <2>5. m + k = n + i /\ i <= k
      BY <2>2, <2>4
    <2>6. m <= n
      BY <2>5
    <2>. QED  BY <2>1, <2>2, <2>3, <2>4, <2>6
  <1>5. u <= n
    BY DEF StartsAtHeaders
  <1>6. RunsTo(s, n + 1, g)
    <2>1. ASSUME NEW i \in 1..k + 1 PROVE s[i].source = g /\ s[i].seq + (k + 1) = n + 1 + i
      <3>1. CASE i = k + 1
        BY <3>1, <1>3
      <3>2. CASE i # k + 1
        <4>1. i \in 1..k
          BY <3>2
        <4>2. s[i] = r[i] /\ r[i].source = g /\ r[i].seq + k = n + i /\ r[i].seq \in Nat
          BY <4>1, <1>3, <1>4
        <4>. QED  BY <4>2
      <3>. QED  BY <3>1, <3>2
    <2>. QED  BY <2>1, <1>3 DEF RunsTo
  <1>7. \A i \in 1..k + 1 : s[i].start <= n /\ s[i].start \in Nat
    <2>. TAKE i \in 1..k + 1
    <2>1. CASE i = k + 1
      BY <2>1, <1>3, <1>5
    <2>2. CASE i # k + 1
      <3>1. i \in 1..k
        BY <2>2
      <3>. QED  BY <3>1, <1>3, <1>4
    <2>. QED  BY <2>1, <2>2
  <1>8. ASSUME NEW i \in 1..k + 1
        PROVE  /\ s[i].seq = v => s[i].kind = "headers"
               /\ \A j \in 1..k + 1 : s[j].start = s[i].seq => s[i].kind = "headers"
    <2>1. CASE i = k + 1
      <3>1. s[i].seq = n + 1 /\ s[i] = x
        BY <2>1, <1>3
      <3>2. v = n + 1 => x.kind = "headers"
        BY <1>5
      <3>3. \A j \in 1..k + 1 : s[j].start # n + 1
        BY <1>7
      <3>. QED  BY <3>1, <3>2, <3>3
    <2>2. CASE i # k + 1
      <3>1. i \in 1..k /\ s[i] = r[i]
        BY <2>2, <1>3
      <3>2. r[i].seq # n + 1 /\ r[i].seq # 0
        BY <3>1, <1>4
      <3>3. r[i].seq = u => r[i].kind = "headers"
        BY <3>1, <1>2 DEF StartsAtHeaders
      <3>4. \A j \in 1..k : r[j].start = r[i].seq => r[i].kind = "headers"
        BY <3>1, <1>2 DEF StartsAtHeaders
      <3>5. \A j \in 1..k + 1 : s[j].start = r[i].seq => r[i].kind = "headers"
        <4>. TAKE j \in 1..k + 1
        <4>1. CASE j = k + 1
          BY <4>1, <1>3, <3>2, <3>3
        <4>2. CASE j # k + 1
          <5>1. j \in 1..k /\ s[j] = r[j]
            BY <4>2, <1>3
          <5>. QED  BY <5>1, <3>4
        <4>. QED  BY <4>1, <4>2
      <3>. QED  BY <3>1, <3>2, <3>3, <3>5
    <2>. QED  BY <2>1, <2>2
  <1>9. v <= n + 1
    BY <1>5
  <1>10. \A i \in 1..k + 1 : s[i].start <= n + 1
    BY <1>7
  <1>11. StartsAtHeaders(s, v, n + 1)
    BY <1>3, <1>8, <1>9, <1>10 DEF StartsAtHeaders
  <1>. QED  BY <1>1, <1>3, <1>6, <1>11 DEF RingOf

\* A ring that forgets its oldest chunk.
LEMMA RingForgets ==
    ASSUME NEW r \in Seq(Pushed), NEW n \in Nat, NEW g, NEW u, RingOf(r, u, n, g), Len(r) > 1
    PROVE  RingOf(Tail(r), u, n, g) /\ Len(Tail(r)) > 0 /\ Tail(r)[Len(Tail(r))] = r[Len(r)]
  <1>1. PICK s : s = Tail(r)
    OBVIOUS
  <1>2. PICK k \in Nat : Len(r) = k + 1 /\ k > 0
    <2>1. Len(r) \in Nat  OBVIOUS
    <2>2. Len(r) - 1 \in Nat /\ Len(r) = (Len(r) - 1) + 1 /\ Len(r) - 1 > 0  BY <2>1
    <2>. QED  BY <2>2
  <1>3. s \in Seq(Pushed) /\ Len(s) = k /\ \A i \in 1..k : s[i] = r[i + 1]
    <2>1. r # <<>>
      BY <1>2
    <2>. QED  BY <2>1, <1>1, <1>2
  <1>4. \A i \in 1..k : i + 1 \in 1..Len(r)
    BY <1>2
  <1>5. RunsTo(s, n, g)
    <2>1. ASSUME NEW i \in 1..k PROVE s[i].source = g /\ s[i].seq + k = n + i
      <3>1. r[i + 1].source = g /\ r[i + 1].seq + (k + 1) = n + (i + 1)
        BY <1>2, <1>4 DEF RingOf, RunsTo
      <3>2. r[i + 1] \in Pushed
        BY <1>4
      <3>3. PICK m \in Nat : m = r[i + 1].seq
        BY <3>2 DEF Pushed
      <3>4. m + (k + 1) = n + (i + 1)
        BY <3>1, <3>3
      <3>5. m + k = n + i
        BY <3>4
      <3>. QED  BY <3>1, <3>3, <3>5, <1>3
    <2>. QED  BY <2>1, <1>3 DEF RunsTo
  <1>6. StartsAtHeaders(s, u, n)
    BY <1>3, <1>4 DEF RingOf, StartsAtHeaders
  <1>7. s[k] = r[k + 1]
    BY <1>2, <1>3
  <1>. QED  BY <1>1, <1>2, <1>3, <1>5, <1>6, <1>7 DEF RingOf

LEMMA RingKeepsUp ==
    ASSUME NEW r \in Seq(Pushed), NEW n \in Nat, NEW g, NEW u, RingOf(r, u, n, g), Len(r) > 0,
           setting \in Settings
    PROVE  RingOf(Trim(r), u, n, g) /\ Len(Trim(r)) > 0 /\ Trim(r)[Len(Trim(r))] = r[Len(r)]
  <1>1. CASE Len(r) > MaxRing
    <2>1. Len(r) > 1
      <3>1. Len(r) \in Nat  OBVIOUS
      <3>. QED  BY <3>1, <1>1, BudgetRoom
    <2>. QED  BY <2>1, <1>1, RingForgets DEF Trim
  <1>2. CASE ~(Len(r) > MaxRing)
    BY <1>2 DEF Trim
  <1>. QED  BY <1>1, <1>2

-----------------------------------------------------------------------------
(* Viewers.                                                                *)

LEMMA SubscriptionFields ==
    ASSUME NEW q \in Subscriptions
    PROVE  /\ q.seen \in Chunks /\ q.queue \in Seq(Chunks) /\ q.pending \in Nat /\ q.waiting \in BOOLEAN
           /\ q.seen.source \in Nat /\ Len(q.queue) \in Nat
  <1>1. q.seen \in Chunks /\ q.queue \in Seq(Chunks) /\ q.pending \in Nat /\ q.waiting \in BOOLEAN
    BY DEF Subscriptions
  <1>2. q.seen.source \in Nat
    BY <1>1 DEF Chunks
  <1>. QED  BY <1>1, <1>2

\* A viewer that gets no chunk when number m is published, or when source h starts.
LEMMA ShutKeeps ==
    ASSUME NEW q \in Subscriptions, NEW n \in Nat, NEW g \in Nat, Follows(q, n, g),
           ~(q.pc # "new" /\ q.closed = "no"), NEW m \in Nat, NEW h \in Nat, h >= g
    PROVE  Follows(q, m, h)
  <1>1. \A i \in 1..Len(q.queue) : q.queue[i] \in Chunks /\ q.queue[i].source \in Nat
    <2>1. \A i \in 1..Len(q.queue) : q.queue[i] \in Chunks
      BY SubscriptionFields
    <2>2. \A c \in Chunks : c.source \in Nat
      BY DEF Chunks
    <2>. QED  BY <2>1, <2>2
  <1>2. OfSource(q.seen, q.queue, h)
    BY <1>1, SubscriptionFields DEF Follows, OfSource
  <1>. QED  BY <1>2 DEF Follows

LEMMA GatedKeeps ==
    ASSUME NEW q \in Subscriptions, NEW n \in Nat, NEW g \in Nat, Follows(q, n, g),
           q.waiting = TRUE, q.pc # "new", q.closed = "no", NEW m \in Nat
    PROVE  Follows(q, m, g)
  BY DEF Follows, Standing

LEMMA DropKeeps ==
    ASSUME NEW q \in Subscriptions, NEW n, NEW g, Follows(q, n, g),
           NEW reason \in {"slow_client_dropped", "hub_closed", "subscription_closed"}
    PROVE  Drop(q, reason) \in Subscriptions /\ Follows(Drop(q, reason), n, g)
  <1>1. PICK d : d = Drop(q, reason)
    OBVIOUS
  <1>2. d \in Subscriptions /\ d.seen = q.seen /\ d.queue = q.queue /\ d.closed # "no"
    BY <1>1 DEF Drop, Subscriptions
  <1>. QED  BY <1>1, <1>2 DEF Follows

(* The chunk published last reaches a viewer that has all before it.       *)
LEMMA EnqueueFollows ==
    ASSUME NEW q \in Subscriptions, NEW n \in Nat, NEW g \in Nat \ {0}, Follows(q, n, g),
           q.pc # "new", q.closed = "no", q.waiting = FALSE, setting \in Settings,
           NEW x \in Pushed, x.seq = n + 1, x.source = g
    PROVE  Enqueue(q, x) \in Subscriptions /\ Follows(Enqueue(q, x), n + 1, g)
  <1>1. CASE q.pending + 1 > MaxClient
    <2>1. Enqueue(q, x) = Drop(q, "slow_client_dropped")
      BY <1>1 DEF Enqueue
    <2>2. PICK d : d = Drop(q, "slow_client_dropped")
      OBVIOUS
    <2>3. d \in Subscriptions /\ Follows(d, n, g)
      BY <2>2, DropKeeps
    <2>4. d.closed # "no"
      BY <2>2 DEF Drop, Subscriptions
    <2>5. Follows(d, n + 1, g)
      BY <2>3, <2>4, ShutKeeps
    <2>. QED  BY <2>1, <2>2, <2>3, <2>5
  <1>2. CASE ~(q.pending + 1 > MaxClient)
    <2>1. PICK e : e = Enqueue(q, x)
      OBVIOUS
    <2>2. PICK more : more = <<x>>
      OBVIOUS
    <2>3. x \in Chunks /\ x.kind # "prefix"
      BY DEF Pushed, Chunks, Sent
    <2>4. more \in Seq(Chunks) /\ Len(more) = 1 /\ more[1] = x
      BY <2>2, <2>3
    <2>5. /\ e \in Subscriptions /\ e.seen = q.seen /\ e.waiting = q.waiting
          /\ e.queue = Append(q.queue, x)
      <3>1. e = [q EXCEPT !.queue = Append(@, x), !.pending = @ + 1]
        BY <2>1, <1>2 DEF Enqueue
      <3>2. Append(q.queue, x) \in Seq(Chunks) /\ q.pending + 1 \in Nat
        BY <2>3, SubscriptionFields
      <3>. QED  BY <3>1, <3>2 DEF Subscriptions
    <2>6. e.queue = q.queue \o more
      BY <2>2, <2>3, <2>5, SubscriptionFields
    <2>7. PICK a : a = LastOf(q.seen, q.queue)
      OBVIOUS
    <2>8. a.seq = n /\ a.source = g /\ n > 0
      BY <2>7 DEF Follows, Standing, UpToDate
    <2>9. Continues(a, x)
      BY <2>3, <2>8 DEF Continues
    <2>10. Joined(q.seen, q.queue) /\ OfSource(q.seen, q.queue, g)
      BY DEF Follows
    <2>11. /\ Joined(q.seen, e.queue) /\ OfSource(q.seen, e.queue, g)
           /\ LastOf(q.seen, e.queue) = x
      <3>1. q.seen \in Chunks /\ q.queue \in Seq(Chunks)
        BY SubscriptionFields
      <3>2. /\ \A i \in 1..Len(more) : more[i].source = g
            /\ \A i \in 1..Len(more) - 1 : Continues(more[i], more[i + 1])
            /\ Len(more) > 0 /\ Continues(LastOf(q.seen, q.queue), more[1])
        BY <2>4, <2>7, <2>9
      <3>3. /\ Joined(q.seen, q.queue \o more) /\ OfSource(q.seen, q.queue \o more, g)
            /\ LastOf(q.seen, q.queue \o more) = more[Len(more)]
        BY <3>1, <3>2, <2>4, <2>10, QueueGrows
      <3>. QED  BY <3>3, <2>4, <2>6
    <2>12. UpToDate(x, n + 1, g)
      BY <2>3 DEF UpToDate
    <2>. QED  BY <2>1, <2>5, <2>11, <2>12 DEF Follows, Standing
  <1>. QED  BY <1>1, <1>2

(* A gated viewer is released with a bootstrap, or with what of it fits.   *)
LEMMA ReleaseFollows ==
    ASSUME NEW q \in Subscriptions, NEW n \in Nat, NEW m \in Nat, NEW g \in Nat \ {0}, Follows(q, n, g),
           q.pc # "new", q.closed = "no", q.waiting = TRUE, setting \in Settings,
           NEW b, Boot(b, m, g)
    PROVE  LET e == EnqueueAll([q EXCEPT !.waiting = FALSE], b)
           IN  e \in Subscriptions /\ Follows(e, m, g)
  <1>1. PICK w : w = [q EXCEPT !.waiting = FALSE]
    OBVIOUS
  <1>2. PICK e : e = EnqueueAll(w, b)
    OBVIOUS
  <1>3. PICK room \in Int : room = MaxClient - q.pending
    BY BudgetRoom, SubscriptionFields
  <1>4. /\ w \in Subscriptions /\ w.seen = q.seen /\ w.queue = q.queue /\ w.pending = q.pending
        /\ w.pc = q.pc /\ w.closed = "no" /\ w.waiting = FALSE
    BY <1>1 DEF Subscriptions
  <1>5. q.queue = <<>> /\ q.seen.source < g /\ q.seen \in Chunks
    <2>1. Len(q.queue) = 0 /\ q.seen.source < g
      BY DEF Follows, Standing
    <2>. QED  BY <2>1, SubscriptionFields
  <1>6. b \in Seq(Chunks) /\ Len(b) \in Nat
    BY DEF Boot
  <1>7. /\ Joined(q.seen, b) /\ OfSource(q.seen, b, g) /\ UpToDate(LastOf(q.seen, b), m, g)
        /\ room <= Len(b) =>
              Joined(q.seen, SubSeq(b, 1, room)) /\ OfSource(q.seen, SubSeq(b, 1, room), g)
    BY <1>5, BootFollows
  <1>8. CASE Len(b) <= room
    <2>1. e = [w EXCEPT !.queue = @ \o b, !.pending = @ + Len(b)]
      BY <1>2, <1>3, <1>4, <1>8 DEF EnqueueAll
    <2>2. <<>> \o b = b /\ q.pending + Len(b) \in Nat
      BY <1>6, SubscriptionFields
    <2>3. /\ e \in Subscriptions /\ e.seen = q.seen /\ e.queue = b /\ e.waiting = FALSE
      BY <2>1, <2>2, <1>4, <1>5, <1>6 DEF Subscriptions
    <2>4. Follows(e, m, g)
      BY <2>3, <1>7 DEF Follows, Standing
    <2>. QED  BY <2>3, <2>4, <1>1, <1>2
  <1>9. CASE ~(Len(b) <= room)
    <2>1. PICK c : c = SubSeq(b, 1, room)
      OBVIOUS
    <2>2. c \in Seq(Chunks)
      <3>1. room <= Len(b)
        BY <1>6, <1>9
      <3>. QED  BY <3>1, <2>1, SomeOfBoot
    <2>3. e = Drop([w EXCEPT !.queue = @ \o c, !.pending = MaxClient], "slow_client_dropped")
      BY <2>1, <1>2, <1>3, <1>4, <1>9 DEF EnqueueAll
    <2>4. <<>> \o c = c /\ MaxClient \in Nat
      BY <2>2, BudgetRoom
    <2>5. e \in Subscriptions /\ e.seen = q.seen /\ e.queue = c /\ e.closed # "no"
      BY <2>2, <2>3, <2>4, <1>4, <1>5 DEF Drop, Subscriptions
    <2>6. room <= Len(b)
      BY <1>6, <1>9
    <2>7. Follows(e, m, g)
      BY <2>1, <2>5, <2>6, <1>7 DEF Follows
    <2>. QED  BY <2>5, <2>7, <1>1, <1>2
  <1>. QED  BY <1>8, <1>9

(* What publishing does for one viewer.                                    *)
LEMMA DeliverFollows ==
    ASSUME NEW q \in Subscriptions, NEW n \in Nat, NEW g \in Nat \ {0}, Follows(q, n, g),
           q.pc # "new", q.closed = "no", setting \in Settings,
           NEW r, NEW u \in Nat, RingOf(r, u, n + 1, g), Len(r) > 0,
           NEW p
    PROVE  Deliver(q, r, p) \in Subscriptions /\ Follows(Deliver(q, r, p), n + 1, g)
  <1>0. r \in Seq(Pushed) /\ Len(r) \in Nat
    BY DEF RingOf
  <1>1. CASE q.waiting = FALSE
    <2>1. PICK x : x = r[Len(r)]
      OBVIOUS
    <2>2. x \in Pushed
      BY <1>0, <2>1
    <2>3. x.source = g /\ x.seq + Len(r) = n + 1 + Len(r)
      BY <1>0, <2>1 DEF RingOf, RunsTo
    <2>4. x.seq = n + 1
      <3>1. x.seq \in Nat
        BY <2>2 DEF Pushed
      <3>. QED  BY <3>1, <2>3, <1>0
    <2>5. Deliver(q, r, p) = Enqueue(q, x)
      BY <1>1, <2>1 DEF Deliver, Last
    <2>. QED  BY <1>1, <2>2, <2>3, <2>4, <2>5, EnqueueFollows
  <1>2. CASE q.waiting = TRUE /\ StartsOf(r, p) = {}
    <2>1. Deliver(q, r, p) = q
      BY <1>2 DEF Deliver
    <2>2. n + 1 \in Nat /\ g \in Nat
      OBVIOUS
    <2>3. Follows(q, n + 1, g)
      BY <1>2, <2>2, GatedKeeps
    <2>. QED  BY <2>1, <2>3
  <1>3. CASE q.waiting = TRUE /\ StartsOf(r, p) # {}
    <2>1. PICK b : b = Bootstrap(r, p)
      OBVIOUS
    <2>2. Boot(b, n + 1, g)
      BY <1>0, <1>3, <2>1, BootstrapStarts DEF RingOf
    <2>3. Deliver(q, r, p) = EnqueueAll([q EXCEPT !.waiting = FALSE], b)
      BY <1>3, <2>1 DEF Deliver
    <2>4. n + 1 \in Nat
      OBVIOUS
    <2>. QED  BY <1>3, <2>2, <2>3, <2>4, ReleaseFollows
  <1>4. q.waiting \in BOOLEAN
    BY SubscriptionFields
  <1>. QED  BY <1>1, <1>2, <1>3, <1>4

(* A source change: what was queued is thrown away, and the gate closes.   *)
LEMMA ResetFollows ==
    ASSUME NEW q \in Subscriptions, NEW n \in Nat, NEW g \in Nat, Follows(q, n, g),
           q.pc # "new", q.closed = "no",
           NEW e, e = [q EXCEPT !.queue = <<>>, !.pending = 0, !.waiting = TRUE]
    PROVE  e \in Subscriptions /\ Follows(e, n, g + 1)
  <1>1. /\ e \in Subscriptions /\ e.seen = q.seen /\ e.queue = <<>> /\ e.waiting = TRUE
    <2>1. <<>> \in Seq(Chunks) /\ 0 \in Nat /\ TRUE \in BOOLEAN
      OBVIOUS
    <2>. QED  BY <2>1, Zenon DEF Subscriptions
  <1>2. q.seen \in Chunks /\ q.seen.source \in Nat
    BY SubscriptionFields
  <1>3. q.seen.source <= g
    BY DEF Follows, OfSource
  <1>4. q.seen.source < g + 1
    BY <1>2, <1>3
  <1>. QED  BY <1>1, <1>2, <1>4 DEF Follows, Standing, Joined, OfSource

LEMMA EmptyFollows ==
    ASSUME NEW q \in Subscriptions, q.queue = <<>>, q.seen.source = 0,
           q.pc = "new" \/ q.closed # "no" \/ q.waiting = TRUE, NEW n, NEW g \in Nat \ {0}
    PROVE  Follows(q, n, g)
  <1>1. Len(q.queue) = 0 /\ 0 <= g /\ 0 < g
    OBVIOUS
  <1>. QED  BY <1>1 DEF Follows, Standing, Joined, OfSource

LEMMA FreshIs ==
    /\ Fresh \in Subscriptions /\ Over \in Subscriptions
    /\ Fresh.queue = <<>> /\ Fresh.seen = Nothing /\ Fresh.pc = "new" /\ Fresh.seen.source = 0
    /\ Over.queue = <<>> /\ Over.seen.source = 0 /\ Over.closed # "no"
  <1>1. <<>> \in Seq(Chunks) /\ Nothing \in Chunks /\ Nothing.source = 0
    BY DEF Nothing, Chunks
  <1>. QED  BY <1>1 DEF Fresh, Over, Subscriptions

(* A new viewer: a closed hub, a gate, or a place to start.                *)
LEMMA EntryFollows ==
    ASSUME HubTypeOK, RunsTo(ring, sequence, bridge.source), StartsAtHeaders(ring, unit, sequence)
    PROVE  Entry \in Subscriptions /\ Follows(Entry, sequence, bridge.source)
  <1>0. /\ bridge.source \in Nat \ {0} /\ sequence \in Nat /\ unit \in Nat /\ ring \in Seq(Pushed)
        /\ Nothing \in Chunks /\ Nothing.source = 0 /\ <<>> \in Seq(Chunks) /\ shut \in BOOLEAN
    BY DEF HubTypeOK, Nothing, Chunks
  <1>1. CASE shut
    <2>1. /\ Entry \in Subscriptions /\ Entry.queue = <<>> /\ Entry.seen.source = 0
          /\ Entry.closed # "no"
      BY <1>0, <1>1 DEF Entry, Fresh, Subscriptions
    <2>. QED  BY <2>1, <1>0, EmptyFollows
  <1>2. CASE ~shut /\ StartsOf(ring, programme) = {}
    <2>1. /\ Entry \in Subscriptions /\ Entry.queue = <<>> /\ Entry.seen.source = 0
          /\ Entry.waiting = TRUE
      BY <1>0, <1>2 DEF Entry, Fresh, Subscriptions
    <2>. QED  BY <2>1, <1>0, EmptyFollows
  <1>3. CASE ~shut /\ StartsOf(ring, programme) # {}
    <2>1. PICK b : b = Bootstrap(ring, programme)
      OBVIOUS
    <2>2. Boot(b, sequence, bridge.source)
      BY <1>0, <1>3, <2>1, BootstrapStarts
    <2>3. b \in Seq(Chunks) /\ Len(b) \in Nat
      BY <2>2 DEF Boot
    <2>4. Entry = [Fresh EXCEPT !.pc = "idle", !.queue = b, !.pending = Len(b)]
      BY <1>3, <2>1 DEF Entry
    <2>5. /\ Entry \in Subscriptions /\ Entry.queue = b /\ Entry.seen = Nothing
          /\ Entry.waiting = FALSE
      BY <1>0, <2>3, <2>4 DEF Fresh, Subscriptions
    <2>6. Nothing.source < bridge.source
      BY <1>0
    <2>7. /\ Joined(Nothing, b) /\ OfSource(Nothing, b, bridge.source)
          /\ UpToDate(LastOf(Nothing, b), sequence, bridge.source)
      BY <2>2, <2>6, <1>0, BootFollows
    <2>. QED  BY <2>5, <2>7 DEF Follows, Standing
  <1>. QED  BY <1>0, <1>1, <1>2, <1>3

(* The reader takes the first chunk of its queue.                          *)
LEMMA ReceiveFollows ==
    ASSUME NEW q \in Subscriptions, NEW n, NEW g \in Nat, Follows(q, n, g), q.queue # <<>>, q.pc # "new",
           NEW e, e = [q EXCEPT !.pc = "counting", !.seen = Head(q.queue), !.queue = Tail(q.queue)]
    PROVE  e \in Subscriptions /\ Follows(e, n, g)
  <1>1. PICK a, t : a = Head(q.queue) /\ t = Tail(q.queue)
    OBVIOUS
  <1>2. q.queue \in Seq(Chunks) /\ Len(q.queue) \in Nat
    BY SubscriptionFields
  <1>3. PICK k \in Nat : Len(q.queue) = k + 1
    <2>1. Len(q.queue) # 0
      BY <1>2
    <2>2. Len(q.queue) - 1 \in Nat /\ Len(q.queue) = (Len(q.queue) - 1) + 1
      BY <2>1, <1>2
    <2>. QED  BY <2>2
  <1>4. /\ a \in Chunks /\ a = q.queue[1] /\ t \in Seq(Chunks) /\ Len(t) = k
        /\ \A i \in 1..k : t[i] = q.queue[i + 1]
    BY <1>1, <1>2, <1>3
  <1>5. e \in Subscriptions /\ e.seen = a /\ e.queue = t /\ e.waiting = q.waiting /\ e.closed = q.closed
        /\ e.pc # "new"
    BY <1>1, <1>4 DEF Subscriptions
  <1>6. Joined(q.seen, q.queue) /\ OfSource(q.seen, q.queue, g)
    BY DEF Follows
  <1>7. \A i \in 1..k : i + 1 \in 1..k + 1 /\ i \in 1..k + 1 - 1
    OBVIOUS
  <1>8. OfSource(a, t, g)
    <2>1. 1 \in 1..k + 1
      OBVIOUS
    <2>. QED  BY <2>1, <1>3, <1>4, <1>6, <1>7 DEF OfSource
  <1>9. Joined(a, t)
    <2>1. ASSUME k > 0 PROVE Continues(a, t[1])
      <3>1. 1 \in 1..k /\ 1 \in 1..Len(q.queue) - 1
        BY <2>1, <1>3
      <3>2. Continues(q.queue[1], q.queue[1 + 1])
        BY <3>1, <1>6 DEF Joined
      <3>. QED  BY <3>1, <3>2, <1>4
    <2>2. ASSUME NEW i \in 1..k - 1 PROVE Continues(t[i], t[i + 1])
      <3>1. i \in 1..k /\ i + 1 \in 1..k /\ i + 1 \in 1..Len(q.queue) - 1
        BY <1>3
      <3>2. Continues(q.queue[i + 1], q.queue[(i + 1) + 1])
        BY <3>1, <1>6 DEF Joined
      <3>. QED  BY <3>1, <3>2, <1>4
    <2>. QED  BY <2>1, <2>2, <1>4 DEF Joined
  <1>10. LastOf(a, t) = LastOf(q.seen, q.queue)
    <2>1. CASE k = 0
      BY <2>1, <1>3, <1>4 DEF LastOf
    <2>2. CASE k # 0
      <3>1. k \in 1..k
        BY <2>2
      <3>2. t[k] = q.queue[k + 1]
        BY <3>1, <1>4
      <3>. QED  BY <3>2, <2>2, <1>3, <1>4 DEF LastOf
    <2>. QED  BY <2>1, <2>2
  <1>11. q.closed = "no" => q.waiting = FALSE
    <2>1. Len(q.queue) # 0
      BY <1>3
    <2>2. q.waiting \in BOOLEAN
      BY SubscriptionFields
    <2>. QED  BY <2>1, <2>2 DEF Follows, Standing
  <1>12. q.closed = "no" => UpToDate(LastOf(q.seen, q.queue), n, g)
    BY <1>11 DEF Follows, Standing
  <1>. QED  BY <1>5, <1>8, <1>9, <1>10, <1>11, <1>12 DEF Follows, Standing

-----------------------------------------------------------------------------
(* The steps.                                                              *)

(* A step of the viewers alone.                                            *)
LEMMA ViewerStepInv ==
    ASSUME HubInv, NEW s \in Subs, NEW q \in Subscriptions,
           Follows(q, sequence, bridge.source),
           sub' = [sub EXCEPT ![s] = q],
           UNCHANGED <<ring, programme, unit, sequence, shut, bridge, setting>>
    PROVE  HubInv'
  <1>1. \A v \in Subs : sub'[v] = IF v = s THEN q ELSE sub[v]
    BY DEF HubInv, HubTypeOK
  <1>2. sub' \in [Subs -> Subscriptions]
    BY DEF HubInv, HubTypeOK
  <1>3. HubTypeOK'
    BY <1>2 DEF HubInv, HubTypeOK
  <1>4. \A v \in Subs : Follows(sub'[v], sequence, bridge.source)
    BY <1>1 DEF HubInv
  <1>. QED  BY <1>3, <1>4 DEF HubInv

LEMMA ReaderStepInv ==
    ASSUME HubInv, NEW s \in Subs, Subscribe(s) \/ Read(s) \/ Unsubscribe(s), UNCHANGED setting
    PROVE  HubInv'
  <1>0. /\ sub[s] \in Subscriptions /\ Follows(sub[s], sequence, bridge.source)
        /\ sequence \in Nat /\ bridge.source \in Nat \ {0}
    BY DEF HubInv, HubTypeOK
  <1>1. CASE Subscribe(s)
    <2>1. Entry \in Subscriptions /\ Follows(Entry, sequence, bridge.source)
      BY EntryFollows DEF HubInv
    <2>2. /\ sub' = [sub EXCEPT ![s] = Entry]
          /\ UNCHANGED <<ring, programme, unit, sequence, shut, bridge, setting>>
      BY <1>1 DEF Subscribe
    <2>. QED  BY <2>1, <2>2, ViewerStepInv
  <1>2. CASE Check(s)
    <2>1. PICK q : q = IF sub[s].closed = "no" THEN [sub[s] EXCEPT !.pc = "receiving"] ELSE Over
      OBVIOUS
    <2>4. q \in Subscriptions /\ Follows(q, sequence, bridge.source)
      <3>1. CASE sub[s].closed = "no"
        <4>1. /\ q \in Subscriptions /\ q.seen = sub[s].seen /\ q.queue = sub[s].queue
              /\ q.waiting = sub[s].waiting /\ q.closed = sub[s].closed /\ sub[s].pc # "new"
          BY <2>1, <3>1, <1>0, <1>2 DEF Subscriptions, Check
        <4>. QED  BY <4>1, <1>0 DEF Follows, Standing
      <3>2. CASE sub[s].closed # "no"
        BY <2>1, <3>2, <1>0, FreshIs, EmptyFollows
      <3>. QED  BY <3>1, <3>2
    <2>5. /\ sub' = [sub EXCEPT ![s] = q]
          /\ UNCHANGED <<ring, programme, unit, sequence, shut, bridge, setting>>
      BY <2>1, <1>2 DEF Check
    <2>. QED  BY <2>4, <2>5, ViewerStepInv
  <1>3. CASE Receive(s) /\ sub[s].queue # <<>>
    <2>1. PICK q : q = [sub[s] EXCEPT !.pc = "counting", !.seen = Head(sub[s].queue),
                                      !.queue = Tail(sub[s].queue)]
      OBVIOUS
    <2>2. sub[s].pc # "new"
      BY <1>3 DEF Receive
    <2>3. q \in Subscriptions /\ Follows(q, sequence, bridge.source)
      BY <2>1, <2>2, <1>0, <1>3, ReceiveFollows
    <2>4. /\ sub' = [sub EXCEPT ![s] = q]
          /\ UNCHANGED <<ring, programme, unit, sequence, shut, bridge, setting>>
      <3>1. sub' = [sub EXCEPT ![s].pc = "counting", ![s].seen = Head(sub[s].queue), ![s].queue = Tail(@)]
        BY <1>3 DEF Receive
      <3>. QED  BY <3>1, <2>1, <1>0, <1>3 DEF Receive, HubInv, HubTypeOK
    <2>. QED  BY <2>3, <2>4, ViewerStepInv
  <1>4. CASE Receive(s) /\ sub[s].queue = <<>>
    <2>1. Over \in Subscriptions /\ Follows(Over, sequence, bridge.source)
      BY <1>0, FreshIs, EmptyFollows
    <2>2. /\ sub' = [sub EXCEPT ![s] = Over]
          /\ UNCHANGED <<ring, programme, unit, sequence, shut, bridge, setting>>
      BY <1>4 DEF Receive
    <2>. QED  BY <2>1, <2>2, ViewerStepInv
  <1>5. CASE Count(s)
    <2>1. PICK q : q = [sub[s] EXCEPT !.pc = "idle", !.pending = IF @ >= 1 THEN @ - 1 ELSE 0]
      OBVIOUS
    <2>2. (IF sub[s].pending >= 1 THEN sub[s].pending - 1 ELSE 0) \in Nat
      BY <1>0, SubscriptionFields
    <2>3. /\ q \in Subscriptions /\ q.seen = sub[s].seen /\ q.queue = sub[s].queue
          /\ q.waiting = sub[s].waiting /\ q.closed = sub[s].closed /\ sub[s].pc # "new"
      BY <2>1, <2>2, <1>0, <1>5 DEF Subscriptions, Count
    <2>4. Follows(q, sequence, bridge.source)
      BY <2>3, <1>0 DEF Follows, Standing
    <2>5. /\ sub' = [sub EXCEPT ![s] = q]
          /\ UNCHANGED <<ring, programme, unit, sequence, shut, bridge, setting>>
      BY <2>1, <1>0, <1>5 DEF Count, HubInv, HubTypeOK
    <2>. QED  BY <2>3, <2>4, <2>5, ViewerStepInv
  <1>6. CASE Unsubscribe(s)
    <2>1. PICK q : q = Drop(sub[s], "subscription_closed")
      OBVIOUS
    <2>2. q \in Subscriptions /\ Follows(q, sequence, bridge.source)
      BY <2>1, <1>0, DropKeeps
    <2>3. /\ sub' = [sub EXCEPT ![s] = q]
          /\ UNCHANGED <<ring, programme, unit, sequence, shut, bridge, setting>>
      BY <2>1, <1>6 DEF Unsubscribe
    <2>. QED  BY <2>2, <2>3, ViewerStepInv
  <1>. QED  BY <1>1, <1>2, <1>3, <1>4, <1>5, <1>6 DEF Read

(* A chunk that the bridge brings.                                         *)
LEMMA PublishInv ==
    ASSUME HubInv, BridgePublish, ~shut, UNCHANGED setting
    PROVE  HubInv'
  <1>1. PICK kind : kind = bridge.kind
    OBVIOUS
  <1>2. kind \in Sent /\ Publish(kind) /\ shut' = shut
    BY <1>1 DEF BridgePublish, HubInv, HubTypeOK
  <1>3. bridge'.source = bridge.source /\ bridge' \in [source : Nat \ {0},
              pc : {"pulling", "holding", "done"}, kind : Sent \cup {"none"}, cancelled : BOOLEAN]
        /\ bridge'.pc = "pulling"
    BY DEF BridgePublish, HubInv, HubTypeOK
  <1>4. PICK p : p = IF kind \in Tables THEN kind ELSE programme
    OBVIOUS
  <1>5. PICK n \in Nat, u \in Nat, g \in Nat \ {0} : n = sequence /\ u = unit /\ g = bridge.source
    BY DEF HubInv, HubTypeOK
  <1>6. PICK x : x = Chunk(kind, p)
    OBVIOUS
  <1>7. x \in Pushed /\ x.seq = n + 1 /\ x.source = g /\ x.kind = kind /\ (x.start = u \/ x.start = 0)
    BY <1>2, <1>5, <1>6, ChunkIs DEF HubInv
  <1>8. PICK v : v = UnitAfter(kind, p)
    OBVIOUS
  <1>9. v \in Nat /\ (v = u \/ v = 0 \/ (x.kind = "headers" /\ v = n + 1))
    BY <1>2, <1>5, <1>7, <1>8, UnitIs DEF HubInv
  <1>10. PICK r, k : r = Append(ring, x) /\ k = Trim(r)
    OBVIOUS
  <1>11. RingOf(r, v, n + 1, g)
    BY <1>5, <1>7, <1>9, <1>10, RingGains DEF HubInv, HubTypeOK
  <1>12. r \in Seq(Pushed) /\ Len(r) > 0 /\ n + 1 \in Nat /\ setting \in Settings
    BY <1>7, <1>10 DEF HubInv, HubTypeOK
  <1>13. RingOf(k, v, n + 1, g) /\ Len(k) > 0
    BY <1>10, <1>11, <1>12, RingKeepsUp
  <1>14. /\ programme' = p /\ sequence' = n + 1 /\ unit' = v /\ ring' = k
         /\ sub' = [s \in Subs |-> IF Open(s) THEN Deliver(sub[s], k, p) ELSE sub[s]]
    BY <1>1, <1>2, <1>4, <1>5, <1>6, <1>8, <1>10 DEF Publish, Chunk, UnitAfter
  <1>15. \A s \in Subs : sub'[s] \in Subscriptions /\ Follows(sub'[s], n + 1, g)
    <2>. TAKE s \in Subs
    <2>1. sub[s] \in Subscriptions /\ Follows(sub[s], n, g)
      BY <1>5 DEF HubInv, HubTypeOK
    <2>2. CASE Open(s)
      <3>1. sub'[s] = Deliver(sub[s], k, p)
        BY <2>2, <1>14
      <3>2. sub[s].pc # "new" /\ sub[s].closed = "no"
        BY <2>2 DEF Open
      <3>. QED  BY <3>1, <3>2, <2>1, <1>9, <1>12, <1>13, DeliverFollows
    <2>3. CASE ~Open(s)
      <3>1. sub'[s] = sub[s]
        BY <2>3, <1>14
      <3>2. ~(sub[s].pc # "new" /\ sub[s].closed = "no")
        BY <2>3 DEF Open
      <3>3. g \in Nat /\ g >= g
        OBVIOUS
      <3>. QED  BY <3>1, <3>2, <3>3, <2>1, <1>12, ShutKeeps
    <2>. QED  BY <2>2, <2>3
  <1>16. p \in {"none", "tv", "radio"}
    BY <1>4 DEF Tables, HubInv, HubTypeOK
  <1>17. sub' \in [Subs -> Subscriptions]
    BY <1>14, <1>15
  <1>18. HubTypeOK'
    BY <1>2, <1>3, <1>9, <1>12, <1>13, <1>14, <1>16, <1>17 DEF HubInv, HubTypeOK, RingOf
  <1>. QED  BY <1>3, <1>5, <1>13, <1>14, <1>15, <1>18 DEF HubInv, RingOf

(* A source change.                                                        *)
LEMMA PromoteInv ==
    ASSUME HubInv, Promote, UNCHANGED setting
    PROVE  HubInv'
  <1>1. PICK n \in Nat, g \in Nat \ {0} : n = sequence /\ g = bridge.source
    BY DEF HubInv, HubTypeOK
  <1>2. /\ ring' = <<>> /\ programme' = "none" /\ unit' = 0 /\ sequence' = n /\ shut' = shut
        /\ bridge' = [source |-> g + 1, pc |-> "pulling", kind |-> "none", cancelled |-> FALSE]
        /\ sub' = [s \in Subs |->
                     IF Open(s) THEN [sub[s] EXCEPT !.queue = <<>>, !.pending = 0, !.waiting = TRUE]
                     ELSE sub[s]]
    BY <1>1 DEF Promote, Reset, NextSource
  <1>3. \A s \in Subs : sub'[s] \in Subscriptions /\ Follows(sub'[s], n, g + 1)
    <2>. TAKE s \in Subs
    <2>1. sub[s] \in Subscriptions /\ Follows(sub[s], n, g)
      BY <1>1 DEF HubInv, HubTypeOK
    <2>2. CASE Open(s)
      <3>1. sub'[s] = [sub[s] EXCEPT !.queue = <<>>, !.pending = 0, !.waiting = TRUE]
        BY <2>2, <1>2
      <3>2. sub[s].pc # "new" /\ sub[s].closed = "no" /\ g \in Nat
        BY <2>2 DEF Open
      <3>. QED  BY <3>1, <3>2, <2>1, ResetFollows
    <2>3. CASE ~Open(s)
      <3>1. sub'[s] = sub[s]
        BY <2>3, <1>2
      <3>2. ~(sub[s].pc # "new" /\ sub[s].closed = "no") /\ g + 1 \in Nat /\ g \in Nat /\ g + 1 >= g
        BY <2>3 DEF Open
      <3>. QED  BY <3>1, <3>2, <2>1, ShutKeeps
    <2>. QED  BY <2>2, <2>3
  <1>4. sub' \in [Subs -> Subscriptions]
    BY <1>2, <1>3
  <1>5. g + 1 \in Nat \ {0}
    OBVIOUS
  <1>6. bridge' \in [source : Nat \ {0}, pc : {"pulling", "holding", "done"},
                     kind : Sent \cup {"none"}, cancelled : BOOLEAN]
        /\ bridge'.pc = "pulling" /\ bridge'.source = g + 1
    BY <1>2, <1>5
  <1>7. HubTypeOK'
    <2>1. <<>> \in Seq(Pushed)
      OBVIOUS
    <2>. QED  BY <2>1, <1>2, <1>4, <1>6 DEF HubInv, HubTypeOK
  <1>8. RunsTo(<<>>, n, g + 1) /\ StartsAtHeaders(<<>>, 0, n)
    BY DEF RunsTo, StartsAtHeaders
  <1>. QED  BY <1>2, <1>3, <1>6, <1>7, <1>8 DEF HubInv

LEMMA CloseInv ==
    ASSUME HubInv, Close, UNCHANGED setting
    PROVE  HubInv'
  <1>1. /\ ring' = <<>> /\ shut' = TRUE /\ UNCHANGED <<programme, unit, sequence, bridge, setting>>
        /\ sub' = [s \in Subs |-> IF Open(s) THEN Drop(sub[s], "hub_closed") ELSE sub[s]]
    BY DEF Close
  <1>2. \A s \in Subs : sub'[s] \in Subscriptions /\ Follows(sub'[s], sequence, bridge.source)
    <2>. TAKE s \in Subs
    <2>1. sub[s] \in Subscriptions /\ Follows(sub[s], sequence, bridge.source)
      BY DEF HubInv, HubTypeOK
    <2>2. sub'[s] = Drop(sub[s], "hub_closed") \/ sub'[s] = sub[s]
      BY <1>1
    <2>. QED  BY <2>1, <2>2, DropKeeps
  <1>3. sub' \in [Subs -> Subscriptions]
    BY <1>1, <1>2
  <1>4. HubTypeOK'
    <2>1. <<>> \in Seq(Pushed)
      OBVIOUS
    <2>. QED  BY <2>1, <1>1, <1>3 DEF HubInv, HubTypeOK
  <1>5. RunsTo(<<>>, sequence, bridge.source) /\ StartsAtHeaders(<<>>, unit, sequence)
    BY DEF RunsTo, StartsAtHeaders, HubInv
  <1>. QED  BY <1>1, <1>2, <1>4, <1>5 DEF HubInv

(* The bridge's own steps.                                                 *)
LEMMA BridgeInv ==
    ASSUME HubInv, UNCHANGED <<ring, programme, unit, sequence, shut, sub, setting>>,
           bridge'.source = bridge.source,
           bridge' \in [source : Nat \ {0}, pc : {"pulling", "holding", "done"},
                        kind : Sent \cup {"none"}, cancelled : BOOLEAN],
           bridge'.pc = "holding" => bridge'.kind \in Sent
    PROVE  HubInv'
  <1>1. HubTypeOK'
    BY DEF HubInv, HubTypeOK
  <1>. QED  BY <1>1 DEF HubInv

LEMMA HubStepInv == HubInv /\ [HubNext]_hubVars => HubInv'
  <1>. SUFFICES ASSUME HubInv, [HubNext]_hubVars
       PROVE  HubInv'
    OBVIOUS
  <1>1. CASE UNCHANGED hubVars
    BY <1>1 DEF HubInv, HubTypeOK, hubVars, hub
  <1>2. ASSUME NEW s \in Subs, Subscribe(s) \/ Read(s) \/ Unsubscribe(s), UNCHANGED setting
        PROVE  HubInv'
    BY <1>2, ReaderStepInv
  <1>3. ASSUME NEW kind \in ChunkKinds, Pull(kind), UNCHANGED setting
        PROVE  HubInv'
    <2>1. kind \in Sent
      BY HubAssumption DEF HubInv, HubTypeOK, ChunkKinds, Sent
    <2>. QED  BY <1>3, <2>1, BridgeInv DEF Pull, HubInv, HubTypeOK
  <1>4. CASE (CancelBridge \/ BridgeExit) /\ UNCHANGED setting
    BY <1>4, BridgeInv DEF CancelBridge, BridgeExit, HubInv, HubTypeOK
  <1>5. CASE BridgePublish /\ UNCHANGED setting
    <2>1. CASE shut
      BY <1>5, <2>1, BridgeInv DEF BridgePublish, HubInv, HubTypeOK
    <2>. QED  BY <1>5, <2>1, PublishInv
  <1>6. CASE (Promote \/ Close) /\ UNCHANGED setting
    BY <1>6, PromoteInv, CloseInv
  <1>. QED  BY <1>1, <1>2, <1>3, <1>4, <1>5, <1>6 DEF HubNext, ProducerNext

LEMMA HubStart == HubInit => HubInv
  <1>. SUFFICES ASSUME HubInit PROVE HubInv
    OBVIOUS
  <1>1. /\ ring = <<>> /\ programme = "none" /\ unit = 0 /\ sequence = 0 /\ shut = FALSE
        /\ sub = [s \in Subs |-> Fresh] /\ setting \in Settings
        /\ bridge = [source |-> 1, pc |-> "pulling", kind |-> "none", cancelled |-> FALSE]
    BY DEF HubInit
  <1>2. <<>> \in Seq(Pushed)
    OBVIOUS
  <1>3. HubTypeOK
    <2>1. sub \in [Subs -> Subscriptions]
      BY <1>1, FreshIs
    <2>2. /\ bridge \in [source : Nat \ {0}, pc : {"pulling", "holding", "done"},
                         kind : Sent \cup {"none"}, cancelled : BOOLEAN]
          /\ bridge.pc = "pulling"
      BY <1>1
    <2>. QED  BY <1>1, <1>2, <2>1, <2>2 DEF HubTypeOK
  <1>4. RunsTo(<<>>, 0, 1) /\ StartsAtHeaders(<<>>, 0, 0)
    BY DEF RunsTo, StartsAtHeaders
  <1>5. Follows(Fresh, 0, 1)
    <2>1. /\ Fresh \in Subscriptions /\ Fresh.queue = <<>> /\ Fresh.seen.source = 0
          /\ Fresh.pc = "new" /\ 1 \in Nat \ {0}
      BY FreshIs
    <2>. QED  BY <2>1, EmptyFollows
  <1>. QED  BY <1>1, <1>3, <1>4, <1>5 DEF HubInv

(* Where every viewer stands, and what the ring holds, through every       *)
(* publication, overflow, source change, subscription and close.           *)
THEOREM HubSafety == HubSpec => []HubInv
  BY HubStart, HubStepInv, PTL DEF HubSpec

(* What any viewer gets can be decoded: publish, Subscribe,                *)
(* releaseWaitingLocked and ResetForDiscontinuity, for any number of       *)
(* viewers and of sources, and any budget.                                 *)
THEOREM ViewersCanDecode == HubSpec => []StreamDecodable
  <1>1. HubInv => StreamDecodable
    <2>. SUFFICES ASSUME HubInv, NEW s \in Subs, NEW i \in 1..Len(Stream(s)) - 1
         PROVE  Continues(Stream(s)[i], Stream(s)[i + 1])
      BY DEF StreamDecodable
    <2>1. PICK c, q : c = sub[s].seen /\ q = sub[s].queue
      OBVIOUS
    <2>2. c \in Chunks /\ q \in Seq(Chunks) /\ Len(q) \in Nat
      BY <2>1, SubscriptionFields DEF HubInv, HubTypeOK
    <2>3. Joined(c, q)
      BY <2>1 DEF HubInv, Follows
    <2>4. Stream(s) = <<c>> \o q
      BY <2>1 DEF Stream
    <2>5. PICK t : t = <<c>> \o q
      OBVIOUS
    <2>6. Len(t) = Len(q) + 1 /\ t[1] = c /\ \A j \in 1..Len(q) : t[j + 1] = q[j]
      BY <2>2, <2>5
    <2>7. i \in 1..Len(q) /\ t[i + 1] = q[i]
      BY <2>2, <2>4, <2>5, <2>6
    <2>8. CASE i = 1
      BY <2>3, <2>4, <2>5, <2>6, <2>7, <2>8 DEF Joined
    <2>9. CASE i # 1
      <3>1. i - 1 \in 1..Len(q) - 1 /\ i - 1 \in 1..Len(q) /\ (i - 1) + 1 = i
        BY <2>2, <2>7, <2>9
      <3>2. t[(i - 1) + 1] = q[i - 1]
        BY <3>1, <2>6
      <3>3. Continues(q[i - 1], q[(i - 1) + 1])
        BY <3>1, <2>3 DEF Joined
      <3>. QED  BY <3>1, <3>2, <3>3, <2>4, <2>5, <2>7
    <2>. QED  BY <2>8, <2>9
  <1>. QED  BY <1>1, HubSafety, PTL


-----------------------------------------------------------------------------
(***************************************************************************)
(* The programme guide, for any document, clock, timezones, length of a    *)
(* placeholder, and number of imports and workers.                         *)
(*                                                                         *)
(* First what a guide file holds, whatever programmes it is made from:     *)
(* every hour of its window is in the first programme that ends after it,  *)
(* or in the gap before that programme; and a gap lies between the end of  *)
(* all programmes before it and the start of all after it.                 *)
(***************************************************************************)

(* Every hour from a on is in one slot.                                    *)
LEMMA SlotOf ==
    ASSUME NEW a \in Nat, NEW h \in Nat, a <= h
    PROVE  \E k \in 0..(h - a) : a + SlotLength * k <= h /\ h < a + SlotLength * k + SlotLength
  <1>0. SlotLength \in Nat \ {0}
    BY GuideAssumption
  <1>1. PICK n \in Nat : n = h - a
    OBVIOUS
  <1>2. PICK T : T = {m \in 0..n : \E k \in 0..m : SlotLength * k <= m /\ m < SlotLength * k + SlotLength}
    OBVIOUS
  <1>3. 0 \in T
    <2>1. 0 \in 0..n /\ 0 \in 0..0 /\ SlotLength * 0 = 0
      BY <1>0
    <2>2. SlotLength * 0 <= 0 /\ 0 < SlotLength * 0 + SlotLength
      BY <1>0, <2>1
    <2>. QED  BY <2>1, <2>2, <1>2
  <1>4. ASSUME NEW m \in 0..n, m \in T /\ m < n
        PROVE  m + 1 \in T
    <2>1. PICK k \in 0..m : SlotLength * k <= m /\ m < SlotLength * k + SlotLength
      BY <1>2, <1>4
    <2>2. PICK x \in Nat : x = SlotLength * k
      BY <1>0
    <2>3. SlotLength * (k + 1) = x + SlotLength
      BY <1>0, <2>2
    <2>4. m + 1 \in 0..n /\ k \in 0..m + 1 /\ k + 1 \in 0..m + 1
      BY <1>4
    <2>5. CASE m + 1 < x + SlotLength
      <3>1. SlotLength * k <= m + 1 /\ m + 1 < SlotLength * k + SlotLength
        BY <2>1, <2>2, <2>5
      <3>. QED  BY <3>1, <2>4, <1>2
    <2>6. CASE ~(m + 1 < x + SlotLength)
      <3>1. x + SlotLength <= m + 1 /\ m + 1 < x + SlotLength + SlotLength
        BY <2>1, <2>2, <2>6, <1>0
      <3>. QED  BY <3>1, <2>3, <2>4, <1>2
    <2>. QED  BY <2>5, <2>6
  <1>5. 0..n \subseteq T
    BY <1>3, <1>4, InductionTo
  <1>6. PICK k \in 0..n : SlotLength * k <= n /\ n < SlotLength * k + SlotLength
    <2>1. n \in 0..n
      OBVIOUS
    <2>. QED  BY <2>1, <1>2, <1>5
  <1>7. PICK x \in Nat : x = SlotLength * k
    BY <1>0
  <1>8. a + x <= h /\ h < a + x + SlotLength
    BY <1>0, <1>1, <1>6, <1>7
  <1>. QED  BY <1>1, <1>7, <1>8

(* Slots do not overlap.                                                   *)
LEMMA SlotsApart ==
    ASSUME NEW k \in Nat, NEW l \in Nat, k < l
    PROVE  SlotLength * k + SlotLength <= SlotLength * l /\ SlotLength * k \in Nat /\ SlotLength * l \in Nat
  <1>0. PICK n \in Nat : n = SlotLength
    BY GuideAssumption
  <1>1. PICK m \in Nat : l = k + 1 + m
    <2>1. l - k - 1 \in Nat /\ l = k + 1 + (l - k - 1)
      OBVIOUS
    <2>. QED  BY <2>1
  <1>2. PICK x \in Nat, y \in Nat : x = n * k /\ y = n * m
    OBVIOUS
  <1>3. n * l = x + n + y
    BY <1>1, <1>2
  <1>. QED  BY <1>0, <1>2, <1>3

(* What fills a gap.                                                       *)
LEMMA PlaceholdersFill ==
    ASSUME NEW a \in Nat, NEW b \in Nat
    PROVE  /\ \A e \in Placeholders(a, b) :
                 /\ e.start \in Nat /\ e.stop \in Nat /\ e.kind = "placeholder"
                 /\ a <= e.start /\ e.start < e.stop /\ e.stop <= b
           /\ \A e, f \in Placeholders(a, b) : e # f => e.stop <= f.start \/ f.stop <= e.start
           /\ \A h \in Nat : a <= h /\ h < b => \E e \in Placeholders(a, b) : e.start <= h /\ h < e.stop
  <1>0. SlotLength \in Nat \ {0}
    BY GuideAssumption
  <1>1. PICK S : S = {a + SlotLength * k : k \in 0..(IF a < b THEN b - a ELSE 0)} \cap a..(b - 1)
    OBVIOUS
  <1>2. Placeholders(a, b) = {GuideEntry(t, Sooner(t + SlotLength, b), "placeholder") : t \in S}
    BY <1>1 DEF Placeholders
  <1>3. \A t \in S : /\ t \in Nat /\ a <= t /\ t < b
                     /\ Sooner(t + SlotLength, b) \in Nat /\ t < Sooner(t + SlotLength, b)
                     /\ Sooner(t + SlotLength, b) <= b /\ Sooner(t + SlotLength, b) <= t + SlotLength
    BY <1>0, <1>1 DEF Sooner
  <1>4. ASSUME NEW e \in Placeholders(a, b)
        PROVE  \E t \in S : /\ e = GuideEntry(t, Sooner(t + SlotLength, b), "placeholder")
                            /\ e.start = t /\ e.stop = Sooner(t + SlotLength, b) /\ e.kind = "placeholder"
    BY <1>2 DEF GuideEntry
  <1>5. ASSUME NEW t \in S, NEW u \in S, t < u
        PROVE  Sooner(t + SlotLength, b) <= u
    <2>1. PICK k \in 0..(IF a < b THEN b - a ELSE 0) : t = a + SlotLength * k
      BY <1>1
    <2>2. PICK l \in 0..(IF a < b THEN b - a ELSE 0) : u = a + SlotLength * l
      BY <1>1
    <2>3. k \in Nat /\ l \in Nat
      BY <2>1, <2>2
    <2>4. CASE k < l
      <3>1. PICK x \in Nat, y \in Nat : x = SlotLength * k /\ y = SlotLength * l /\ x + SlotLength <= y
        BY <2>3, <2>4, SlotsApart
      <3>2. t + SlotLength <= u
        BY <3>1, <2>1, <2>2, <1>0
      <3>. QED  BY <3>2, <1>0, <1>3
    <2>5. CASE l < k
      <3>1. PICK x \in Nat, y \in Nat : x = SlotLength * k /\ y = SlotLength * l /\ y + SlotLength <= x
        BY <2>3, <2>5, SlotsApart
      <3>. QED  BY <3>1, <2>1, <2>2, <1>0, <1>5
    <2>6. CASE k = l
      BY <2>6, <2>1, <2>2, <1>3, <1>5
    <2>. QED  BY <2>3, <2>4, <2>5, <2>6
  <1>6. ASSUME NEW e \in Placeholders(a, b), NEW f \in Placeholders(a, b), e # f
        PROVE  e.stop <= f.start \/ f.stop <= e.start
    <2>1. PICK t \in S : /\ e = GuideEntry(t, Sooner(t + SlotLength, b), "placeholder")
                         /\ e.start = t /\ e.stop = Sooner(t + SlotLength, b)
      BY <1>4
    <2>2. PICK u \in S : /\ f = GuideEntry(u, Sooner(u + SlotLength, b), "placeholder")
                         /\ f.start = u /\ f.stop = Sooner(u + SlotLength, b)
      BY <1>4
    <2>3. t < u \/ u < t
      <3>1. t # u
        BY <1>6, <2>1, <2>2
      <3>. QED  BY <3>1, <1>3
    <2>. QED  BY <2>1, <2>2, <2>3, <1>5
  <1>7. ASSUME NEW h \in Nat, a <= h, h < b
        PROVE  \E e \in Placeholders(a, b) : e.start <= h /\ h < e.stop
    <2>1. PICK k \in 0..(h - a) : a + SlotLength * k <= h /\ h < a + SlotLength * k + SlotLength
      BY <1>7, SlotOf
    <2>2. PICK t \in Nat : t = a + SlotLength * k
      BY <1>0, <2>1
    <2>3. t \in S
      <3>1. a < b /\ k \in 0..(b - a)
        BY <1>7, <2>1
      <3>2. SlotLength * k \in Nat
        BY <1>0, <2>1
      <3>3. t \in a..(b - 1)
        BY <3>2, <1>7, <2>1, <2>2
      <3>. QED  BY <3>1, <3>3, <2>2, <1>1
    <2>4. PICK e : e = GuideEntry(t, Sooner(t + SlotLength, b), "placeholder")
      OBVIOUS
    <2>5. e \in Placeholders(a, b) /\ e.start = t /\ e.stop = Sooner(t + SlotLength, b)
      BY <2>3, <2>4, <1>2 DEF GuideEntry
    <2>6. t <= h /\ h < Sooner(t + SlotLength, b)
      BY <2>1, <2>2, <1>7 DEF Sooner
    <2>. QED  BY <2>5, <2>6
  <1>8. ASSUME NEW e \in Placeholders(a, b)
        PROVE  /\ e.start \in Nat /\ e.stop \in Nat /\ e.kind = "placeholder"
               /\ a <= e.start /\ e.start < e.stop /\ e.stop <= b
    BY <1>3, <1>4
  <1>. QED  BY <1>6, <1>7, <1>8

(* What the guide keeps of a programme, and the entries of a guide file.   *)
GuideRows == [start : 0..Horizon, stop : 0..Horizon, zone : Zones, title : Labels]
LastingRows == {r \in GuideRows : r.start < r.stop}
Entries == [start : Nat, stop : Nat, kind : {"real", "placeholder"}]

Filled(g) ==
    g.fill =>
        /\ \A h \in g.from..(g.to - 1) : \E e \in g.entries : e.start <= h /\ h < e.stop
        /\ \A e \in g.entries, f \in g.entries :
              e.kind = "placeholder" /\ e # f => e.stop <= f.start \/ f.stop <= e.start

(* The cursor is the window's start, or the end of an earlier programme,   *)
(* and none of these is later.                                             *)
LEMMA CursorPast ==
    ASSUME NEW n \in Nat, NEW s \in [1..n -> LastingRows], NEW from \in Nat, NEW i \in 1..(n + 1)
    PROVE  /\ Cursor(s, from, i) \in Nat
           /\ from <= Cursor(s, from, i)
           /\ \A k \in 1..(i - 1) : s[k].stop <= Cursor(s, from, i)
           /\ \/ Cursor(s, from, i) = from
              \/ \E k \in 1..(i - 1) : Cursor(s, from, i) = s[k].stop
  <1>0. Horizon \in Nat
    BY GuideAssumption
  <1>1. PICK S : S = {from} \cup {s[k].stop : k \in 1..(i - 1)}
    OBVIOUS
  <1>2. \A k \in 1..(i - 1) : k \in 1..n /\ s[k].stop \in 0..Horizon
    BY DEF LastingRows, GuideRows
  <1>3. S \in SUBSET (0..(from + Horizon)) /\ S # {} /\ from + Horizon \in Nat
    BY <1>0, <1>1, <1>2
  <1>4. Max(S) \in S /\ \A y \in S : y <= Max(S)
    BY <1>3, GreatestIn
  <1>5. Cursor(s, from, i) = Max(S)
    BY <1>1 DEF Cursor
  <1>6. Max(S) \in Nat
    <2>1. \A y \in S : y \in Nat
      BY <1>3
    <2>. QED  BY <2>1, <1>4
  <1>7. from \in S /\ \A k \in 1..(i - 1) : s[k].stop \in S
    BY <1>1
  <1>. QED  BY <1>1, <1>4, <1>5, <1>6, <1>7

(* A guide file that fills the gaps does, from any rows in the order of    *)
(* their start.                                                            *)
LEMMA RenderFills ==
    ASSUME NEW n \in Nat, NEW s \in [1..n -> LastingRows], NEW from \in Nat, NEW to \in Nat, NEW fill \in BOOLEAN,
           \A i, k \in 1..n : i < k => s[i].start <= s[k].start
    PROVE  /\ Render(s, from, to, fill) \in SUBSET Entries
           /\ Filled([from |-> from, to |-> to, fill |-> fill, entries |-> Render(s, from, to, fill)])
  <1>0. Len(s) = n /\ Horizon \in Nat /\ DOMAIN s = 1..n
    BY GuideAssumption
  <1>1. PICK shown : shown = {i \in 1..n : fill => Cursor(s, from, i) < to}
    OBVIOUS
  <1>2. PICK reals : reals = {GuideEntry(s[i].start, s[i].stop, "real") : i \in shown}
    OBVIOUS
  <1>3. PICK R : R = Render(s, from, to, fill)
    OBVIOUS
  <1>4. R = reals \cup (IF fill THEN UNION {Gap(s, from, to, i) : i \in 1..(n + 1)} ELSE {})
    BY <1>0, <1>1, <1>2, <1>3 DEF Render
  <1>5. \A i \in 1..n : s[i].start \in Nat /\ s[i].stop \in Nat /\ s[i].start < s[i].stop
    BY <1>0 DEF LastingRows, GuideRows
  <1>6. \A i \in 1..(n + 1) :
            \E b \in Nat : /\ Gap(s, from, to, i) = Placeholders(Cursor(s, from, i), b)
                           /\ b <= to /\ (i = n + 1 => b = to)
                           /\ i <= n => b <= s[i].start /\ (b = s[i].start \/ b = to)
    <2>. TAKE i \in 1..(n + 1)
    <2>1. CASE i = n + 1
      BY <1>0, <2>1 DEF Gap
    <2>2. CASE i \in 1..n
      <3>1. ~(i > n) /\ s[i].start \in Nat
        BY <1>5, <2>2
      <3>2. Gap(s, from, to, i) = Placeholders(Cursor(s, from, i), Sooner(s[i].start, to))
        BY <1>0, <3>1 DEF Gap
      <3>. QED  BY <3>1, <3>2, <2>2 DEF Sooner
    <2>. QED  BY <2>1, <2>2
  <1>7. \A i \in 1..(n + 1) : \A e \in Gap(s, from, to, i) :
            /\ e.start \in Nat /\ e.stop \in Nat /\ e.kind = "placeholder"
            /\ Cursor(s, from, i) <= e.start /\ e.start < e.stop /\ e.stop <= to
            /\ i <= n => e.stop <= s[i].start
    <2>. TAKE i \in 1..(n + 1)
    <2>. TAKE e \in Gap(s, from, to, i)
    <2>1. Cursor(s, from, i) \in Nat
      BY CursorPast
    <2>2. PICK b \in Nat : /\ Gap(s, from, to, i) = Placeholders(Cursor(s, from, i), b)
                           /\ b <= to
                           /\ i <= n => b <= s[i].start
      BY <1>6
    <2>3. /\ e.start \in Nat /\ e.stop \in Nat /\ e.kind = "placeholder"
          /\ Cursor(s, from, i) <= e.start /\ e.start < e.stop /\ e.stop <= b
      BY <2>1, <2>2, PlaceholdersFill
    <2>4. i <= n => s[i].start \in Nat
      BY <1>5
    <2>. QED  BY <2>2, <2>3, <2>4
  <1>8. \A e \in reals : \E i \in shown : /\ e = GuideEntry(s[i].start, s[i].stop, "real")
                                          /\ e.start = s[i].start /\ e.stop = s[i].stop /\ e.kind = "real"
    BY <1>2 DEF GuideEntry
  <1>9. R \in SUBSET Entries
    <2>1. \A e \in reals : e \in Entries
      BY <1>1, <1>5, <1>8 DEF GuideEntry, Entries
    <2>2. \A i \in 1..(n + 1) : \A e \in Gap(s, from, to, i) : e \in Entries
      <3>. TAKE i \in 1..(n + 1)
      <3>1. Cursor(s, from, i) \in Nat
        BY CursorPast
      <3>2. PICK b \in Nat : Gap(s, from, to, i) = Placeholders(Cursor(s, from, i), b)
        BY <1>6
      <3>. TAKE e \in Gap(s, from, to, i)
      <3>3. PICK x, y : e = GuideEntry(x, y, "placeholder")
        BY <3>2 DEF Placeholders
      <3>4. e = [start |-> x, stop |-> y, kind |-> "placeholder"]
        BY <3>3 DEF GuideEntry
      <3>5. x = e.start /\ y = e.stop
        BY <3>4
      <3>6. x \in Nat /\ y \in Nat
        BY <3>5, <1>7
      <3>. QED  BY <3>4, <3>6 DEF Entries
    <2>. QED  BY <2>1, <2>2, <1>4
  <1>10. ASSUME fill, NEW h \in from..(to - 1)
         PROVE  \E e \in R : e.start <= h /\ h < e.stop
    <2>1. h \in Nat /\ from <= h /\ h < to
      BY <1>10
    <2>2. ASSUME NEW i \in 1..(n + 1), \A k \in 1..(i - 1) : s[k].stop <= h
          PROVE  Cursor(s, from, i) \in Nat /\ Cursor(s, from, i) <= h
      BY <2>1, <2>2, CursorPast
    <2>3. ASSUME NEW i \in 1..(n + 1), \A k \in 1..(i - 1) : s[k].stop <= h, i <= n => h < s[i].start
          PROVE  \E e \in R : e.start <= h /\ h < e.stop
      <3>1. Cursor(s, from, i) \in Nat /\ Cursor(s, from, i) <= h
        BY <2>2, <2>3
      <3>2. PICK b \in Nat : /\ Gap(s, from, to, i) = Placeholders(Cursor(s, from, i), b)
                             /\ i = n + 1 => b = to
                             /\ i <= n => b = s[i].start \/ b = to
        BY <1>6
      <3>3. h < b
        BY <3>2, <2>1, <2>3
      <3>4. \E e \in Gap(s, from, to, i) : e.start <= h /\ h < e.stop
        BY <3>1, <3>2, <3>3, <2>1, PlaceholdersFill
      <3>. QED  BY <3>4, <1>4, <1>10
    <2>4. CASE \A k \in 1..n : s[k].stop <= h
      BY <2>3, <2>4
    <2>5. CASE \E k \in 1..n : h < s[k].stop
      <3>1. PICK T : T = {k \in 1..n : h < s[k].stop}
        OBVIOUS
      <3>2. PICK i \in T : \A k \in T : i <= k
        <4>1. T \subseteq Nat /\ T # {}
          BY <3>1, <2>5
        <4>. QED  BY <4>1, LeastNumber
      <3>3. i \in 1..n /\ h < s[i].stop /\ s[i].start \in Nat
        BY <3>1, <3>2, <1>5
      <3>4. \A k \in 1..(i - 1) : s[k].stop <= h
        <4>. TAKE k \in 1..(i - 1)
        <4>1. k \in 1..n /\ ~(i <= k)
          BY <3>3
        <4>2. k \notin T /\ s[k].stop \in Nat
          BY <4>1, <3>2, <1>5
        <4>. QED  BY <4>1, <4>2, <3>1, <2>1
      <3>5. CASE h < s[i].start
        BY <3>3, <3>4, <3>5, <2>3
      <3>6. CASE s[i].start <= h
        <4>1. Cursor(s, from, i) < to
          BY <3>3, <3>4, <2>1, <2>2
        <4>2. i \in shown
          BY <4>1, <3>3, <1>1
        <4>3. PICK e : e = GuideEntry(s[i].start, s[i].stop, "real")
          OBVIOUS
        <4>4. e \in R /\ e.start = s[i].start /\ e.stop = s[i].stop
          BY <4>2, <4>3, <1>2, <1>4 DEF GuideEntry
        <4>. QED  BY <4>4, <3>3, <3>6
      <3>. QED  BY <3>3, <3>5, <3>6, <2>1
    <2>6. \A k \in 1..n : s[k].stop \in Nat
      BY <1>5
    <2>. QED  BY <2>1, <2>4, <2>5, <2>6
  <1>11. ASSUME fill, NEW e \in R, NEW f \in R, e.kind = "placeholder", e # f
         PROVE  e.stop <= f.start \/ f.stop <= e.start
    <2>1. PICK i \in 1..(n + 1) : e \in Gap(s, from, to, i)
      <3>1. e \notin reals
        BY <1>8, <1>11
      <3>. QED  BY <3>1, <1>4
    <2>2. /\ e.start \in Nat /\ e.stop \in Nat
          /\ Cursor(s, from, i) <= e.start
          /\ i <= n => e.stop <= s[i].start
      BY <2>1, <1>7
    <2>3. Cursor(s, from, i) \in Nat /\ \A k \in 1..(i - 1) : s[k].stop <= Cursor(s, from, i)
      BY CursorPast
    <2>4. CASE f \in reals
      <3>1. PICK k \in shown : f.start = s[k].start /\ f.stop = s[k].stop
        BY <2>4, <1>8
      <3>2. k \in 1..n /\ s[k].start \in Nat /\ s[k].stop \in Nat
        BY <3>1, <1>1, <1>5
      <3>3. CASE k < i
        <4>1. k \in 1..(i - 1)
          BY <3>2, <3>3
        <4>. QED  BY <4>1, <3>1, <3>2, <2>2, <2>3
      <3>4. CASE ~(k < i)
        <4>1. i \in 1..n /\ s[i].start \in Nat
          BY <3>2, <3>4, <1>5
        <4>2. s[i].start <= s[k].start
          <5>1. CASE i = k  BY <5>1, <4>1
          <5>2. CASE i < k  BY <5>2, <4>1, <3>2
          <5>. QED  BY <5>1, <5>2, <3>2, <3>4
        <4>. QED  BY <4>1, <4>2, <3>1, <3>2, <2>2
      <3>. QED  BY <3>3, <3>4
    <2>5. ASSUME NEW k \in 1..(n + 1), f \in Gap(s, from, to, k)
          PROVE  e.stop <= f.start \/ f.stop <= e.start
      <3>1. /\ f.start \in Nat /\ f.stop \in Nat
            /\ Cursor(s, from, k) <= f.start
            /\ k <= n => f.stop <= s[k].start
        BY <2>5, <1>7
      <3>2. Cursor(s, from, k) \in Nat /\ \A m \in 1..(k - 1) : s[m].stop <= Cursor(s, from, k)
        BY CursorPast
      <3>3. CASE i = k
        <4>1. PICK b \in Nat : Gap(s, from, to, i) = Placeholders(Cursor(s, from, i), b)
          BY <1>6
        <4>. QED  BY <4>1, <3>3, <2>1, <2>3, <2>5, <1>11, PlaceholdersFill
      <3>4. CASE i < k
        <4>1. i \in 1..(k - 1) /\ i \in 1..n
          BY <3>4
        <4>2. s[i].start \in Nat /\ s[i].stop \in Nat /\ s[i].start < s[i].stop /\ s[i].stop <= Cursor(s, from, k)
          BY <4>1, <3>2, <1>5
        <4>. QED  BY <4>1, <4>2, <3>1, <3>2, <2>2
      <3>5. CASE k < i
        <4>1. k \in 1..(i - 1) /\ k \in 1..n
          BY <3>5
        <4>2. s[k].start \in Nat /\ s[k].stop \in Nat /\ s[k].start < s[k].stop /\ s[k].stop <= Cursor(s, from, i)
          BY <4>1, <2>3, <1>5
        <4>. QED  BY <4>1, <4>2, <3>1, <2>2, <2>3
      <3>. QED  BY <3>3, <3>4, <3>5
    <2>. QED  BY <2>4, <2>5, <1>4
  <1>12. PICK g : g = [from |-> from, to |-> to, fill |-> fill, entries |-> R]
    OBVIOUS
  <1>13. g.from = from /\ g.to = to /\ g.fill = fill /\ g.entries = R
    BY <1>12
  <1>14. Filled(g)
    BY <1>10, <1>11, <1>13 DEF Filled
  <1>. QED  BY <1>3, <1>9, <1>12, <1>14

-----------------------------------------------------------------------------
(***************************************************************************)
(* The state of the guide, its imports and its file.                       *)
(*                                                                         *)
(* GuideImported is not inductive.  It rests on what an import that        *)
(* nothing disturbs knows of the rows while it runs (Keeping): the rows a  *)
(* worker found are still those at the times of its programme, or expired, *)
(* another one there was stored by the same import, and every programme of *)
(* the document is still to do, being stored, expired or stored.           *)
(***************************************************************************)
Reading == {"sort", "channels", "one by one", "update", "programmes"}
Listings == UNION {[names -> Labels] : names \in SUBSET GuideNames}
GuideFiles == [from : Nat, to : Nat, fill : BOOLEAN, entries : SUBSET Entries]
Stores == [p : Lasting, row : SUBSET Nat]
Imports ==
    {q \in [at : Reading \cup {"render", "replace"}, scheduled : BOOLEAN, undisturbed : BOOLEAN,
            channels : Listings, todo : SUBSET Lasting, listed : SUBSET Lasting, new : SUBSET GuideNames,
            changed : SUBSET (GuideNames \X Nat), doing : SUBSET Stores, fill : BOOLEAN, output : GuideFiles] :
        q.new \subseteq DOMAIN q.channels /\ \A c \in q.changed : c[1] \in DOMAIN q.channels}
Rebuilds == [at : {"render", "replace"}, fill : BOOLEAN, output : GuideFiles]
Jobs == {NoGuideJob} \cup Imports \cup Rebuilds

GuideTypes ==
    /\ epgDocument \in [channels : Listings, programmes : SUBSET Lasting]
    /\ DOMAIN epgChannel \subseteq GuideNames
    /\ epgChannel \in [DOMAIN epgChannel -> [id : Nat, display : Labels]]
    /\ DOMAIN epgProgramme \subseteq 1..(guideTally.id - 1)
    /\ epgProgramme \in [DOMAIN epgProgramme -> LastingRows]
    /\ zone \in Zones
    /\ hour \in Nat /\ History <= hour
    /\ fillMissing \in BOOLEAN
    /\ guideJob \in [GuideJobs -> Jobs]
    /\ xmltv \in GuideFiles
    /\ guideTally \in [id : Nat \ {0}, edits : Nat, runs : Nat]

FilesFilled ==
    /\ Filled(xmltv)
    /\ \A j \in GuideJobs : guideJob[j].at # "idle" => Filled(guideJob[j].output)

OneRowEach ==
    \A i, k \in DOMAIN epgProgramme :
        /\ epgProgramme[i].start = epgProgramme[k].start
        /\ epgProgramme[i].stop = epgProgramme[k].stop
        /\ epgProgramme[i].zone = epgProgramme[k].zone
        => i = k

\* Row r is what document doc lists at its times.
Listing(doc, r) == \E q \in doc : q.start = r.start /\ q.stop = r.stop /\ q.title = r.title

StoresRead ==
    \A j \in GuideImporting :
        /\ guideJob[j].at # "programmes" => guideJob[j].doing = {} /\ guideJob[j].todo = guideJob[j].listed
        /\ guideJob[j].todo \subseteq guideJob[j].listed
        /\ \A d \in guideJob[j].doing : /\ d.p \in guideJob[j].listed
                                        /\ d.row \subseteq 1..(guideTally.id - 1)
                                        /\ \A i, k \in d.row : i = k

Alone == \A j, k \in GuideImporting : guideJob[j].undisturbed => j = k

Keeping ==
    \A j \in GuideImporting : guideJob[j].undisturbed =>
        /\ \A p \in guideJob[j].listed :
              \/ p \in guideJob[j].todo
              \/ \E d \in guideJob[j].doing : d.p = p
              \/ GuideExpired(p)
              \/ \E i \in SameSlot(p) : Listing(guideJob[j].listed, epgProgramme[i])
        /\ \A d \in guideJob[j].doing :
              /\ d.row \cap DOMAIN epgProgramme \subseteq SameSlot(d.p)
              /\ d.row = {} \/ GuideExpired(d.p) \/ d.row \cap DOMAIN epgProgramme # {}
              /\ \A i \in SameSlot(d.p) \ d.row : Listing(guideJob[j].listed, epgProgramme[i])

GuideInv == GuideTypes /\ FilesFilled /\ OneRowEach /\ StoresRead /\ Alone /\ Keeping

LEMMA JobKinds ==
    ASSUME NEW q \in Jobs
    PROVE  /\ q.at \in Reading => q \in Imports
           /\ q.at \in {"render", "replace"} => q \in Imports \cup Rebuilds /\ q.fill \in BOOLEAN /\ q.output \in GuideFiles
           /\ q.at \notin {"idle", "render", "replace"} => q.at \in Reading /\ q \in Imports
           /\ q.at \in Reading \cup {"idle", "render", "replace"}
  <1>1. NoGuideJob.at = "idle"
    BY DEF NoGuideJob
  <1>2. \A r \in Imports : r.at \in Reading \cup {"render", "replace"} /\ r.fill \in BOOLEAN /\ r.output \in GuideFiles
    BY DEF Imports
  <1>3. \A r \in Rebuilds : r.at \in {"render", "replace"} /\ r.fill \in BOOLEAN /\ r.output \in GuideFiles
    BY DEF Rebuilds
  <1>4. q = NoGuideJob \/ q \in Imports \/ q \in Rebuilds
    BY DEF Jobs
  <1>. QED  BY <1>1, <1>2, <1>3, <1>4 DEF Reading

(* Nothing is lost of the rows that a job is read with.                    *)
LEMMA DisturbedJobs ==
    ASSUME GuideTypes
    PROVE  /\ Disturbed \in [GuideJobs -> Jobs]
           /\ \A j \in GuideJobs :
                 /\ j \notin GuideImporting => Disturbed[j] = guideJob[j]
                 /\ j \in GuideImporting =>
                       /\ Disturbed[j] = [guideJob[j] EXCEPT !.undisturbed = FALSE]
                       /\ ~Disturbed[j].undisturbed
                       /\ Disturbed[j] \in Imports
                       /\ Disturbed[j].at = guideJob[j].at
                       /\ Disturbed[j].todo = guideJob[j].todo
                       /\ Disturbed[j].listed = guideJob[j].listed
                       /\ Disturbed[j].doing = guideJob[j].doing
                       /\ Disturbed[j].output = guideJob[j].output
  <1>1. ASSUME NEW j \in GuideImporting
        PROVE  j \in GuideJobs /\ guideJob[j] \in Imports
    <2>1. j \in GuideJobs /\ guideJob[j].at \notin {"idle", "render", "replace"}
      BY <1>1 DEF GuideImporting
    <2>2. guideJob[j] \in Jobs
      BY <2>1 DEF GuideTypes
    <2>. QED  BY <2>1, <2>2, JobKinds
  <1>2. ASSUME NEW r \in Imports, NEW e, e = [r EXCEPT !.undisturbed = FALSE]
        PROVE  /\ e \in Imports /\ e.at = r.at /\ e.todo = r.todo /\ e.listed = r.listed
               /\ e.doing = r.doing /\ e.output = r.output /\ ~e.undisturbed
    BY <1>2 DEF Imports
  <1>3. \A j \in GuideJobs : /\ j \notin GuideImporting => Disturbed[j] = guideJob[j]
                             /\ j \in GuideImporting => Disturbed[j] = [guideJob[j] EXCEPT !.undisturbed = FALSE]
    BY DEF Disturbed
  <1>4. \A j \in GuideJobs : Disturbed[j] \in Jobs
    <2>. TAKE j \in GuideJobs
    <2>1. CASE j \in GuideImporting
      BY <2>1, <1>1, <1>2, <1>3 DEF Jobs
    <2>2. CASE j \notin GuideImporting
      BY <2>2, <1>3 DEF GuideTypes
    <2>. QED  BY <2>1, <2>2
  <1>5. Disturbed \in [GuideJobs -> Jobs]
    BY <1>4 DEF Disturbed
  <1>6. ASSUME NEW j \in GuideImporting
        PROVE  /\ Disturbed[j] = [guideJob[j] EXCEPT !.undisturbed = FALSE]
               /\ ~Disturbed[j].undisturbed
               /\ Disturbed[j] \in Imports
               /\ Disturbed[j].at = guideJob[j].at
               /\ Disturbed[j].todo = guideJob[j].todo
               /\ Disturbed[j].listed = guideJob[j].listed
               /\ Disturbed[j].doing = guideJob[j].doing
               /\ Disturbed[j].output = guideJob[j].output
    <2>1. PICK e : e = [guideJob[j] EXCEPT !.undisturbed = FALSE]
      OBVIOUS
    <2>2. Disturbed[j] = e
      BY <2>1, <1>1, <1>3
    <2>. QED  BY <2>1, <2>2, <1>1, <1>2
  <1>. QED  BY <1>3, <1>5, <1>6

LEMMA OneJobMoves ==
    ASSUME GuideTypes, NEW j \in GuideJobs, NEW e \in Jobs, guideJob' = [guideJob EXCEPT ![j] = e]
    PROVE  /\ guideJob' \in [GuideJobs -> Jobs]
           /\ guideJob'[j] = e
           /\ \A k \in GuideJobs : k # j => guideJob'[k] = guideJob[k]
  BY DEF GuideTypes

(* A job that reads what it read before, with nothing more in its workers' *)
(* hands.                                                                  *)
JobGoesOn(k) ==
    /\ k \in GuideImporting
    /\ guideJob'[k].listed = guideJob[k].listed
    /\ guideJob'[k].doing \subseteq guideJob[k].doing
    /\ guideJob'[k].todo \subseteq guideJob[k].todo
    /\ guideJob'[k].at # "programmes" =>
          /\ guideJob[k].at # "programmes"
          /\ guideJob'[k].doing = guideJob[k].doing /\ guideJob'[k].todo = guideJob[k].todo
    /\ guideJob'[k].undisturbed =>
          /\ guideJob[k].undisturbed /\ GuideImporting' \subseteq GuideImporting
          /\ guideJob'[k].doing = guideJob[k].doing /\ guideJob'[k].todo = guideJob[k].todo

(* A job that begins.                                                      *)
JobBegins(k) ==
    /\ guideJob'[k].at = "sort" /\ guideJob'[k].doing = {} /\ guideJob'[k].todo = guideJob'[k].listed
    /\ guideJob'[k].undisturbed => GuideImporting' = {k}

(* Steps that leave the rows alone, in the timezone of before unless every *)
(* import is disturbed.                                                    *)
LEMMA RowsStay ==
    ASSUME GuideInv, GuideTypes', epgProgramme' = epgProgramme, hour <= hour', guideTally.id <= guideTally'.id,
           \A k \in GuideImporting' : JobGoesOn(k) \/ JobBegins(k),
           zone' = zone \/ \A k \in GuideImporting' : ~guideJob'[k].undisturbed
    PROVE  OneRowEach' /\ StoresRead' /\ Alone' /\ Keeping'
  <1>1. OneRowEach'
    BY DEF GuideInv, OneRowEach
  <1>2. StoresRead'
    <2>1. 1..(guideTally.id - 1) \subseteq 1..(guideTally'.id - 1)
      BY DEF GuideInv, GuideTypes
    <2>2. ASSUME NEW k \in GuideImporting', JobGoesOn(k)
          PROVE  /\ guideJob'[k].at # "programmes" => guideJob'[k].doing = {} /\ guideJob'[k].todo = guideJob'[k].listed
                 /\ guideJob'[k].todo \subseteq guideJob'[k].listed
                 /\ \A d \in guideJob'[k].doing : /\ d.p \in guideJob'[k].listed
                                                  /\ d.row \subseteq 1..(guideTally'.id - 1)
                                                  /\ \A i, l \in d.row : i = l
      BY <2>1, <2>2 DEF JobGoesOn, GuideInv, StoresRead
    <2>3. ASSUME NEW k \in GuideImporting', JobBegins(k)
          PROVE  /\ guideJob'[k].at # "programmes" => guideJob'[k].doing = {} /\ guideJob'[k].todo = guideJob'[k].listed
                 /\ guideJob'[k].todo \subseteq guideJob'[k].listed
                 /\ \A d \in guideJob'[k].doing : /\ d.p \in guideJob'[k].listed
                                                  /\ d.row \subseteq 1..(guideTally'.id - 1)
                                                  /\ \A i, l \in d.row : i = l
      BY <2>3 DEF JobBegins
    <2>. QED  BY <2>2, <2>3 DEF StoresRead
  <1>3. Alone'
    BY DEF GuideInv, Alone, JobGoesOn, JobBegins
  <1>4. Keeping'
    <2>1. SUFFICES ASSUME NEW k \in GuideImporting', guideJob'[k].undisturbed
          PROVE  /\ \A p \in guideJob'[k].listed :
                      \/ p \in guideJob'[k].todo
                      \/ \E d \in guideJob'[k].doing : d.p = p
                      \/ GuideExpired(p)'
                      \/ \E i \in SameSlot(p)' : Listing(guideJob'[k].listed, epgProgramme'[i])
                 /\ \A d \in guideJob'[k].doing :
                      /\ d.row \cap DOMAIN epgProgramme' \subseteq SameSlot(d.p)'
                      /\ d.row = {} \/ GuideExpired(d.p)' \/ d.row \cap DOMAIN epgProgramme' # {}
                      /\ \A i \in SameSlot(d.p)' \ d.row : Listing(guideJob'[k].listed, epgProgramme'[i])
      BY DEF Keeping, Listing
    <2>2. zone' = zone
      BY <2>1
    <2>3. \A p : SameSlot(p)' = SameSlot(p)
      BY <2>2 DEF SameSlot
    <2>4. \A p \in Lasting : GuideExpired(p) => GuideExpired(p)'
      <3>. SUFFICES ASSUME NEW p \in Lasting, p.stop < hour - History
                    PROVE  p.stop < hour' - History
        BY GuideAssumption DEF GuideExpired
      <3>1. p.stop \in Nat
        BY GuideAssumption DEF Lasting, Programmes
      <3>2. History \in Nat /\ hour \in Nat /\ hour' \in Nat
        BY GuideAssumption DEF GuideInv, GuideTypes
      <3>. QED  BY <3>1, <3>2
    <2>5. CASE JobBegins(k)
      BY <2>1, <2>5 DEF JobBegins
    <2>6. CASE JobGoesOn(k)
      <3>1. /\ k \in GuideImporting /\ guideJob[k].undisturbed
            /\ guideJob'[k].listed = guideJob[k].listed
            /\ guideJob'[k].doing = guideJob[k].doing /\ guideJob'[k].todo = guideJob[k].todo
        BY <2>1, <2>6 DEF JobGoesOn
      <3>2. guideJob[k] \in Imports
        <4>1. k \in GuideJobs /\ guideJob[k].at \notin {"idle", "render", "replace"}
          BY <3>1 DEF GuideImporting
        <4>2. guideJob[k] \in Jobs
          BY <4>1 DEF GuideInv, GuideTypes
        <4>. QED  BY <4>1, <4>2, JobKinds
      <3>3. guideJob[k].listed \subseteq Lasting /\ \A d \in guideJob[k].doing : d.p \in Lasting
        BY <3>2 DEF Imports, Stores
      <3>4. /\ \A p \in guideJob[k].listed :
                 \/ p \in guideJob[k].todo
                 \/ \E d \in guideJob[k].doing : d.p = p
                 \/ GuideExpired(p)
                 \/ \E i \in SameSlot(p) : Listing(guideJob[k].listed, epgProgramme[i])
            /\ \A d \in guideJob[k].doing :
                 /\ d.row \cap DOMAIN epgProgramme \subseteq SameSlot(d.p)
                 /\ d.row = {} \/ GuideExpired(d.p) \/ d.row \cap DOMAIN epgProgramme # {}
                 /\ \A i \in SameSlot(d.p) \ d.row : Listing(guideJob[k].listed, epgProgramme[i])
        BY <3>1 DEF GuideInv, Keeping
      <3>5. \A d \in guideJob[k].doing : GuideExpired(d.p) => GuideExpired(d.p)'
        BY <3>3, <2>4
      <3>6. \A p \in guideJob[k].listed : GuideExpired(p) => GuideExpired(p)'
        BY <3>3, <2>4
      <3>. QED  BY <3>1, <3>4, <3>5, <3>6, <2>3
    <2>. QED  BY <2>1, <2>5, <2>6
  <1>. QED  BY <1>1, <1>2, <1>3, <1>4

TallyTypes == [id : Nat \ {0}, edits : Nat, runs : Nat]
ChannelTypes ==
    /\ DOMAIN epgChannel \subseteq GuideNames
    /\ epgChannel \in [DOMAIN epgChannel -> [id : Nat, display : Labels]]

LEMMA ReadsOn ==
    ASSUME GuideInv, NEW j \in GuideJobs, guideJob[j].at \in Reading, guideJob[j].at # "programmes",
           NEW e \in Imports, e.at \in Reading,
           e.undisturbed = guideJob[j].undisturbed, e.todo = guideJob[j].todo, e.listed = guideJob[j].listed,
           e.doing = guideJob[j].doing, e.output = guideJob[j].output,
           guideJob' = [guideJob EXCEPT ![j] = e],
           epgDocument' = epgDocument, epgProgramme' = epgProgramme, zone' = zone, hour' = hour,
           fillMissing' = fillMissing, xmltv' = xmltv,
           ChannelTypes', guideTally' \in TallyTypes, guideTally.id <= guideTally'.id
    PROVE  GuideInv'
  <1>1. GuideTypes
    BY DEF GuideInv
  <1>2. /\ guideJob' \in [GuideJobs -> Jobs]
        /\ guideJob'[j] = e
        /\ \A k \in GuideJobs : k # j => guideJob'[k] = guideJob[k]
    <2>1. e \in Jobs
      BY DEF Jobs
    <2>. QED  BY <1>1, <2>1, OneJobMoves
  <1>3. GuideTypes'
    <2>1. DOMAIN epgProgramme \subseteq 1..(guideTally'.id - 1)
      BY <1>1 DEF GuideTypes, TallyTypes
    <2>. QED  BY <1>1, <1>2, <2>1 DEF GuideTypes, TallyTypes, ChannelTypes
  <1>4. FilesFilled'
    <2>1. guideJob[j].at # "idle"
      BY DEF Reading
    <2>2. FilesFilled
      BY DEF GuideInv
    <2>. QED  BY <1>2, <2>1, <2>2 DEF FilesFilled
  <1>5. j \in GuideImporting /\ GuideImporting' \subseteq GuideImporting
    BY <1>2 DEF GuideImporting, Reading
  <1>6. \A k \in GuideImporting' : JobGoesOn(k)
    <2>. TAKE k \in GuideImporting'
    <2>1. k \in GuideJobs
      BY DEF GuideImporting
    <2>2. CASE k = j
      BY <2>2, <1>2, <1>5 DEF JobGoesOn
    <2>3. CASE k # j
      BY <2>1, <2>3, <1>2, <1>5 DEF JobGoesOn
    <2>. QED  BY <2>2, <2>3
  <1>7. hour <= hour'
    BY <1>1 DEF GuideTypes
  <1>8. OneRowEach' /\ StoresRead' /\ Alone' /\ Keeping'
    BY <1>3, <1>6, <1>7, RowsStay
  <1>. QED  BY <1>3, <1>4, <1>8 DEF GuideInv

(* The channels of the document are sorted into new and changed ones, and  *)
(* stored.                                                                 *)
LEMMA ChannelsStored ==
    ASSUME GuideInv, NEW j \in GuideJobs,
           SortChannels(j) \/ CreateChannels(j) \/ UpdateChannel(j) \/ \E n \in GuideNames : CreateGuideChannel(j, n)
    PROVE  GuideInv'
  <1>1. GuideTypes
    BY DEF GuideInv
  <1>2. guideJob[j].at \in Reading /\ guideJob[j].at # "programmes"
    BY DEF SortChannels, CreateChannels, UpdateChannel, CreateGuideChannel, Reading
  <1>3. PICK q \in Imports : q = guideJob[j]
    <2>1. guideJob[j] \in Jobs
      BY <1>1 DEF GuideTypes
    <2>. QED  BY <1>2, <2>1, JobKinds
  <1>4. ChannelTypes /\ guideTally \in TallyTypes /\ guideJob \in [GuideJobs -> Jobs]
    BY <1>1 DEF GuideTypes, ChannelTypes, TallyTypes
  <1>5. guideTally.id <= guideTally.id
    BY <1>4 DEF TallyTypes
  <1>6. PICK t : t = [guideTally EXCEPT !.id = @ + 1]
    OBVIOUS
  <1>7. t \in TallyTypes /\ guideTally.id <= t.id
    BY <1>4, <1>6 DEF TallyTypes
  <1>8. q.channels \in Listings /\ q.new \subseteq GuideNames /\ q.changed \subseteq GuideNames \X Nat
    BY DEF Imports
  <1>9. /\ DOMAIN q.channels \subseteq GuideNames
        /\ q.channels \in [DOMAIN q.channels -> Labels]
    BY <1>8 DEF Listings
  <1>10. CASE SortChannels(j)
    <2>1. PICK e : e = [q EXCEPT !.at = "channels", !.new = DOMAIN q.channels \ DOMAIN epgChannel,
                            !.changed = {<<n, epgChannel[n].id>> :
                                n \in {m \in DOMAIN q.channels \cap DOMAIN epgChannel : epgChannel[m].display # q.channels[m]}}]
      OBVIOUS
    <2>2. guideJob' = [guideJob EXCEPT ![j] = e]
      BY <1>10, <2>1, <1>3, <1>4 DEF SortChannels
    <2>3. e.changed \subseteq GuideNames \X Nat /\ \A c \in e.changed : c[1] \in DOMAIN q.channels
      BY <2>1, <1>4, <1>9 DEF Imports, ChannelTypes
    <2>4. e.new \subseteq GuideNames /\ e.new \subseteq DOMAIN q.channels
      BY <2>1, <1>9 DEF Imports
    <2>5. /\ e \in Imports /\ e.at \in Reading
          /\ e.undisturbed = q.undisturbed /\ e.todo = q.todo /\ e.listed = q.listed
          /\ e.doing = q.doing /\ e.output = q.output
      BY <2>1, <2>3, <2>4 DEF Imports, Reading
    <2>6. /\ epgDocument' = epgDocument /\ epgProgramme' = epgProgramme /\ zone' = zone /\ hour' = hour
          /\ fillMissing' = fillMissing /\ xmltv' = xmltv /\ epgChannel' = epgChannel /\ guideTally' = guideTally
      BY <1>10 DEF SortChannels
    <2>7. ChannelTypes'
      BY <2>6, <1>4 DEF ChannelTypes
    <2>. QED  BY <2>2, <2>5, <2>6, <2>7, <1>2, <1>3, <1>4, <1>5, ReadsOn
  <1>11. ASSUME NEW names \in SUBSET GuideNames, NEW r, r = AddChannels(names, q), names \subseteq DOMAIN q.channels
         PROVE  DOMAIN r \subseteq GuideNames /\ r \in [DOMAIN r -> [id : Nat, display : Labels]]
    BY <1>11, <1>4, <1>9 DEF AddChannels, ChannelTypes, TallyTypes
  <1>12. CASE CreateChannels(j)
    <2>1. CASE q.new \cap DOMAIN epgChannel = {}
      <3>1. PICK e : e = [q EXCEPT !.at = "update", !.new = {}]
        OBVIOUS
      <3>2. guideJob' = [guideJob EXCEPT ![j] = e]
        BY <1>12, <2>1, <3>1, <1>3, <1>4 DEF CreateChannels
      <3>3. /\ e \in Imports /\ e.at \in Reading
            /\ e.undisturbed = q.undisturbed /\ e.todo = q.todo /\ e.listed = q.listed
            /\ e.doing = q.doing /\ e.output = q.output
        BY <3>1 DEF Imports, Reading
      <3>4. /\ epgDocument' = epgDocument /\ epgProgramme' = epgProgramme /\ zone' = zone /\ hour' = hour
            /\ fillMissing' = fillMissing /\ xmltv' = xmltv
            /\ epgChannel' = AddChannels(q.new, q) /\ guideTally' = t
        BY <1>12, <2>1, <1>3, <1>6 DEF CreateChannels
      <3>5. ChannelTypes'
        <4>1. q.new \in SUBSET GuideNames /\ q.new \subseteq DOMAIN q.channels
          BY DEF Imports
        <4>. QED  BY <4>1, <3>4, <1>11 DEF ChannelTypes
      <3>. QED  BY <3>2, <3>3, <3>4, <3>5, <1>2, <1>3, <1>7, ReadsOn
    <2>2. CASE q.new \cap DOMAIN epgChannel # {}
      <3>1. PICK e : e = [q EXCEPT !.at = "one by one"]
        OBVIOUS
      <3>2. guideJob' = [guideJob EXCEPT ![j] = e]
        BY <1>12, <2>2, <3>1, <1>3, <1>4 DEF CreateChannels
      <3>3. /\ e \in Imports /\ e.at \in Reading
            /\ e.undisturbed = q.undisturbed /\ e.todo = q.todo /\ e.listed = q.listed
            /\ e.doing = q.doing /\ e.output = q.output
        BY <3>1 DEF Imports, Reading
      <3>4. /\ epgDocument' = epgDocument /\ epgProgramme' = epgProgramme /\ zone' = zone /\ hour' = hour
            /\ fillMissing' = fillMissing /\ xmltv' = xmltv /\ epgChannel' = epgChannel /\ guideTally' = guideTally
        BY <1>12, <2>2, <1>3 DEF CreateChannels
      <3>5. ChannelTypes'
        BY <3>4, <1>4 DEF ChannelTypes
      <3>. QED  BY <3>2, <3>3, <3>4, <3>5, <1>2, <1>3, <1>4, <1>5, ReadsOn
    <2>. QED  BY <2>1, <2>2
  <1>13. ASSUME NEW n \in GuideNames, CreateGuideChannel(j, n)
         PROVE  GuideInv'
    <2>1. n \in q.new /\ n \in DOMAIN q.channels /\ q.channels[n] \in Labels
      BY <1>13, <1>3, <1>9 DEF CreateGuideChannel, Imports
    <2>2. PICK e : e = [q EXCEPT !.new = @ \ {n}, !.at = IF q.new = {n} THEN "update" ELSE @]
      OBVIOUS
    <2>3. guideJob' = [guideJob EXCEPT ![j] = e]
      BY <1>13, <2>2, <1>3, <1>4 DEF CreateGuideChannel
    <2>4. /\ e \in Imports /\ e.at \in Reading
          /\ e.undisturbed = q.undisturbed /\ e.todo = q.todo /\ e.listed = q.listed
          /\ e.doing = q.doing /\ e.output = q.output
      <3>1. PICK left : left = q.new \ {n}
        OBVIOUS
      <3>2. PICK at : at = IF q.new = {n} THEN "update" ELSE q.at
        OBVIOUS
      <3>3. /\ left \in SUBSET GuideNames /\ left \subseteq DOMAIN q.channels /\ at \in Reading
        BY <3>1, <3>2, <1>2, <1>3 DEF Imports, Reading
      <3>4. e = [q EXCEPT !.new = left, !.at = at]
        BY <2>2, <3>1, <3>2
      <3>. QED  BY <3>3, <3>4 DEF Imports
    <2>5. /\ epgDocument' = epgDocument /\ epgProgramme' = epgProgramme /\ zone' = zone /\ hour' = hour
          /\ fillMissing' = fillMissing /\ xmltv' = xmltv /\ guideTally' = t
          /\ epgChannel' = IF n \in DOMAIN epgChannel THEN [epgChannel EXCEPT ![n].display = q.channels[n]]
                           ELSE AddChannels({n}, q)
      BY <1>13, <1>3, <1>6 DEF CreateGuideChannel
    <2>6. ChannelTypes'
      <3>1. CASE n \in DOMAIN epgChannel
        <4>1. PICK r : r = [epgChannel[n] EXCEPT !.display = q.channels[n]]
          OBVIOUS
        <4>2. r \in [id : Nat, display : Labels]
          BY <4>1, <3>1, <2>1, <1>4 DEF ChannelTypes
        <4>3. epgChannel' = [epgChannel EXCEPT ![n] = r]
          BY <4>1, <3>1, <2>5
        <4>. QED  BY <4>2, <4>3, <3>1, <1>4 DEF ChannelTypes
      <3>2. CASE n \notin DOMAIN epgChannel
        <4>1. {n} \in SUBSET GuideNames /\ {n} \subseteq DOMAIN q.channels
          BY <2>1
        <4>. QED  BY <4>1, <3>2, <2>5, <1>11 DEF ChannelTypes
      <3>. QED  BY <3>1, <3>2
    <2>. QED  BY <2>3, <2>4, <2>5, <2>6, <1>2, <1>3, <1>7, ReadsOn
  <1>14. CASE UpdateChannel(j)
    <2>0. /\ epgDocument' = epgDocument /\ epgProgramme' = epgProgramme /\ zone' = zone /\ hour' = hour
          /\ fillMissing' = fillMissing /\ xmltv' = xmltv /\ guideTally' = guideTally
      BY <1>14 DEF UpdateChannel
    <2>1. CASE q.changed = {}
      <3>1. PICK e : e = [q EXCEPT !.at = "programmes"]
        OBVIOUS
      <3>2. guideJob' = [guideJob EXCEPT ![j] = e] /\ epgChannel' = epgChannel
        BY <1>14, <2>1, <3>1, <1>3, <1>4 DEF UpdateChannel
      <3>3. /\ e \in Imports /\ e.at \in Reading
            /\ e.undisturbed = q.undisturbed /\ e.todo = q.todo /\ e.listed = q.listed
            /\ e.doing = q.doing /\ e.output = q.output
        BY <3>1 DEF Imports, Reading
      <3>4. ChannelTypes'
        BY <3>2, <1>4 DEF ChannelTypes
      <3>. QED  BY <3>2, <3>3, <3>4, <2>0, <1>2, <1>3, <1>4, <1>5, ReadsOn
    <2>2. CASE q.changed # {}
      <3>1. PICK c \in q.changed :
                /\ epgChannel' = [n \in DOMAIN epgChannel |->
                                     IF n = c[1] /\ epgChannel[n].id = c[2]
                                     THEN [epgChannel[n] EXCEPT !.display = q.channels[n]]
                                     ELSE epgChannel[n]]
                /\ guideJob' = [guideJob EXCEPT ![j].changed = @ \ {c}]
        BY <1>14, <2>2, <1>3 DEF UpdateChannel
      <3>2. PICK e : e = [q EXCEPT !.changed = @ \ {c}]
        OBVIOUS
      <3>3. guideJob' = [guideJob EXCEPT ![j] = e]
        BY <3>1, <3>2, <1>3, <1>4
      <3>4. /\ e \in Imports /\ e.at \in Reading
            /\ e.undisturbed = q.undisturbed /\ e.todo = q.todo /\ e.listed = q.listed
            /\ e.doing = q.doing /\ e.output = q.output
        BY <3>2, <1>2, <1>3 DEF Imports
      <3>5. ChannelTypes'
        <4>1. c[1] \in DOMAIN q.channels
          BY DEF Imports
        <4>2. ASSUME NEW n \in DOMAIN epgChannel, n \in DOMAIN q.channels
              PROVE  [epgChannel[n] EXCEPT !.display = q.channels[n]] \in [id : Nat, display : Labels]
          <5>1. epgChannel[n] \in [id : Nat, display : Labels] /\ q.channels[n] \in Labels
            BY <4>2, <1>4, <1>9 DEF ChannelTypes
          <5>. QED  BY <5>1
        <4>3. \A n \in DOMAIN epgChannel : epgChannel'[n] \in [id : Nat, display : Labels]
          BY <3>1, <4>1, <4>2, <1>4 DEF ChannelTypes
        <4>4. DOMAIN epgChannel' = DOMAIN epgChannel
          BY <3>1
        <4>. QED  BY <3>1, <4>3, <4>4, <1>4 DEF ChannelTypes
      <3>. QED  BY <3>3, <3>4, <3>5, <2>0, <1>2, <1>3, <1>4, <1>5, ReadsOn
    <2>. QED  BY <2>1, <2>2
  <1>. QED  BY <1>10, <1>12, <1>13, <1>14

(* An import begins; another that runs is disturbed.                       *)
LEMMA ImportBegins ==
    ASSUME GuideInv, NEW j \in GuideJobs, NEW scheduled \in BOOLEAN, BeginGuideImport(j, scheduled)
    PROVE  GuideInv'
  <1>1. GuideTypes /\ FilesFilled
    BY DEF GuideInv
  <1>2. guideJob[j].at = "idle" /\ j \notin GuideImporting
    BY DEF BeginGuideImport, GuideImporting
  <1>3. PICK fresh : fresh = {p \in epgDocument.programmes : ~GuideExpired(p)}
    OBVIOUS
  <1>4. PICK e : e = [at |-> "sort", scheduled |-> scheduled, undisturbed |-> GuideImporting = {},
                      channels |-> epgDocument.channels, todo |-> fresh, listed |-> fresh,
                      new |-> {}, changed |-> {}, doing |-> {}, fill |-> FALSE, output |-> NoGuideFile]
    OBVIOUS
  <1>5. guideJob' = [Disturbed EXCEPT ![j] = e]
    BY <1>3, <1>4 DEF BeginGuideImport
  <1>6. NoGuideFile \in GuideFiles /\ Filled(NoGuideFile)
    BY DEF NoGuideFile, GuideFiles, Filled
  <1>7. e \in Imports
    <2>1. fresh \subseteq Lasting /\ epgDocument.channels \in Listings
      BY <1>1, <1>3 DEF GuideTypes
    <2>. QED  BY <1>4, <1>6, <2>1 DEF Imports, Reading
  <1>8. /\ Disturbed \in [GuideJobs -> Jobs]
        /\ \A k \in GuideJobs :
             /\ k \notin GuideImporting => Disturbed[k] = guideJob[k]
             /\ k \in GuideImporting =>
                   /\ ~Disturbed[k].undisturbed
                   /\ Disturbed[k].at = guideJob[k].at
                   /\ Disturbed[k].todo = guideJob[k].todo
                   /\ Disturbed[k].listed = guideJob[k].listed
                   /\ Disturbed[k].doing = guideJob[k].doing
                   /\ Disturbed[k].output = guideJob[k].output
    BY <1>1, DisturbedJobs
  <1>9. /\ guideJob' \in [GuideJobs -> Jobs] /\ guideJob'[j] = e
        /\ \A k \in GuideJobs : k # j => guideJob'[k] = Disturbed[k]
    BY <1>5, <1>7, <1>8 DEF Jobs
  <1>10. GuideTypes' /\ guideTally.id <= guideTally'.id /\ hour <= hour' /\ epgProgramme' = epgProgramme /\ zone' = zone
    BY <1>1, <1>9 DEF BeginGuideImport, GuideTypes
  <1>11. FilesFilled'
    <2>1. xmltv' = xmltv
      BY DEF BeginGuideImport
    <2>2. Filled(guideJob'[j].output)
      BY <1>4, <1>6, <1>9
    <2>3. ASSUME NEW k \in GuideJobs, k # j, guideJob'[k].at # "idle"
          PROVE  Filled(guideJob'[k].output)
      <3>1. guideJob'[k].at = guideJob[k].at /\ guideJob'[k].output = guideJob[k].output
        BY <2>3, <1>8, <1>9
      <3>. QED  BY <3>1, <2>3, <1>1 DEF FilesFilled
    <2>. QED  BY <2>1, <2>2, <2>3, <1>1 DEF FilesFilled
  <1>12. GuideImporting' = GuideImporting \cup {j}
    <2>1. e.at = "sort"
      BY <1>4
    <2>2. \A k \in GuideJobs : k # j => guideJob'[k].at = guideJob[k].at
      BY <1>8, <1>9
    <2>. QED  BY <2>1, <2>2, <1>9 DEF GuideImporting
  <1>13. \A k \in GuideImporting' : JobGoesOn(k) \/ JobBegins(k)
    <2>. TAKE k \in GuideImporting'
    <2>1. CASE k = j
      <3>1. e.at = "sort" /\ e.doing = {} /\ e.todo = e.listed
        BY <1>4
      <3>2. e.undisturbed = (GuideImporting = {})
        BY <1>4
      <3>3. guideJob'[k] = e
        BY <2>1, <1>9
      <3>4. guideJob'[k].undisturbed => GuideImporting' = {k}
        BY <2>1, <3>2, <3>3, <1>12
      <3>. QED  BY <3>1, <3>3, <3>4 DEF JobBegins
    <2>2. CASE k # j
      <3>1. k \in GuideImporting /\ k \in GuideJobs
        BY <2>2, <1>12 DEF GuideImporting
      <3>. QED  BY <3>1, <2>2, <1>8, <1>9 DEF JobGoesOn
    <2>. QED  BY <2>1, <2>2
  <1>14. OneRowEach' /\ StoresRead' /\ Alone' /\ Keeping'
    BY <1>10, <1>13, RowsStay
  <1>. QED  BY <1>10, <1>11, <1>14 DEF GuideInv

(* The window's rows, in some order of their start.                        *)
LEMMA WindowRows ==
    ASSUME GuideTypes, NEW from, NEW to, NEW s \in InOrder(InWindow(from, to))
    PROVE  \E n \in Nat : /\ s \in [1..n -> LastingRows]
                          /\ \A i, k \in 1..n : i < k => s[i].start <= s[k].start
  <1>1. PICK D : D = {k \in DOMAIN epgProgramme : /\ epgProgramme[k].start + epgProgramme[k].zone < to + zone
                                                  /\ epgProgramme[k].stop + epgProgramme[k].zone > from + zone}
    OBVIOUS
  <1>2. PICK R : R = {epgProgramme[i] : i \in D}
    OBVIOUS
  <1>3. InWindow(from, to) = R
    BY <1>1, <1>2 DEF InWindow
  <1>4. IsFiniteSet(D)
    <2>1. IsFiniteSet(1..(guideTally.id - 1))
      <3>1. guideTally.id - 1 \in Int /\ 1 \in Int
        BY DEF GuideTypes
      <3>. QED  BY <3>1, FS_Interval
    <2>2. D \in SUBSET (1..(guideTally.id - 1))
      BY <1>1 DEF GuideTypes
    <2>. QED  BY <2>1, <2>2, FS_Subset
  <1>5. IsFiniteSet(R)
    <2>1. PICK f : f = [i \in D |-> epgProgramme[i]]
      OBVIOUS
    <2>2. f \in Surjection(D, R)
      BY <2>1, <1>2 DEF Surjection
    <2>. QED  BY <2>2, <1>4, FS_Surjection
  <1>6. PICK n \in Nat : n = Cardinality(R)
    BY <1>5, FS_CardinalityType
  <1>7. R \subseteq LastingRows
    BY <1>1, <1>2 DEF GuideTypes
  <1>8. s \in [1..n -> R] /\ \A i, k \in DOMAIN s : i < k => s[i].start <= s[k].start
    BY <1>3, <1>6 DEF InOrder, SetToSeqs
  <1>9. s \in [1..n -> LastingRows] /\ DOMAIN s = 1..n
    BY <1>7, <1>8
  <1>. QED  BY <1>8, <1>9

(* A job changes that reads no more, or an import has stored its last      *)
(* programme.                                                              *)
LEMMA FileSteps ==
    ASSUME GuideInv, NEW j \in GuideJobs,
           ImportProgrammes(j) \/ RenderGuide(j) \/ ReplaceGuide(j) \/ ChooseFill(j)
    PROVE  GuideInv'
  <1>1. GuideTypes /\ FilesFilled
    BY DEF GuideInv
  <1>2. PICK q \in Jobs : q = guideJob[j]
    BY <1>1 DEF GuideTypes
  <1>3. guideJob \in [GuideJobs -> Jobs] /\ fillMissing \in BOOLEAN /\ xmltv \in GuideFiles
    BY <1>1 DEF GuideTypes
  <1>4. NoGuideFile \in GuideFiles /\ Filled(NoGuideFile)
    BY DEF NoGuideFile, GuideFiles, Filled
  <1>5. ASSUME NEW e \in Jobs, guideJob' = [guideJob EXCEPT ![j] = e],
               e.at \in {"idle", "render", "replace"},
               e.at # "idle" => Filled(e.output),
               xmltv' \in GuideFiles, Filled(xmltv'), fillMissing' \in BOOLEAN,
               guideTally' \in TallyTypes, guideTally'.id = guideTally.id,
               epgDocument' = epgDocument, epgChannel' = epgChannel, epgProgramme' = epgProgramme,
               zone' = zone, hour' = hour
        PROVE  GuideInv'
    <2>1. /\ guideJob' \in [GuideJobs -> Jobs]
          /\ guideJob'[j] = e
          /\ \A k \in GuideJobs : k # j => guideJob'[k] = guideJob[k]
      BY <1>1, <1>5, OneJobMoves
    <2>2. GuideTypes' /\ hour <= hour' /\ guideTally.id <= guideTally'.id
      BY <1>1, <1>5, <2>1 DEF GuideTypes, TallyTypes
    <2>3. FilesFilled'
      BY <1>1, <1>5, <2>1 DEF FilesFilled
    <2>4. GuideImporting' \subseteq GuideImporting /\ j \notin GuideImporting'
      BY <1>5, <2>1 DEF GuideImporting
    <2>5. \A k \in GuideImporting' : JobGoesOn(k)
      <3>. TAKE k \in GuideImporting'
      <3>1. k \in GuideImporting /\ k \in GuideJobs /\ k # j
        BY <2>4 DEF GuideImporting
      <3>. QED  BY <3>1, <2>1, <2>4 DEF JobGoesOn
    <2>6. OneRowEach' /\ StoresRead' /\ Alone' /\ Keeping'
      BY <2>2, <2>5, <1>5, RowsStay
    <2>. QED  BY <2>2, <2>3, <2>6 DEF GuideInv
  <1>6. guideTally \in TallyTypes
    BY <1>1 DEF GuideTypes, TallyTypes
  <1>7. CASE ImportProgrammes(j)
    <2>1. q.at = "programmes" /\ q \in Imports
      BY <1>7, <1>2, JobKinds DEF ImportProgrammes, Reading
    <2>2. PICK e : e = [q EXCEPT !.at = "render", !.fill = fillMissing]
      OBVIOUS
    <2>3. e \in Imports /\ e.at = "render" /\ e.output = q.output
      BY <2>1, <2>2, <1>3 DEF Imports
    <2>4. guideJob' = [guideJob EXCEPT ![j] = e]
      BY <1>7, <2>2, <1>2, <1>3 DEF ImportProgrammes
    <2>5. Filled(q.output)
      BY <2>1, <1>1, <1>2 DEF FilesFilled
    <2>6. /\ xmltv' = xmltv /\ fillMissing' = fillMissing /\ guideTally' = guideTally
          /\ epgDocument' = epgDocument /\ epgChannel' = epgChannel /\ epgProgramme' = epgProgramme
          /\ zone' = zone /\ hour' = hour
      BY <1>7 DEF ImportProgrammes
    <2>7. Filled(xmltv) /\ e \in Jobs
      BY <1>1, <2>3 DEF FilesFilled, Jobs
    <2>. QED  BY <1>3, <1>5, <1>6, <2>3, <2>4, <2>5, <2>6, <2>7
  <1>8. CASE RenderGuide(j)
    <2>1. q.at = "render" /\ q.fill \in BOOLEAN /\ q \in Imports \cup Rebuilds
      BY <1>8, <1>2, JobKinds DEF RenderGuide
    <2>2. PICK from \in Nat, to \in Nat : from = hour - History /\ to = hour + Future
      BY <1>1, GuideAssumption DEF GuideTypes
    <2>3. PICK s \in InOrder(InWindow(from, to)) :
              guideJob' = [guideJob EXCEPT ![j].at = "replace",
                              ![j].output = [from |-> from, to |-> to, fill |-> q.fill, entries |-> Render(s, from, to, q.fill)]]
      BY <1>8, <1>2, <2>2 DEF RenderGuide
    <2>4. PICK n \in Nat : /\ s \in [1..n -> LastingRows]
                           /\ \A i, k \in 1..n : i < k => s[i].start <= s[k].start
      BY <1>1, WindowRows
    <2>5. PICK g : g = [from |-> from, to |-> to, fill |-> q.fill, entries |-> Render(s, from, to, q.fill)]
      OBVIOUS
    <2>6. /\ Render(s, from, to, q.fill) \in SUBSET Entries
          /\ Filled([from |-> from, to |-> to, fill |-> q.fill, entries |-> Render(s, from, to, q.fill)])
      BY <2>1, <2>4, RenderFills
    <2>7. g \in GuideFiles /\ Filled(g)
      BY <2>1, <2>5, <2>6 DEF GuideFiles
    <2>8. PICK e : e = [q EXCEPT !.at = "replace", !.output = g]
      OBVIOUS
    <2>9. e \in Imports \cup Rebuilds /\ e.at = "replace" /\ e.output = g
      <3>1. CASE q \in Imports
        BY <3>1, <2>7, <2>8 DEF Imports
      <3>2. CASE q \in Rebuilds
        BY <3>2, <2>7, <2>8 DEF Rebuilds
      <3>. QED  BY <3>1, <3>2, <2>1
    <2>10. guideJob' = [guideJob EXCEPT ![j] = e]
      BY <2>3, <2>5, <2>8, <1>2, <1>3
    <2>11. /\ xmltv' = xmltv /\ fillMissing' = fillMissing /\ guideTally' = guideTally
           /\ epgDocument' = epgDocument /\ epgChannel' = epgChannel /\ epgProgramme' = epgProgramme
           /\ zone' = zone /\ hour' = hour
      BY <1>8 DEF RenderGuide
    <2>12. Filled(xmltv) /\ e \in Jobs
      BY <1>1, <2>9 DEF FilesFilled, Jobs
    <2>. QED  BY <1>3, <1>5, <1>6, <2>7, <2>9, <2>10, <2>11, <2>12
  <1>9. CASE ReplaceGuide(j)
    <2>1. q.at = "replace" /\ q.output \in GuideFiles /\ Filled(q.output)
      BY <1>9, <1>1, <1>2, JobKinds DEF ReplaceGuide, FilesFilled
    <2>2. NoGuideJob \in Jobs /\ NoGuideJob.at = "idle"
      BY DEF Jobs, NoGuideJob
    <2>3. /\ xmltv' = q.output /\ guideJob' = [guideJob EXCEPT ![j] = NoGuideJob]
          /\ fillMissing' = fillMissing /\ guideTally' = guideTally
          /\ epgDocument' = epgDocument /\ epgChannel' = epgChannel /\ epgProgramme' = epgProgramme
          /\ zone' = zone /\ hour' = hour
      BY <1>9, <1>2 DEF ReplaceGuide
    <2>. QED  BY <1>3, <1>5, <1>6, <2>1, <2>2, <2>3
  <1>10. CASE ChooseFill(j)
    <2>1. PICK e : e = [at |-> "render", fill |-> ~fillMissing, output |-> NoGuideFile]
      OBVIOUS
    <2>2. e \in Jobs /\ e.at = "render" /\ e.output = NoGuideFile
      BY <2>1, <1>3, <1>4 DEF Jobs, Rebuilds
    <2>3. /\ xmltv' = xmltv /\ guideJob' = [guideJob EXCEPT ![j] = e]
          /\ fillMissing' = ~fillMissing /\ guideTally' = [guideTally EXCEPT !.runs = @ + 1]
          /\ epgDocument' = epgDocument /\ epgChannel' = epgChannel /\ epgProgramme' = epgProgramme
          /\ zone' = zone /\ hour' = hour
      BY <1>10, <2>1 DEF ChooseFill
    <2>4. guideTally' \in TallyTypes /\ guideTally'.id = guideTally.id
      BY <2>3, <1>6 DEF TallyTypes
    <2>5. Filled(xmltv) /\ fillMissing' \in BOOLEAN
      BY <1>1, <2>3 DEF FilesFilled
    <2>. QED  BY <1>3, <1>4, <1>5, <2>2, <2>3, <2>4, <2>5
  <1>. QED  BY <1>7, <1>8, <1>9, <1>10

(* The world changes.                                                      *)
LEMMA WorldSteps ==
    ASSUME GuideInv,
           \/ HourPasses
           \/ \E z \in Zones : ZoneChanges(z)
           \/ \E p \in epgDocument.programmes : ProgrammeChanges(p)
           \/ \E n \in GuideNames, label \in Labels : ChannelChanges(n, label)
    PROVE  GuideInv'
  <1>1. GuideTypes /\ FilesFilled
    BY DEF GuideInv
  <1>2. guideTally \in TallyTypes /\ guideJob \in [GuideJobs -> Jobs]
    BY <1>1 DEF GuideTypes, TallyTypes
  <1>3. /\ guideTally' = [guideTally EXCEPT !.edits = @ + 1]
        /\ epgChannel' = epgChannel /\ epgProgramme' = epgProgramme /\ fillMissing' = fillMissing /\ xmltv' = xmltv
    BY DEF HourPasses, ZoneChanges, ProgrammeChanges, ChannelChanges, Edited
  <1>4. guideTally' \in TallyTypes /\ guideTally'.id = guideTally.id /\ guideTally.id <= guideTally'.id
    BY <1>2, <1>3 DEF TallyTypes
  <1>5. ASSUME guideJob' = guideJob, zone' = zone, hour' \in Nat, hour <= hour',
               epgDocument' \in [channels : Listings, programmes : SUBSET Lasting]
        PROVE  GuideInv'
    <2>1. GuideTypes'
      <3>1. History <= hour'
        BY <1>1, <1>5, GuideAssumption DEF GuideTypes
      <3>. QED  BY <3>1, <1>1, <1>3, <1>4, <1>5 DEF GuideTypes, TallyTypes
    <2>2. FilesFilled'
      BY <1>1, <1>3, <1>5 DEF FilesFilled
    <2>3. \A k \in GuideImporting' : JobGoesOn(k)
      BY <1>5 DEF JobGoesOn, GuideImporting
    <2>4. OneRowEach' /\ StoresRead' /\ Alone' /\ Keeping'
      BY <2>1, <2>3, <1>3, <1>4, <1>5, RowsStay
    <2>. QED  BY <2>1, <2>2, <2>4 DEF GuideInv
  <1>6. epgDocument \in [channels : Listings, programmes : SUBSET Lasting] /\ hour \in Nat /\ hour <= hour
    BY <1>1 DEF GuideTypes
  <1>7. CASE HourPasses
    <2>1. hour' = hour + 1 /\ guideJob' = guideJob /\ zone' = zone /\ epgDocument' = epgDocument
      BY <1>7 DEF HourPasses
    <2>2. hour' \in Nat /\ hour <= hour'
      BY <1>6, <2>1
    <2>. QED  BY <2>1, <2>2, <1>5, <1>6
  <1>8. ASSUME NEW p \in epgDocument.programmes, ProgrammeChanges(p)
        PROVE  GuideInv'
    <2>1. PICK q \in Lasting : epgDocument' = [epgDocument EXCEPT !.programmes = (@ \ {p}) \cup {q}]
      BY <1>8 DEF ProgrammeChanges
    <2>2. epgDocument' \in [channels : Listings, programmes : SUBSET Lasting]
      BY <1>6, <2>1
    <2>3. hour' = hour /\ guideJob' = guideJob /\ zone' = zone
      BY <1>8 DEF ProgrammeChanges
    <2>. QED  BY <2>2, <2>3, <1>5, <1>6
  <1>9. ASSUME NEW n \in GuideNames, NEW label \in Labels, ChannelChanges(n, label)
        PROVE  GuideInv'
    <2>1. PICK old \in Listings : old = epgDocument.channels
      BY <1>6
    <2>2. PICK new : new = [m \in DOMAIN old \cup {n} |-> IF m = n THEN label ELSE old[m]]
      OBVIOUS
    <2>3. new \in Listings
      <3>1. PICK names \in SUBSET GuideNames : old \in [names -> Labels]
        BY <2>1 DEF Listings
      <3>2. new \in [names \cup {n} -> Labels] /\ names \cup {n} \in SUBSET GuideNames
        BY <2>2, <3>1
      <3>. QED  BY <3>2 DEF Listings
    <2>4. epgDocument' = [epgDocument EXCEPT !.channels = new]
      BY <1>9, <2>1, <2>2, <1>6 DEF ChannelChanges
    <2>5. epgDocument' \in [channels : Listings, programmes : SUBSET Lasting]
      BY <1>6, <2>3, <2>4
    <2>6. hour' = hour /\ guideJob' = guideJob /\ zone' = zone
      BY <1>9 DEF ChannelChanges
    <2>. QED  BY <2>5, <2>6, <1>5, <1>6
  <1>10. ASSUME NEW z \in Zones, ZoneChanges(z)
         PROVE  GuideInv'
    <2>1. zone' = z /\ guideJob' = Disturbed /\ epgDocument' = epgDocument /\ hour' = hour
      BY <1>10 DEF ZoneChanges
    <2>2. /\ guideJob' \in [GuideJobs -> Jobs]
          /\ \A k \in GuideJobs :
               /\ k \notin GuideImporting => guideJob'[k] = guideJob[k]
               /\ k \in GuideImporting =>
                     /\ ~guideJob'[k].undisturbed
                     /\ guideJob'[k].at = guideJob[k].at
                     /\ guideJob'[k].todo = guideJob[k].todo
                     /\ guideJob'[k].listed = guideJob[k].listed
                     /\ guideJob'[k].doing = guideJob[k].doing
                     /\ guideJob'[k].output = guideJob[k].output
      BY <2>1, <1>1, DisturbedJobs
    <2>3. GuideTypes'
      BY <1>1, <1>3, <1>4, <2>1, <2>2 DEF GuideTypes, TallyTypes
    <2>4. FilesFilled'
      <3>. SUFFICES ASSUME NEW k \in GuideJobs, guideJob'[k].at # "idle"
                    PROVE  Filled(guideJob'[k].output)
        BY <1>1, <1>3 DEF FilesFilled
      <3>1. guideJob'[k].at = guideJob[k].at /\ guideJob'[k].output = guideJob[k].output
        BY <2>2
      <3>. QED  BY <3>1, <1>1 DEF FilesFilled
    <2>5. \A k \in GuideJobs : guideJob'[k].at = guideJob[k].at
      BY <2>2
    <2>6. \A k \in GuideImporting' : k \in GuideImporting /\ k \in GuideJobs
      BY <2>5 DEF GuideImporting
    <2>7. \A k \in GuideImporting' : JobGoesOn(k) /\ ~guideJob'[k].undisturbed
      BY <2>2, <2>6 DEF JobGoesOn
    <2>8. OneRowEach' /\ StoresRead' /\ Alone' /\ Keeping'
      BY <2>1, <2>3, <2>7, <1>3, <1>4, <1>6, RowsStay
    <2>. QED  BY <2>3, <2>4, <2>8 DEF GuideInv
  <1>. QED  BY <1>7, <1>8, <1>9, <1>10

(* An import that is storing programmes.                                   *)
LEMMA StoringJob ==
    ASSUME GuideTypes, NEW j \in GuideJobs, guideJob[j].at = "programmes"
    PROVE  /\ guideJob[j] \in Imports /\ j \in GuideImporting
           /\ guideJob[j].listed \subseteq Lasting /\ guideJob[j].todo \subseteq Lasting
           /\ guideJob[j].doing \subseteq Stores
           /\ \A d \in guideJob[j].doing : d.p \in Lasting /\ d.row \subseteq Nat
  <1>1. guideJob[j] \in Jobs
    BY DEF GuideTypes
  <1>2. guideJob[j] \in Imports
    BY <1>1, JobKinds DEF Reading
  <1>. QED  BY <1>2 DEF Imports, Stores, GuideImporting

(* A worker gives up on a programme.                                       *)
LEMMA ProgrammeLost ==
    ASSUME GuideInv, NEW j \in GuideJobs, NEW d \in guideJob[j].doing, ProgrammeIsLost(j, d)
    PROVE  GuideInv'
  <1>1. GuideTypes /\ FilesFilled
    BY DEF GuideInv
  <1>2. PICK q \in Imports : q = guideJob[j] /\ q.at = "programmes" /\ j \in GuideImporting
    BY <1>1, StoringJob DEF ProgrammeIsLost
  <1>3. PICK e : e = [q EXCEPT !.doing = @ \ {d}, !.undisturbed = FALSE]
    OBVIOUS
  <1>4. /\ e \in Imports /\ e.at = q.at /\ e.listed = q.listed /\ e.output = q.output
        /\ e.todo = q.todo /\ e.doing = q.doing \ {d} /\ ~e.undisturbed
    BY <1>3 DEF Imports
  <1>5. guideJob' = [guideJob EXCEPT ![j] = e]
    <2>1. guideJob \in [GuideJobs -> Jobs]
      BY <1>1 DEF GuideTypes
    <2>. QED  BY <2>1, <1>2, <1>3 DEF ProgrammeIsLost
  <1>6. /\ guideJob' \in [GuideJobs -> Jobs]
        /\ guideJob'[j] = e
        /\ \A k \in GuideJobs : k # j => guideJob'[k] = guideJob[k]
    <2>1. e \in Jobs
      BY <1>4 DEF Jobs
    <2>. QED  BY <2>1, <1>1, <1>5, OneJobMoves
  <1>7. /\ epgDocument' = epgDocument /\ epgChannel' = epgChannel /\ epgProgramme' = epgProgramme
        /\ zone' = zone /\ hour' = hour /\ fillMissing' = fillMissing /\ xmltv' = xmltv /\ guideTally' = guideTally
    BY DEF ProgrammeIsLost
  <1>8. GuideTypes' /\ hour <= hour' /\ guideTally.id <= guideTally'.id
    BY <1>1, <1>6, <1>7 DEF GuideTypes
  <1>9. FilesFilled'
    BY <1>1, <1>2, <1>4, <1>6, <1>7 DEF FilesFilled
  <1>10. GuideImporting' = GuideImporting
    <2>1. \A k \in GuideJobs : guideJob'[k].at = guideJob[k].at
      BY <1>2, <1>4, <1>6
    <2>. QED  BY <2>1 DEF GuideImporting
  <1>11. \A k \in GuideImporting' : JobGoesOn(k)
    <2>. TAKE k \in GuideImporting'
    <2>1. k \in GuideImporting /\ k \in GuideJobs
      BY <1>10 DEF GuideImporting
    <2>2. CASE k = j
      BY <2>1, <2>2, <1>2, <1>4, <1>6 DEF JobGoesOn
    <2>3. CASE k # j
      BY <2>1, <2>3, <1>6, <1>10 DEF JobGoesOn
    <2>. QED  BY <2>2, <2>3
  <1>12. OneRowEach' /\ StoresRead' /\ Alone' /\ Keeping'
    BY <1>7, <1>8, <1>11, RowsStay
  <1>. QED  BY <1>8, <1>9, <1>12 DEF GuideInv

(* A worker looks a programme up.                                          *)
LEMMA ProgrammeLookedUp ==
    ASSUME GuideInv, NEW j \in GuideJobs, NEW p \in guideJob[j].todo, LookUpProgramme(j, p)
    PROVE  GuideInv'
  <1>1. GuideTypes /\ FilesFilled
    BY DEF GuideInv
  <1>2. PICK q \in Imports : /\ q = guideJob[j] /\ q.at = "programmes" /\ j \in GuideImporting
                             /\ q.listed \subseteq Lasting /\ q.todo \subseteq Lasting
    BY <1>1, StoringJob DEF LookUpProgramme
  <1>3. PICK d : d = [p |-> p, row |-> SameSlot(p)]
    OBVIOUS
  <1>4. SameSlot(p) \subseteq DOMAIN epgProgramme /\ DOMAIN epgProgramme \subseteq 1..(guideTally.id - 1)
    BY <1>1 DEF SameSlot, GuideTypes
  <1>5. d \in Stores /\ d.p = p /\ d.row = SameSlot(p)
    <2>1. SameSlot(p) \subseteq Nat /\ p \in Lasting
      BY <1>2, <1>4
    <2>. QED  BY <2>1, <1>3 DEF Stores
  <1>6. PICK e : e = [q EXCEPT !.todo = @ \ {p}, !.doing = @ \cup {d}]
    OBVIOUS
  <1>7. /\ e \in Imports /\ e.at = q.at /\ e.listed = q.listed /\ e.output = q.output /\ e.undisturbed = q.undisturbed
        /\ e.doing = q.doing \cup {d} /\ e.todo = q.todo \ {p}
    BY <1>5, <1>6 DEF Imports
  <1>8. guideJob' = [guideJob EXCEPT ![j] = e]
    <2>1. guideJob \in [GuideJobs -> Jobs]
      BY <1>1 DEF GuideTypes
    <2>. QED  BY <2>1, <1>2, <1>3, <1>6 DEF LookUpProgramme
  <1>9. /\ guideJob' \in [GuideJobs -> Jobs]
        /\ guideJob'[j] = e
        /\ \A k \in GuideJobs : k # j => guideJob'[k] = guideJob[k]
    <2>1. e \in Jobs
      BY <1>7 DEF Jobs
    <2>. QED  BY <2>1, <1>1, <1>8, OneJobMoves
  <1>10. /\ epgDocument' = epgDocument /\ epgChannel' = epgChannel /\ epgProgramme' = epgProgramme
         /\ zone' = zone /\ hour' = hour /\ fillMissing' = fillMissing /\ xmltv' = xmltv /\ guideTally' = guideTally
    BY DEF LookUpProgramme
  <1>11. GuideTypes'
    BY <1>1, <1>9, <1>10 DEF GuideTypes
  <1>12. FilesFilled'
    BY <1>1, <1>2, <1>7, <1>9, <1>10 DEF FilesFilled
  <1>13. OneRowEach'
    BY <1>10 DEF GuideInv, OneRowEach
  <1>14. GuideImporting' = GuideImporting
    <2>1. \A k \in GuideJobs : guideJob'[k].at = guideJob[k].at
      BY <1>2, <1>7, <1>9
    <2>. QED  BY <2>1 DEF GuideImporting
  <1>15. Alone'
    <2>1. \A k \in GuideJobs : guideJob'[k].undisturbed = guideJob[k].undisturbed
      BY <1>2, <1>7, <1>9
    <2>2. \A k \in GuideImporting : k \in GuideJobs
      BY DEF GuideImporting
    <2>. QED  BY <2>1, <2>2, <1>14 DEF GuideInv, Alone
  <1>16. ASSUME NEW i \in SameSlot(p), NEW k \in SameSlot(p)
         PROVE  i = k
    BY <1>16 DEF GuideInv, OneRowEach, SameSlot
  <1>17. StoresRead'
    <2>. SUFFICES ASSUME NEW k \in GuideImporting'
                  PROVE  /\ guideJob'[k].at # "programmes" => guideJob'[k].doing = {} /\ guideJob'[k].todo = guideJob'[k].listed
                         /\ guideJob'[k].todo \subseteq guideJob'[k].listed
                         /\ \A c \in guideJob'[k].doing : /\ c.p \in guideJob'[k].listed
                                                          /\ c.row \subseteq 1..(guideTally'.id - 1)
                                                          /\ \A i, l \in c.row : i = l
      BY DEF StoresRead
    <2>1. k \in GuideImporting /\ k \in GuideJobs
      BY <1>14 DEF GuideImporting
    <2>2. /\ guideJob[k].at # "programmes" => guideJob[k].doing = {} /\ guideJob[k].todo = guideJob[k].listed
          /\ guideJob[k].todo \subseteq guideJob[k].listed
          /\ \A c \in guideJob[k].doing : /\ c.p \in guideJob[k].listed
                                          /\ c.row \subseteq 1..(guideTally.id - 1)
                                          /\ \A i, l \in c.row : i = l
      BY <2>1 DEF GuideInv, StoresRead
    <2>3. CASE k # j
      BY <2>1, <2>2, <2>3, <1>9, <1>10
    <2>4. CASE k = j
      <3>1. /\ d.p \in q.listed /\ d.row \subseteq 1..(guideTally.id - 1)
            /\ \A i, l \in d.row : i = l
        BY <2>2, <2>4, <1>2, <1>4, <1>5, <1>16
      <3>. QED  BY <3>1, <2>2, <2>4, <1>2, <1>7, <1>9, <1>10
    <2>. QED  BY <2>3, <2>4
  <1>18. Keeping'
    <2>. SUFFICES ASSUME NEW k \in GuideImporting', guideJob'[k].undisturbed
                  PROVE  /\ \A r \in guideJob'[k].listed :
                              \/ r \in guideJob'[k].todo
                              \/ \E c \in guideJob'[k].doing : c.p = r
                              \/ GuideExpired(r)'
                              \/ \E i \in SameSlot(r)' : Listing(guideJob'[k].listed, epgProgramme'[i])
                         /\ \A c \in guideJob'[k].doing :
                              /\ c.row \cap DOMAIN epgProgramme' \subseteq SameSlot(c.p)'
                              /\ c.row = {} \/ GuideExpired(c.p)' \/ c.row \cap DOMAIN epgProgramme' # {}
                              /\ \A i \in SameSlot(c.p)' \ c.row : Listing(guideJob'[k].listed, epgProgramme'[i])
      BY DEF Keeping, Listing
    <2>1. k = j /\ q.undisturbed
      <3>1. k \in GuideImporting /\ k \in GuideJobs
        BY <1>14 DEF GuideImporting
      <3>2. guideJob'[k].undisturbed = guideJob[k].undisturbed
        BY <3>1, <1>2, <1>7, <1>9
      <3>. QED  BY <3>1, <3>2, <1>2 DEF GuideInv, Alone
    <2>2. \A r : SameSlot(r)' = SameSlot(r) /\ GuideExpired(r)' = GuideExpired(r)
      BY <1>10 DEF SameSlot, GuideExpired
    <2>3. /\ \A r \in q.listed :
              \/ r \in q.todo
              \/ \E c \in q.doing : c.p = r
              \/ GuideExpired(r)
              \/ \E i \in SameSlot(r) : Listing(q.listed, epgProgramme[i])
          /\ \A c \in q.doing :
               /\ c.row \cap DOMAIN epgProgramme \subseteq SameSlot(c.p)
               /\ c.row = {} \/ GuideExpired(c.p) \/ c.row \cap DOMAIN epgProgramme # {}
               /\ \A i \in SameSlot(c.p) \ c.row : Listing(q.listed, epgProgramme[i])
      BY <2>1, <1>2 DEF GuideInv, Keeping
    <2>4. /\ d.row \cap DOMAIN epgProgramme \subseteq SameSlot(d.p)
          /\ d.row = {} \/ d.row \cap DOMAIN epgProgramme # {}
          /\ SameSlot(d.p) \ d.row = {}
      BY <1>4, <1>5
    <2>5. guideJob'[k] = e /\ e.listed = q.listed /\ e.todo = q.todo \ {p} /\ e.doing = q.doing \cup {d}
      BY <2>1, <1>7, <1>9
    <2>. QED  BY <2>2, <2>3, <2>4, <2>5, <1>5, <1>10
  <1>. QED  BY <1>11, <1>12, <1>13, <1>15, <1>17, <1>18 DEF GuideInv

(* Old programmes are removed, with every channel.                         *)
LEMMA OldProgrammesRemoved ==
    ASSUME GuideInv, CleanOldProgrammes
    PROVE  GuideInv'
  <1>1. GuideTypes
    BY DEF GuideInv
  <1>2. PICK old \in SUBSET (DOMAIN epgProgramme) : old = {i \in DOMAIN epgProgramme : GuideExpired(epgProgramme[i])}
    OBVIOUS
  <1>3. /\ epgProgramme' = [i \in DOMAIN epgProgramme \ old |-> epgProgramme[i]]
        /\ epgChannel' = <<>>
        /\ epgDocument' = epgDocument /\ zone' = zone /\ hour' = hour /\ fillMissing' = fillMissing
        /\ guideJob' = guideJob /\ xmltv' = xmltv /\ guideTally' = guideTally
    BY <1>2 DEF CleanOldProgrammes
  <1>4. DOMAIN epgProgramme' = DOMAIN epgProgramme \ old /\ \A i \in DOMAIN epgProgramme' : epgProgramme'[i] = epgProgramme[i]
    BY <1>3
  <1>5. GuideTypes'
    <2>1. DOMAIN epgChannel' \subseteq GuideNames /\ epgChannel' \in [DOMAIN epgChannel' -> [id : Nat, display : Labels]]
      BY <1>3
    <2>2. epgProgramme' \in [DOMAIN epgProgramme' -> LastingRows]
      BY <1>1, <1>3, <1>4 DEF GuideTypes
    <2>. QED  BY <2>1, <2>2, <1>1, <1>3, <1>4 DEF GuideTypes
  <1>6. FilesFilled'
    BY <1>3 DEF GuideInv, FilesFilled
  <1>7. OneRowEach'
    BY <1>4 DEF GuideInv, OneRowEach
  <1>8. GuideImporting' = GuideImporting
    BY <1>3 DEF GuideImporting
  <1>9. StoresRead' /\ Alone'
    BY <1>3, <1>8 DEF GuideInv, StoresRead, Alone
  <1>10. \A r : /\ GuideExpired(r)' = GuideExpired(r)
                /\ SameSlot(r)' = SameSlot(r) \ old
                /\ \A i \in SameSlot(r) : i \in old => GuideExpired(r)
    <2>. TAKE r
    <2>1. GuideExpired(r)' = GuideExpired(r)
      BY <1>3 DEF GuideExpired
    <2>2. SameSlot(r)' = SameSlot(r) \ old
      BY <1>3, <1>4 DEF SameSlot
    <2>3. \A i \in SameSlot(r) : i \in old => GuideExpired(r)
      BY <1>2 DEF SameSlot, GuideExpired
    <2>. QED  BY <2>1, <2>2, <2>3
  <1>11. Keeping'
    <2>. SUFFICES ASSUME NEW k \in GuideImporting', guideJob'[k].undisturbed
                  PROVE  /\ \A r \in guideJob'[k].listed :
                              \/ r \in guideJob'[k].todo
                              \/ \E c \in guideJob'[k].doing : c.p = r
                              \/ GuideExpired(r)'
                              \/ \E i \in SameSlot(r)' : Listing(guideJob'[k].listed, epgProgramme'[i])
                         /\ \A c \in guideJob'[k].doing :
                              /\ c.row \cap DOMAIN epgProgramme' \subseteq SameSlot(c.p)'
                              /\ c.row = {} \/ GuideExpired(c.p)' \/ c.row \cap DOMAIN epgProgramme' # {}
                              /\ \A i \in SameSlot(c.p)' \ c.row : Listing(guideJob'[k].listed, epgProgramme'[i])
      BY DEF Keeping, Listing
    <2>1. k \in GuideImporting /\ guideJob[k].undisturbed /\ guideJob' = guideJob
      BY <1>3, <1>8
    <2>2. /\ \A r \in guideJob[k].listed :
              \/ r \in guideJob[k].todo
              \/ \E c \in guideJob[k].doing : c.p = r
              \/ GuideExpired(r)
              \/ \E i \in SameSlot(r) : Listing(guideJob[k].listed, epgProgramme[i])
          /\ \A c \in guideJob[k].doing :
               /\ c.row \cap DOMAIN epgProgramme \subseteq SameSlot(c.p)
               /\ c.row = {} \/ GuideExpired(c.p) \/ c.row \cap DOMAIN epgProgramme # {}
               /\ \A i \in SameSlot(c.p) \ c.row : Listing(guideJob[k].listed, epgProgramme[i])
      BY <2>1 DEF GuideInv, Keeping
    <2>3. \A r : \A i \in SameSlot(r) \ old : i \in SameSlot(r)' /\ epgProgramme'[i] = epgProgramme[i]
      BY <1>4, <1>10 DEF SameSlot
    <2>4. ASSUME NEW r \in guideJob[k].listed
          PROVE  \/ r \in guideJob[k].todo
                 \/ \E c \in guideJob[k].doing : c.p = r
                 \/ GuideExpired(r)
                 \/ \E i \in SameSlot(r)' : Listing(guideJob[k].listed, epgProgramme'[i])
      <3>1. CASE \E i \in SameSlot(r) : Listing(guideJob[k].listed, epgProgramme[i])
        <4>1. PICK i \in SameSlot(r) : Listing(guideJob[k].listed, epgProgramme[i])
          BY <3>1
        <4>2. CASE i \in old
          BY <4>2, <1>10
        <4>3. CASE i \notin old
          BY <4>1, <4>3, <2>3
        <4>. QED  BY <4>2, <4>3
      <3>. QED  BY <3>1, <2>2
    <2>5. ASSUME NEW c \in guideJob[k].doing
          PROVE  /\ c.row \cap DOMAIN epgProgramme' \subseteq SameSlot(c.p)'
                 /\ c.row = {} \/ GuideExpired(c.p) \/ c.row \cap DOMAIN epgProgramme' # {}
                 /\ \A i \in SameSlot(c.p)' \ c.row : Listing(guideJob[k].listed, epgProgramme'[i])
      <3>1. c.row \cap DOMAIN epgProgramme' \subseteq SameSlot(c.p)'
        BY <2>2, <1>4, <1>10
      <3>2. c.row = {} \/ GuideExpired(c.p) \/ c.row \cap DOMAIN epgProgramme' # {}
        <4>1. CASE c.row \cap DOMAIN epgProgramme # {}
          <5>1. PICK i \in c.row \cap DOMAIN epgProgramme : i \in SameSlot(c.p)
            BY <4>1, <2>2
          <5>. QED  BY <5>1, <1>4, <1>10
        <4>. QED  BY <4>1, <2>2
      <3>3. \A i \in SameSlot(c.p)' \ c.row : Listing(guideJob[k].listed, epgProgramme'[i])
        BY <2>2, <2>3, <1>10
      <3>. QED  BY <3>1, <3>2, <3>3
    <2>. QED  BY <2>1, <2>4, <2>5, <1>10
  <1>. QED  BY <1>5, <1>6, <1>7, <1>9, <1>11 DEF GuideInv

(* What a worker's statement makes of the rows.                            *)
LEMMA RowsWritten ==
    ASSUME GuideInv, NEW j \in GuideJobs, NEW d \in guideJob[j].doing, StoreProgramme(j, d)
    PROVE  /\ DOMAIN epgProgramme \subseteq DOMAIN epgProgramme'
           /\ guideTally' \in TallyTypes /\ guideTally.id <= guideTally'.id
           /\ DOMAIN epgProgramme' \subseteq 1..(guideTally'.id - 1)
           /\ \A i \in DOMAIN epgProgramme' :
                 \/ i \in DOMAIN epgProgramme /\ epgProgramme'[i] = epgProgramme[i]
                    /\ (SameSlot(d.p) \ d.row = {} => i \notin d.row)
                 \/ /\ SameSlot(d.p) \ d.row = {} /\ epgProgramme'[i] = StoredAs(d.p)
                    /\ \/ i \in d.row /\ i \in DOMAIN epgProgramme
                       \/ i = guideTally.id /\ d.row = {}
           /\ d.row = {} => SameSlot(d.p) # {} \/ guideTally.id \in DOMAIN epgProgramme'
  <1>1. GuideTypes
    BY DEF GuideInv
  <1>2. PICK n \in Nat \ {0} : n = guideTally.id
    BY <1>1 DEF GuideTypes
  <1>3. guideTally \in TallyTypes /\ DOMAIN epgProgramme \subseteq 1..(n - 1)
    BY <1>1, <1>2 DEF GuideTypes, TallyTypes
  <1>4. CASE d.row = {} /\ SameSlot(d.p) \ d.row = {}
    <2>1. /\ epgProgramme' = [i \in DOMAIN epgProgramme \cup {n} |-> IF i = n THEN StoredAs(d.p) ELSE epgProgramme[i]]
          /\ guideTally' = [guideTally EXCEPT !.id = @ + 1]
      BY <1>2, <1>4 DEF StoreProgramme
    <2>2. guideTally' \in TallyTypes /\ guideTally'.id = n + 1
      BY <2>1, <1>2, <1>3 DEF TallyTypes
    <2>3. DOMAIN epgProgramme' = DOMAIN epgProgramme \cup {n} /\ n \notin DOMAIN epgProgramme
      BY <2>1, <1>3
    <2>4. /\ epgProgramme'[n] = StoredAs(d.p)
          /\ \A i \in DOMAIN epgProgramme : i # n /\ epgProgramme'[i] = epgProgramme[i]
      BY <2>1, <2>3
    <2>5. DOMAIN epgProgramme' \subseteq 1..(n + 1 - 1)
      BY <2>3, <1>3
    <2>. QED  BY <2>2, <2>3, <2>4, <2>5, <1>2, <1>4
  <1>5. CASE ~(d.row = {} /\ SameSlot(d.p) \ d.row = {})
    <2>1. /\ epgProgramme' = [i \in DOMAIN epgProgramme |->
                                IF SameSlot(d.p) \ d.row = {} /\ i \in d.row THEN StoredAs(d.p) ELSE epgProgramme[i]]
          /\ guideTally' = guideTally
      BY <1>5 DEF StoreProgramme
    <2>2. DOMAIN epgProgramme' = DOMAIN epgProgramme /\ n <= n
      BY <2>1
    <2>3. \A i \in DOMAIN epgProgramme :
              epgProgramme'[i] = IF SameSlot(d.p) \ d.row = {} /\ i \in d.row THEN StoredAs(d.p) ELSE epgProgramme[i]
      BY <2>1
    <2>. QED  BY <2>1, <2>2, <2>3, <1>2, <1>3, <1>5
  <1>. QED  BY <1>4, <1>5

(* A worker's statement adds the programme's row, or writes the row that   *)
(* was found, or leaves the rows alone.                                    *)
LEMMA ProgrammeStored ==
    ASSUME GuideInv, NEW j \in GuideJobs, NEW d \in guideJob[j].doing, StoreProgramme(j, d)
    PROVE  GuideInv'
  <1>1. GuideTypes /\ FilesFilled
    BY DEF GuideInv
  <1>2. PICK q \in Imports : /\ q = guideJob[j] /\ q.at = "programmes" /\ j \in GuideImporting
                             /\ q.listed \subseteq Lasting /\ d.p \in Lasting
    BY <1>1, StoringJob DEF StoreProgramme
  <1>3. PICK e : e = [q EXCEPT !.doing = @ \ {d}]
    OBVIOUS
  <1>4. /\ e \in Imports /\ e.at = q.at /\ e.listed = q.listed /\ e.output = q.output /\ e.undisturbed = q.undisturbed
        /\ e.doing = q.doing \ {d} /\ e.todo = q.todo
    BY <1>3 DEF Imports
  <1>5. guideJob' = [guideJob EXCEPT ![j] = e]
    <2>1. guideJob \in [GuideJobs -> Jobs]
      BY <1>1 DEF GuideTypes
    <2>. QED  BY <2>1, <1>2, <1>3 DEF StoreProgramme
  <1>6. /\ guideJob' \in [GuideJobs -> Jobs]
        /\ guideJob'[j] = e
        /\ \A k \in GuideJobs : k # j => guideJob'[k] = guideJob[k]
    <2>1. e \in Jobs
      BY <1>4 DEF Jobs
    <2>. QED  BY <2>1, <1>1, <1>5, OneJobMoves
  <1>7. /\ epgDocument' = epgDocument /\ epgChannel' = epgChannel
        /\ zone' = zone /\ hour' = hour /\ fillMissing' = fillMissing /\ xmltv' = xmltv
    BY DEF StoreProgramme
  <1>8. /\ DOMAIN epgProgramme \subseteq DOMAIN epgProgramme'
        /\ guideTally' \in TallyTypes /\ guideTally.id <= guideTally'.id
        /\ DOMAIN epgProgramme' \subseteq 1..(guideTally'.id - 1)
        /\ \A i \in DOMAIN epgProgramme' :
              \/ i \in DOMAIN epgProgramme /\ epgProgramme'[i] = epgProgramme[i]
                 /\ (SameSlot(d.p) \ d.row = {} => i \notin d.row)
              \/ /\ SameSlot(d.p) \ d.row = {} /\ epgProgramme'[i] = StoredAs(d.p)
                 /\ \/ i \in d.row /\ i \in DOMAIN epgProgramme
                    \/ i = guideTally.id /\ d.row = {}
        /\ d.row = {} => SameSlot(d.p) # {} \/ guideTally.id \in DOMAIN epgProgramme'
    BY RowsWritten
  <1>9. PICK r : /\ r = StoredAs(d.p) /\ r \in LastingRows
                 /\ r.start = d.p.start /\ r.stop = d.p.stop /\ r.zone = zone /\ r.title = d.p.title
    <2>1. PICK s : s = StoredAs(d.p)
      OBVIOUS
    <2>2. s = [start |-> d.p.start, stop |-> d.p.stop, zone |-> zone, title |-> d.p.title]
      BY <2>1 DEF StoredAs
    <2>3. /\ d.p.start \in 0..Horizon /\ d.p.stop \in 0..Horizon /\ d.p.title \in Labels /\ d.p.start < d.p.stop
          /\ zone \in Zones
      BY <1>1, <1>2 DEF Lasting, Programmes, GuideTypes
    <2>4. s.start = d.p.start /\ s.stop = d.p.stop /\ s.zone = zone /\ s.title = d.p.title
      BY <2>2
    <2>5. s \in LastingRows
      BY <2>2, <2>3 DEF LastingRows, GuideRows
    <2>. QED  BY <2>1, <2>4, <2>5
  <1>10. GuideTypes'
    <2>1. \A i \in DOMAIN epgProgramme' : epgProgramme'[i] \in LastingRows
      BY <1>1, <1>8, <1>9 DEF GuideTypes
    <2>2. epgProgramme' = [i \in DOMAIN epgProgramme' |-> epgProgramme'[i]]
      BY DEF StoreProgramme
    <2>3. epgProgramme' \in [DOMAIN epgProgramme' -> LastingRows]
      BY <2>1, <2>2
    <2>. QED  BY <2>3, <1>1, <1>6, <1>7, <1>8 DEF GuideTypes, TallyTypes
  <1>11. FilesFilled'
    BY <1>1, <1>2, <1>4, <1>6, <1>7 DEF FilesFilled
  <1>12. GuideImporting' = GuideImporting
    <2>1. \A k \in GuideJobs : guideJob'[k].at = guideJob[k].at
      BY <1>2, <1>4, <1>6
    <2>. QED  BY <2>1 DEF GuideImporting
  <1>13. Alone'
    <2>1. \A k \in GuideJobs : guideJob'[k].undisturbed = guideJob[k].undisturbed
      BY <1>2, <1>4, <1>6
    <2>2. \A k \in GuideImporting : k \in GuideJobs
      BY DEF GuideImporting
    <2>. QED  BY <2>1, <2>2, <1>12 DEF GuideInv, Alone
  <1>14. /\ q.todo \subseteq q.listed
         /\ \A c \in q.doing : /\ c.p \in q.listed
                               /\ c.row \subseteq 1..(guideTally.id - 1)
                               /\ \A i, k \in c.row : i = k
    BY <1>2 DEF GuideInv, StoresRead
  <1>15. OneRowEach'
    <2>. SUFFICES ASSUME NEW i \in DOMAIN epgProgramme', NEW k \in DOMAIN epgProgramme',
                         epgProgramme'[i].start = epgProgramme'[k].start,
                         epgProgramme'[i].stop = epgProgramme'[k].stop,
                         epgProgramme'[i].zone = epgProgramme'[k].zone
                  PROVE  i = k
      BY DEF OneRowEach
    <2>1. ASSUME NEW a \in DOMAIN epgProgramme', NEW b \in DOMAIN epgProgramme',
                 epgProgramme'[a] = r, b \in DOMAIN epgProgramme, epgProgramme'[b] = epgProgramme[b],
                 SameSlot(d.p) \ d.row = {} => b \notin d.row, SameSlot(d.p) \ d.row = {},
                 epgProgramme'[a].start = epgProgramme'[b].start,
                 epgProgramme'[a].stop = epgProgramme'[b].stop,
                 epgProgramme'[a].zone = epgProgramme'[b].zone
          PROVE  FALSE
      <3>1. b \in SameSlot(d.p)
        BY <2>1, <1>9 DEF SameSlot
      <3>. QED  BY <3>1, <2>1
    <2>2. CASE epgProgramme'[i] = epgProgramme[i] /\ epgProgramme'[k] = epgProgramme[k]
               /\ i \in DOMAIN epgProgramme /\ k \in DOMAIN epgProgramme
      BY <2>2 DEF GuideInv, OneRowEach
    <2>3. CASE /\ epgProgramme'[i] = r /\ epgProgramme'[k] = r
               /\ i \in d.row \/ (i = guideTally.id /\ d.row = {})
               /\ k \in d.row \/ (k = guideTally.id /\ d.row = {})
      BY <2>3, <1>2, <1>14
    <2>. QED  BY <2>1, <2>2, <2>3, <1>8, <1>9
  <1>16. StoresRead'
    <2>. SUFFICES ASSUME NEW k \in GuideImporting'
                  PROVE  /\ guideJob'[k].at # "programmes" => guideJob'[k].doing = {} /\ guideJob'[k].todo = guideJob'[k].listed
                         /\ guideJob'[k].todo \subseteq guideJob'[k].listed
                         /\ \A c \in guideJob'[k].doing : /\ c.p \in guideJob'[k].listed
                                                          /\ c.row \subseteq 1..(guideTally'.id - 1)
                                                          /\ \A i, l \in c.row : i = l
      BY DEF StoresRead
    <2>1. k \in GuideImporting /\ k \in GuideJobs
      BY <1>12 DEF GuideImporting
    <2>2. /\ guideJob[k].at # "programmes" => guideJob[k].doing = {} /\ guideJob[k].todo = guideJob[k].listed
          /\ guideJob[k].todo \subseteq guideJob[k].listed
          /\ \A c \in guideJob[k].doing : /\ c.p \in guideJob[k].listed
                                          /\ c.row \subseteq 1..(guideTally.id - 1)
                                          /\ \A i, l \in c.row : i = l
      BY <2>1 DEF GuideInv, StoresRead
    <2>3. 1..(guideTally.id - 1) \subseteq 1..(guideTally'.id - 1)
      BY <1>1, <1>8 DEF GuideTypes, TallyTypes
    <2>4. CASE k # j
      BY <2>1, <2>2, <2>3, <2>4, <1>6
    <2>5. CASE k = j
      BY <2>2, <2>3, <2>5, <1>2, <1>4, <1>6
    <2>. QED  BY <2>4, <2>5
  <1>17. Keeping'
    <2>. SUFFICES ASSUME NEW k \in GuideImporting', guideJob'[k].undisturbed
                  PROVE  /\ \A p \in guideJob'[k].listed :
                              \/ p \in guideJob'[k].todo
                              \/ \E c \in guideJob'[k].doing : c.p = p
                              \/ GuideExpired(p)'
                              \/ \E i \in SameSlot(p)' : Listing(guideJob'[k].listed, epgProgramme'[i])
                         /\ \A c \in guideJob'[k].doing :
                              /\ c.row \cap DOMAIN epgProgramme' \subseteq SameSlot(c.p)'
                              /\ c.row = {} \/ GuideExpired(c.p)' \/ c.row \cap DOMAIN epgProgramme' # {}
                              /\ \A i \in SameSlot(c.p)' \ c.row : Listing(guideJob'[k].listed, epgProgramme'[i])
      BY DEF Keeping, Listing
    <2>1. k = j
      <3>1. k \in GuideImporting /\ k \in GuideJobs
        BY <1>12 DEF GuideImporting
      <3>2. guideJob'[k].undisturbed = guideJob[k].undisturbed
        BY <3>1, <1>2, <1>4, <1>6
      <3>. QED  BY <3>1, <3>2, <1>2 DEF GuideInv, Alone
    <2>2. guideJob'[k] = e /\ q.undisturbed
      BY <2>1, <1>4, <1>6
    <2>3. /\ \A p \in q.listed :
              \/ p \in q.todo
              \/ \E c \in q.doing : c.p = p
              \/ GuideExpired(p)
              \/ \E i \in SameSlot(p) : Listing(q.listed, epgProgramme[i])
          /\ \A c \in q.doing :
               /\ c.row \cap DOMAIN epgProgramme \subseteq SameSlot(c.p)
               /\ c.row = {} \/ GuideExpired(c.p) \/ c.row \cap DOMAIN epgProgramme # {}
               /\ \A i \in SameSlot(c.p) \ c.row : Listing(q.listed, epgProgramme[i])
      BY <2>2, <1>2 DEF GuideInv, Keeping
    <2>4. d \in q.doing /\ d.p \in q.listed /\ Listing(q.listed, r)
      BY <1>2, <1>9, <1>14 DEF Listing
    <2>5. \A p : GuideExpired(p)' = GuideExpired(p)
      BY <1>7 DEF GuideExpired
    \* A row that is written keeps its times, and has a listed title.
    <2>6. ASSUME NEW i \in DOMAIN epgProgramme', i \in DOMAIN epgProgramme
          PROVE  /\ epgProgramme'[i].start = epgProgramme[i].start
                 /\ epgProgramme'[i].stop = epgProgramme[i].stop
                 /\ epgProgramme'[i].zone = epgProgramme[i].zone
                 /\ epgProgramme'[i] = epgProgramme[i] \/ epgProgramme'[i] = r
      <3>1. CASE epgProgramme'[i] = epgProgramme[i]
        BY <3>1
      <3>2. CASE epgProgramme'[i] = r /\ i \in d.row
        <4>1. i \in SameSlot(d.p)
          BY <3>2, <2>3, <2>4, <2>6
        <4>. QED  BY <4>1, <3>2, <1>9 DEF SameSlot
      <3>3. i # guideTally.id
        BY <2>6, <1>1 DEF GuideTypes
      <3>. QED  BY <3>1, <3>2, <3>3, <1>8, <1>9
    <2>7. ASSUME NEW p, NEW i \in SameSlot(p)
          PROVE  /\ i \in SameSlot(p)' /\ i \in DOMAIN epgProgramme
                 /\ epgProgramme'[i] = epgProgramme[i] \/ epgProgramme'[i] = r
      <3>1. /\ i \in DOMAIN epgProgramme /\ i \in DOMAIN epgProgramme'
            /\ epgProgramme[i].start = p.start /\ epgProgramme[i].stop = p.stop /\ epgProgramme[i].zone = zone
        BY <1>8 DEF SameSlot
      <3>. QED  BY <3>1, <2>6, <1>7 DEF SameSlot
    <2>8. ASSUME NEW p, NEW i \in SameSlot(p)'
          PROVE  /\ i \in DOMAIN epgProgramme => i \in SameSlot(p)
                 /\ i \notin DOMAIN epgProgramme => i = guideTally.id /\ epgProgramme'[i] = r
      <3>1. /\ i \in DOMAIN epgProgramme'
            /\ epgProgramme'[i].start = p.start /\ epgProgramme'[i].stop = p.stop /\ epgProgramme'[i].zone = zone
        BY <1>7 DEF SameSlot
      <3>2. i \in DOMAIN epgProgramme => i \in SameSlot(p)
        BY <3>1, <2>6 DEF SameSlot
      <3>. QED  BY <3>1, <3>2, <1>8, <1>9
    <2>9. ASSUME NEW p, NEW i \in SameSlot(p), Listing(q.listed, epgProgramme[i])
          PROVE  \E l \in SameSlot(p)' : Listing(q.listed, epgProgramme'[l])
      BY <2>4, <2>7, <2>9
    <2>10. GuideExpired(d.p) \/ \E i \in SameSlot(d.p)' : Listing(q.listed, epgProgramme'[i])
      <3>1. CASE \E i \in SameSlot(d.p) : i \notin d.row
        <4>1. PICK i \in SameSlot(d.p) : i \notin d.row
          BY <3>1
        <4>2. Listing(q.listed, epgProgramme[i])
          BY <4>1, <2>3, <2>4
        <4>. QED  BY <4>2, <2>9
      <3>2. CASE SameSlot(d.p) \ d.row = {} /\ d.row = {}
        <4>1. guideTally.id \in DOMAIN epgProgramme' /\ guideTally.id \notin DOMAIN epgProgramme
          BY <3>2, <1>1, <1>8 DEF GuideTypes
        <4>2. epgProgramme'[guideTally.id] = r
          BY <4>1, <1>8, <1>9
        <4>3. guideTally.id \in SameSlot(d.p)'
          BY <4>1, <4>2, <1>7, <1>9 DEF SameSlot
        <4>. QED  BY <4>2, <4>3, <2>4
      <3>3. CASE SameSlot(d.p) \ d.row = {} /\ d.row \cap DOMAIN epgProgramme # {}
        <4>1. PICK i \in d.row \cap DOMAIN epgProgramme : i \in SameSlot(d.p)
          BY <3>3, <2>3, <2>4
        <4>2. i \in SameSlot(d.p)' /\ i \in DOMAIN epgProgramme'
          BY <4>1, <2>7 DEF SameSlot
        <4>3. epgProgramme'[i] = r
          BY <4>1, <4>2, <3>3, <1>8, <1>9
        <4>. QED  BY <4>2, <4>3, <2>4
      <3>. QED  BY <3>1, <3>2, <3>3, <2>3, <2>4
    <2>11. ASSUME NEW p \in q.listed
           PROVE  \/ p \in q.todo
                  \/ \E c \in q.doing \ {d} : c.p = p
                  \/ GuideExpired(p)
                  \/ \E i \in SameSlot(p)' : Listing(q.listed, epgProgramme'[i])
      <3>1. CASE d.p = p
        BY <3>1, <2>10
      <3>2. CASE \E i \in SameSlot(p) : Listing(q.listed, epgProgramme[i])
        BY <3>2, <2>9
      <3>. QED  BY <3>1, <3>2, <2>3
    <2>12. ASSUME NEW c \in q.doing
           PROVE  /\ c.row \cap DOMAIN epgProgramme' \subseteq SameSlot(c.p)'
                  /\ c.row = {} \/ GuideExpired(c.p) \/ c.row \cap DOMAIN epgProgramme' # {}
                  /\ \A i \in SameSlot(c.p)' \ c.row : Listing(q.listed, epgProgramme'[i])
      <3>1. guideTally.id \notin c.row
        BY <1>1, <1>14 DEF GuideTypes
      <3>2. c.row \cap DOMAIN epgProgramme' \subseteq SameSlot(c.p)'
        <4>. SUFFICES ASSUME NEW i \in c.row, i \in DOMAIN epgProgramme'
                      PROVE  i \in SameSlot(c.p)'
          OBVIOUS
        <4>1. i \in DOMAIN epgProgramme
          BY <3>1, <1>8
        <4>. QED  BY <4>1, <2>3, <2>7
      <3>3. c.row = {} \/ GuideExpired(c.p) \/ c.row \cap DOMAIN epgProgramme' # {}
        BY <2>3, <1>8
      <3>4. ASSUME NEW i \in SameSlot(c.p)', i \notin c.row
            PROVE  Listing(q.listed, epgProgramme'[i])
        <4>1. CASE i \in DOMAIN epgProgramme
          <5>1. i \in SameSlot(c.p) /\ Listing(q.listed, epgProgramme[i])
            BY <4>1, <3>4, <2>3, <2>8
          <5>. QED  BY <5>1, <2>4, <2>7
        <4>2. CASE i \notin DOMAIN epgProgramme
          BY <4>2, <2>4, <2>8
        <4>. QED  BY <4>1, <4>2
      <3>. QED  BY <3>2, <3>3, <3>4
    <2>. QED  BY <2>2, <2>5, <2>11, <2>12, <1>4
  <1>. QED  BY <1>10, <1>11, <1>13, <1>15, <1>16, <1>17 DEF GuideInv

-----------------------------------------------------------------------------
LEMMA GuideStarts ==
    ASSUME GuideInit
    PROVE  GuideInv
  <1>1. NoGuideFile \in GuideFiles /\ Filled(NoGuideFile) /\ NoGuideJob.at = "idle"
    BY DEF NoGuideFile, GuideFiles, Filled, NoGuideJob
  <1>2. /\ epgChannel = <<>> /\ epgProgramme = <<>> /\ zone \in Zones /\ hour = History + 1
        /\ fillMissing = FALSE /\ guideJob = [j \in GuideJobs |-> NoGuideJob]
        /\ xmltv = NoGuideFile /\ guideTally = [id |-> 1, edits |-> 0, runs |-> 0]
    BY DEF GuideInit
  <1>3. GuideImporting = {}
    BY <1>1, <1>2 DEF GuideImporting
  <1>4. GuideTypes
    <2>1. PICK label \in Labels, p \in Lasting :
              epgDocument = [channels |-> [n \in {Showing} |-> label], programmes |-> {p}]
      BY DEF GuideInit
    <2>2. PICK c : c = [n \in {Showing} |-> label]
      OBVIOUS
    <2>3. c \in Listings
      <3>1. {Showing} \in SUBSET GuideNames /\ c \in [{Showing} -> Labels]
        BY <2>2, GuideAssumption
      <3>. QED  BY <3>1 DEF Listings
    <2>4. epgDocument \in [channels : Listings, programmes : SUBSET Lasting]
      BY <2>1, <2>2, <2>3
    <2>5. DOMAIN epgProgramme = {} /\ DOMAIN epgChannel = {}
      BY <1>2
    <2>6. epgProgramme \in [DOMAIN epgProgramme -> LastingRows] /\ epgChannel \in [DOMAIN epgChannel -> [id : Nat, display : Labels]]
      BY <1>2, <2>5
    <2>7. guideJob \in [GuideJobs -> Jobs] /\ guideTally \in [id : Nat \ {0}, edits : Nat, runs : Nat]
      BY <1>2 DEF Jobs
    <2>8. hour \in Nat /\ History <= hour
      BY <1>2, GuideAssumption
    <2>. QED  BY <1>1, <1>2, <2>4, <2>5, <2>6, <2>7, <2>8 DEF GuideTypes
  <1>5. FilesFilled
    BY <1>1, <1>2 DEF FilesFilled
  <1>6. OneRowEach
    BY <1>2 DEF OneRowEach
  <1>7. StoresRead /\ Alone /\ Keeping
    BY <1>3 DEF StoresRead, Alone, Keeping
  <1>. QED  BY <1>4, <1>5, <1>6, <1>7 DEF GuideInv

LEMMA GuideSteps ==
    ASSUME GuideInv, [GuideNext]_guideVars
    PROVE  GuideInv'
  <1>1. CASE UNCHANGED guideVars
    BY <1>1 DEF guideVars, GuideInv, GuideTypes, FilesFilled, OneRowEach, StoresRead, Alone, Keeping,
                GuideImporting, SameSlot, GuideExpired
  <1>2. CASE GuideNext
    <2>1. CASE CleanOldProgrammes
      BY <2>1, OldProgrammesRemoved
    <2>2. CASE \/ HourPasses
               \/ \E z \in Zones : ZoneChanges(z)
               \/ \E p \in epgDocument.programmes : ProgrammeChanges(p)
               \/ \E n \in GuideNames, label \in Labels : ChannelChanges(n, label)
      BY <2>2, WorldSteps
    <2>3. ASSUME NEW j \in GuideJobs,
                 \/ \E scheduled \in BOOLEAN : BeginGuideImport(j, scheduled)
                 \/ SortChannels(j) \/ CreateChannels(j) \/ UpdateChannel(j) \/ ImportProgrammes(j)
                 \/ \E n \in GuideNames : CreateGuideChannel(j, n)
                 \/ guideJob[j].at = "programmes" /\ \E p \in guideJob[j].todo : LookUpProgramme(j, p)
                 \/ guideJob[j].at = "programmes" /\ \E d \in guideJob[j].doing : StoreProgramme(j, d) \/ ProgrammeIsLost(j, d)
                 \/ RenderGuide(j) \/ ReplaceGuide(j) \/ ChooseFill(j)
          PROVE  GuideInv'
      <3>1. CASE \E scheduled \in BOOLEAN : BeginGuideImport(j, scheduled)
        BY <3>1, ImportBegins
      <3>2. CASE SortChannels(j) \/ CreateChannels(j) \/ UpdateChannel(j) \/ \E n \in GuideNames : CreateGuideChannel(j, n)
        BY <3>2, ChannelsStored
      <3>3. CASE ImportProgrammes(j) \/ RenderGuide(j) \/ ReplaceGuide(j) \/ ChooseFill(j)
        BY <3>3, FileSteps
      <3>4. CASE \E p \in guideJob[j].todo : LookUpProgramme(j, p)
        BY <3>4, ProgrammeLookedUp
      <3>5. CASE \E d \in guideJob[j].doing : StoreProgramme(j, d) \/ ProgrammeIsLost(j, d)
        BY <3>5, ProgrammeStored, ProgrammeLost
      <3>. QED  BY <2>3, <3>1, <3>2, <3>3, <3>4, <3>5
    <2>. QED  BY <1>2, <2>1, <2>2, <2>3 DEF GuideNext
  <1>. QED  BY <1>1, <1>2

(* The invariant, on every state of every behaviour.                       *)
THEOREM GuideSafety == GuideSpec => []GuideInv
  <1>. QED  BY GuideStarts, GuideSteps, PTL DEF GuideSpec

(* A guide file that fills its gaps has an entry for every hour of its     *)
(* window, and no placeholder overlaps another entry, whichever rows of    *)
(* old documents and other timezones it is made from: what the cursor of   *)
(* programmesForXMLTV and appendPlaceholderProgrammes are for.             *)
THEOREM GuideIsFilled == GuideSpec => []GuideFilled
  <1>1. GuideInv => GuideFilled
    BY DEF GuideInv, FilesFilled, Filled, GuideFilled
  <1>. QED  BY <1>1, GuideSafety, PTL

(* An import that nothing disturbed ends with exactly one row for every    *)
(* programme it read that has not expired, with a title the document gives *)
(* for its times, whatever its two workers looked up before the other      *)
(* stored (processProgrammeWorker).                                        *)
THEOREM ImportMirrorsGuide == GuideSpec => GuideImported
  <1>1. ASSUME GuideInv, GuideNext, NEW j \in GuideJobs,
               guideJob[j].at = "programmes", guideJob'[j].at = "render", guideJob[j].undisturbed
        PROVE  \A p \in {q \in guideJob[j].listed : ~GuideExpired(q)} :
                  \E i \in SameSlot(p) :
                     /\ SameSlot(p) = {i}
                     /\ \E q \in guideJob[j].listed : q.start = p.start /\ q.stop = p.stop /\ q.title = epgProgramme[i].title
    <2>1. guideJob \in [GuideJobs -> Jobs] /\ GuideTypes
      BY <1>1 DEF GuideInv, GuideTypes
    <2>2. j \in GuideImporting
      BY <1>1 DEF GuideImporting
    <2>3. ImportProgrammes(j)
      <3>. SUFFICES ASSUME ~ImportProgrammes(j)
                    PROVE  guideJob'[j].at = "programmes"
        BY <1>1
      <3>1. CASE \/ CleanOldProgrammes \/ HourPasses
                 \/ \E p \in epgDocument.programmes : ProgrammeChanges(p)
                 \/ \E n \in GuideNames, label \in Labels : ChannelChanges(n, label)
        BY <3>1, <1>1 DEF CleanOldProgrammes, HourPasses, ProgrammeChanges, ChannelChanges
      <3>2. CASE \E z \in Zones : ZoneChanges(z)
        BY <3>2, <1>1, <2>1, <2>2, DisturbedJobs DEF ZoneChanges
      <3>3. ASSUME NEW k \in GuideJobs, NEW scheduled \in BOOLEAN, BeginGuideImport(k, scheduled)
            PROVE  guideJob'[j].at = "programmes"
        <4>1. k # j
          BY <3>3, <1>1 DEF BeginGuideImport
        <4>2. Disturbed[j].at = guideJob[j].at /\ Disturbed \in [GuideJobs -> Jobs]
          BY <2>1, <2>2, DisturbedJobs
        <4>. QED  BY <4>1, <4>2, <3>3, <1>1 DEF BeginGuideImport
      <3>4. ASSUME NEW k \in GuideJobs,
                   \/ SortChannels(k) \/ CreateChannels(k) \/ UpdateChannel(k)
                   \/ \E n \in GuideNames : CreateGuideChannel(k, n)
                   \/ RenderGuide(k) \/ ReplaceGuide(k) \/ ChooseFill(k)
            PROVE  guideJob'[j].at = "programmes"
        <4>1. k # j
          BY <3>4, <1>1 DEF SortChannels, CreateChannels, UpdateChannel, CreateGuideChannel,
                            RenderGuide, ReplaceGuide, ChooseFill
        <4>2. guideJob'[j] = guideJob[j]
          BY <4>1, <3>4, <2>1 DEF SortChannels, CreateChannels, UpdateChannel, CreateGuideChannel,
                                  RenderGuide, ReplaceGuide, ChooseFill
        <4>. QED  BY <4>2, <1>1
      <3>5. ASSUME NEW k \in GuideJobs, ImportProgrammes(k)
            PROVE  guideJob'[j].at = "programmes"
        BY <3>5, <1>1, <2>1 DEF ImportProgrammes
      <3>6. ASSUME NEW k \in GuideJobs, guideJob[k].at = "programmes",
                   \/ \E p \in guideJob[k].todo : LookUpProgramme(k, p)
                   \/ \E d \in guideJob[k].doing : StoreProgramme(k, d) \/ ProgrammeIsLost(k, d)
            PROVE  guideJob'[j].at = "programmes"
        <4>1. guideJob[k] \in Imports
          BY <3>6, <2>1, StoringJob
        <4>2. CASE k = j
          <5>1. PICK q \in Imports : q = guideJob[j] /\ q.at = "programmes"
            BY <4>1, <4>2, <1>1
          <5>2. ASSUME NEW p \in guideJob[k].todo, LookUpProgramme(k, p)
                PROVE  guideJob'[j].at = "programmes"
            <6>1. PICK f : f = [q EXCEPT !.todo = @ \ {p}, !.doing = @ \cup {[p |-> p, row |-> SameSlot(p)]}]
              OBVIOUS
            <6>2. f.at = "programmes"
              BY <6>1, <5>1 DEF Imports
            <6>3. guideJob'[j] = f
              BY <6>1, <5>2, <5>1, <4>2, <2>1 DEF LookUpProgramme
            <6>. QED  BY <6>2, <6>3
          <5>3. ASSUME NEW d \in guideJob[k].doing, StoreProgramme(k, d)
                PROVE  guideJob'[j].at = "programmes"
            <6>1. PICK f : f = [q EXCEPT !.doing = @ \ {d}]
              OBVIOUS
            <6>2. f.at = "programmes"
              BY <6>1, <5>1 DEF Imports
            <6>3. guideJob'[j] = f
              BY <6>1, <5>3, <5>1, <4>2, <2>1 DEF StoreProgramme
            <6>. QED  BY <6>2, <6>3
          <5>4. ASSUME NEW d \in guideJob[k].doing, ProgrammeIsLost(k, d)
                PROVE  guideJob'[j].at = "programmes"
            <6>1. PICK f : f = [q EXCEPT !.doing = @ \ {d}, !.undisturbed = FALSE]
              OBVIOUS
            <6>2. f.at = "programmes"
              BY <6>1, <5>1 DEF Imports
            <6>3. guideJob'[j] = f
              BY <6>1, <5>4, <5>1, <4>2, <2>1 DEF ProgrammeIsLost
            <6>. QED  BY <6>2, <6>3
          <5>. QED  BY <3>6, <5>2, <5>3, <5>4
        <4>3. CASE k # j
          BY <4>3, <3>6, <1>1, <2>1 DEF LookUpProgramme, StoreProgramme, ProgrammeIsLost
        <4>. QED  BY <4>2, <4>3
      <3>. QED  BY <1>1, <3>1, <3>2, <3>3, <3>4, <3>5, <3>6 DEF GuideNext
    <2>4. guideJob[j].todo = {} /\ guideJob[j].doing = {}
      BY <2>3 DEF ImportProgrammes
    <2>5. ASSUME NEW p \in guideJob[j].listed, ~GuideExpired(p)
          PROVE  \E i \in SameSlot(p) :
                     /\ SameSlot(p) = {i}
                     /\ \E q \in guideJob[j].listed : q.start = p.start /\ q.stop = p.stop /\ q.title = epgProgramme[i].title
      <3>1. PICK i \in SameSlot(p) : Listing(guideJob[j].listed, epgProgramme[i])
        BY <1>1, <2>2, <2>4, <2>5 DEF GuideInv, Keeping
      <3>2. SameSlot(p) = {i}
        BY <3>1, <1>1 DEF GuideInv, OneRowEach, SameSlot
      <3>3. epgProgramme[i].start = p.start /\ epgProgramme[i].stop = p.stop
        BY DEF SameSlot
      <3>. QED  BY <3>1, <3>2, <3>3 DEF Listing
    <2>. QED  BY <2>5
  <1>2. ASSUME GuideInv, [GuideNext]_guideVars
        PROVE  [\A j \in GuideJobs :
                   guideJob[j].at = "programmes" /\ guideJob'[j].at = "render" /\ guideJob[j].undisturbed =>
                      \A p \in {q \in guideJob[j].listed : ~GuideExpired(q)} :
                         \E i \in SameSlot(p) :
                            /\ SameSlot(p) = {i}
                            /\ \E q \in guideJob[j].listed :
                                  q.start = p.start /\ q.stop = p.stop /\ q.title = epgProgramme[i].title]_guideVars
    BY <1>1, <1>2
  <1>. QED  BY <1>2, GuideSafety, PTL DEF GuideSpec, GuideImported

=============================================================================
