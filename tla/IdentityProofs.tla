---------------------------- MODULE IdentityProofs ----------------------------
(***************************************************************************)
(* Identity.tla for every number of accounts, sessions, passkeys, links    *)
(* and waiting handlers: no credential outlives what replaced it, an       *)
(* administrator remains, the first account is made once.                  *)
(*                                                                         *)
(* Every handler that awaits has read something before.  RequestStands     *)
(* says what of it still holds, or will be found out by the checks of the  *)
(* transaction.  It is kept because rows only move forward (Moves): an id  *)
(* is used once, a row keeps its owner, a row that is gone stays gone, a   *)
(* changed account has a higher version, and a session that survives has   *)
(* an account whose password has not changed.                              *)
(***************************************************************************)
EXTENDS Identity, FiniteSetTheorems, TLAPS

AccountRows == [status : {"none", "pending", "active", "disabled"}, role : Roles,
                version : 0..MaxVersion, origin : {"none", "first", "created"}]
KeyRows == {NoKey, Gone} \cup [life : {"bound"}, user : Users, since : 0..MaxRecoveries]
FlowRows == {NoFlow, Gone} \cup
            [life : {"open"}, purpose : {"activation", "recovery", "reauth", "register"},
             user : Users, session : 0..MaxSessions, challenge : Nat]

Tables ==
    /\ users \in [Users -> AccountRows]
    /\ passwords \in [Users -> 0..MaxPassword]
    /\ recoveries \in [Users -> 0..MaxRecoveries]
    /\ sessions \in [SessionIds -> SessionRows]
    /\ passkeys \in [KeyIds -> KeyRows]
    /\ flows \in [FlowIds -> FlowRows]

\* An account has a password from its activation on.
AccountsStand ==
    /\ \A u \in Users :
         /\ Active(u) <=> passwords[u] # 0 /\ users[u].status # "disabled"
         /\ ~Exists(u) => users[u].origin = "none"
    /\ \A k \in KeyIds : Bound(k) => passwords[passkeys[k].user] # 0

\* A flow that a session has started is about that session's account.
FlowStands(f) ==
    Open(f) /\ flows[f].purpose \in {"reauth", "register"} =>
        LET s == flows[f].session
        IN /\ s \in SessionIds /\ sessions[s].life # "none"
           /\ Live(s) => sessions[s].user = flows[f].user

\* What a waiting handler has read and its transaction relies on
RequestStands(r) ==
    /\ r.kind \in {"login", "setup"} => r.user \in Users
    /\ r.kind = "reauth" =>
         /\ r.session \in SessionIds /\ sessions[r.session].life # "none"
         /\ Live(r.session) => r.hash = passwords[sessions[r.session].user]
    /\ r.kind = "verify" =>
         /\ r.user \in Users
         /\ r.key \in KeyIds /\ passkeys[r.key].life # "none"
         /\ Bound(r.key) => passkeys[r.key].user = r.user
         /\ r.flow # SignIn =>
              /\ r.flow \in FlowIds /\ flows[r.flow].life # "none"
              /\ Open(r.flow) => flows[r.flow].purpose = "reauth" /\ flows[r.flow].user = r.user
    /\ r.kind = "register" =>
         /\ r.flow \in FlowIds /\ flows[r.flow].life # "none"
         /\ Open(r.flow) =>
              /\ flows[r.flow].purpose = "register"
              /\ Live(flows[r.flow].session) => r.since = sessions[flows[r.flow].session].since
    /\ r.kind = "edit" =>
         /\ r.user \in Users /\ Exists(r.user) /\ <<r.status, r.role>> \in Edits
         /\ r.seen \in AccountRows
         /\ r.seen.version <= users[r.user].version
         /\ r.seen.version = users[r.user].version => users[r.user] = r.seen

Waiting == IsFiniteSet(requests) /\ Cardinality(requests) <= MaxRequests

Inv ==
    /\ Tables /\ AccountsStand /\ CredentialsAreCurrent /\ FirstAccountOnce
    /\ \A f \in FlowIds : FlowStands(f)
    /\ \A r \in requests : RequestStands(r)
    /\ Waiting

\* How the rows change in any step
Moves ==
    /\ \A s \in SessionIds :
         \/ sessions'[s].life = "gone" \/ sessions[s].life = "none"
         \/ sessions'[s] = sessions[s] /\ ~Live(s)
         \/ /\ Live(s) /\ Live(s)'
            /\ sessions'[s].user = sessions[s].user /\ sessions'[s].since = sessions[s].since
            /\ passwords'[sessions[s].user] = passwords[sessions[s].user]
    /\ \A k \in KeyIds :
         passkeys'[k] = passkeys[k] \/ passkeys'[k].life = "gone" \/ passkeys[k].life = "none"
    /\ \A f \in FlowIds :
         \/ flows'[f] = flows[f] \/ flows'[f].life = "gone"
         \/ flows[f].life = "none" /\ FlowStands(f)'
         \/ /\ Open(f) /\ Open(f)'
            /\ flows'[f].purpose = flows[f].purpose /\ flows'[f].user = flows[f].user
            /\ flows'[f].session = flows[f].session
    /\ \A u \in Users :
         \/ users'[u] = users[u] \/ ~Exists(u)
         \/ Exists(u)' /\ users'[u].version > users[u].version

--------------------------------------------------------------------------------
\* A row of a table that is in use has the fields of such a row.
LEMMA RowsInUse ==
  ASSUME Tables
  PROVE  /\ \A s \in SessionIds : Live(s) =>
              sessions[s] \in [life : {"live"}, user : Users, fresh : BOOLEAN,
                  by : ({"password"} \X (1..MaxPassword)) \cup ({"key"} \X KeyIds),
                  since : 0..MaxRecoveries]
         /\ \A s \in SessionIds : sessions[s] = NoSession <=> sessions[s].life = "none"
         /\ \A k \in KeyIds : Bound(k) =>
              passkeys[k] \in [life : {"bound"}, user : Users, since : 0..MaxRecoveries]
         /\ \A k \in KeyIds : passkeys[k] = NoKey <=> passkeys[k].life = "none"
         /\ \A f \in FlowIds : Open(f) =>
              flows[f] \in [life : {"open"},
                            purpose : {"activation", "recovery", "reauth", "register"},
                            user : Users, session : 0..MaxSessions, challenge : Nat]
         /\ \A f \in FlowIds : flows[f] = NoFlow <=> flows[f].life = "none"
BY DEF Tables, SessionRows, KeyRows, FlowRows, NoSession, NoKey, NoFlow, Gone, Live, Bound, Open

\* Rows that move forward keep what flows and waiting handlers rely on.
LEMMA MovesKeepFlows ==
  ASSUME Tables, Tables', Moves, NEW f \in FlowIds, FlowStands(f)
  PROVE  FlowStands(f)'
<1>1. CASE flows'[f] = flows[f] \/ (Open(f) /\ Open(f)' /\ flows'[f].purpose = flows[f].purpose
            /\ flows'[f].user = flows[f].user /\ flows'[f].session = flows[f].session)
  <2>1. SUFFICES ASSUME Open(f)', flows'[f].purpose \in {"reauth", "register"}
                 PROVE  /\ flows'[f].session \in SessionIds
                        /\ sessions'[flows'[f].session].life # "none"
                        /\ Live(flows[f].session)'
                             => sessions'[flows'[f].session].user = flows'[f].user
    BY DEF FlowStands, Live
  <2>2. /\ flows[f].session \in SessionIds /\ sessions[flows[f].session].life # "none"
        /\ Live(flows[f].session) => sessions[flows[f].session].user = flows[f].user
    BY <1>1, <2>1 DEF FlowStands, Open
  <2> QED  BY <1>1, <2>2 DEF Moves, Live
<1>2. CASE flows'[f].life = "gone"
  BY <1>2 DEF FlowStands, Open
<1>3. CASE flows[f].life = "none" /\ FlowStands(f)'
  BY <1>3
<1> QED  BY <1>1, <1>2, <1>3 DEF Moves

LEMMA MovesKeepRequests ==
  ASSUME Tables, Tables', Moves, \A f \in FlowIds : FlowStands(f),
         NEW r, RequestStands(r)
  PROVE  RequestStands(r)'
<1>1. r.kind = "reauth" =>
        /\ r.session \in SessionIds /\ sessions'[r.session].life # "none"
        /\ Live(r.session)' => r.hash = passwords'[sessions'[r.session].user]
  BY RowsInUse DEF RequestStands, Moves, Live
<1>2. r.kind = "verify" =>
         /\ r.key \in KeyIds /\ passkeys'[r.key].life # "none"
         /\ Bound(r.key)' => passkeys'[r.key].user = r.user
  BY DEF RequestStands, Moves, Bound
<1>3. r.kind = "verify" /\ r.flow # SignIn =>
              /\ r.flow \in FlowIds /\ flows'[r.flow].life # "none"
              /\ Open(r.flow)' => flows'[r.flow].purpose = "reauth" /\ flows'[r.flow].user = r.user
  BY DEF RequestStands, Moves, Open
<1>4. r.kind = "register" =>
         /\ r.flow \in FlowIds /\ flows'[r.flow].life # "none"
         /\ Open(r.flow)' =>
              /\ Open(r.flow) /\ flows'[r.flow].purpose = "register"
              /\ flows'[r.flow].session = flows[r.flow].session
  BY DEF RequestStands, Moves, Open
<1>5. ASSUME r.kind = "register", Open(r.flow)', Live(flows[r.flow].session)'
      PROVE  r.since = sessions'[flows'[r.flow].session].since
  <2> DEFINE s == flows[r.flow].session
  <2>1. Open(r.flow) /\ flows[r.flow].purpose = "register" /\ r.flow \in FlowIds
    BY <1>4, <1>5 DEF RequestStands
  <2>2. s \in SessionIds /\ sessions[s].life # "none"
    BY <2>1 DEF FlowStands
  <2>3. sessions'[s].life = "live"
    BY <1>4, <1>5 DEF Live
  <2>4. Live(s) /\ sessions'[s].since = sessions[s].since
    BY <2>2, <2>3 DEF Moves, Live
  <2> QED  BY <1>4, <1>5, <2>1, <2>4 DEF RequestStands
<1>6. ASSUME r.kind = "edit"
      PROVE  /\ Exists(r.user)' /\ r.seen.version <= users'[r.user].version
             /\ r.seen.version = users'[r.user].version => users'[r.user] = r.seen
  <2>1. /\ r.user \in Users /\ Exists(r.user) /\ r.seen \in AccountRows
        /\ r.seen.version <= users[r.user].version
        /\ r.seen.version = users[r.user].version => users[r.user] = r.seen
    BY <1>6 DEF RequestStands
  <2>2. /\ users[r.user].version \in Nat /\ users'[r.user].version \in Nat
        /\ r.seen.version \in Nat
    BY <2>1, IdentityAssumption DEF Tables, AccountRows
  <2>3. CASE users'[r.user] = users[r.user]
    BY <2>1, <2>3 DEF Exists
  <2>4. CASE Exists(r.user)' /\ users'[r.user].version > users[r.user].version
    BY <2>1, <2>2, <2>4
  <2> QED  BY <2>1, <2>3, <2>4 DEF Moves
<1> QED  BY <1>1, <1>2, <1>3, <1>4, <1>5, <1>6 DEF RequestStands

LEMMA RowsMoveForward ==
  ASSUME Inv, Tables', AccountsStand', CredentialsAreCurrent', FirstAccountOnce',
         Moves, requests' \subseteq requests
  PROVE  Inv'
<1>1. \A f \in FlowIds : FlowStands(f)'
  BY MovesKeepFlows DEF Inv
<1>2. \A r \in requests' : RequestStands(r)'
  BY MovesKeepRequests DEF Inv
<1>3. Waiting'
  <2>1. IsFiniteSet(requests') /\ Cardinality(requests') <= Cardinality(requests)
    BY FS_Subset DEF Inv, Waiting
  <2>2. Cardinality(requests') \in Nat /\ Cardinality(requests) \in Nat
    BY <2>1, FS_CardinalityType DEF Inv, Waiting
  <2> QED  BY <2>1, <2>2, IdentityAssumption DEF Inv, Waiting
<1> QED  BY <1>1, <1>2, <1>3 DEF Inv

--------------------------------------------------------------------------------
(***************************************************************************)
(* The effects on the tables                                               *)
(***************************************************************************)
\* What a session rests on
Proofs == ({"password"} \X (1..MaxPassword)) \cup ({"key"} \X KeyIds)

\* New rows get an id that no row has had.
LEMMA NewIds ==
  /\ NewSession \subseteq {s \in SessionIds : sessions[s] = NoSession}
  /\ NewKey \subseteq {k \in KeyIds : passkeys[k] = NoKey}
  /\ NewFlow \subseteq {f \in FlowIds : flows[f] = NoFlow}
BY DEF NewSession, NewKey, NewFlow, Least

LEMMA SessionIssued ==
  ASSUME NEW kept \in [SessionIds -> SessionRows], NEW u \in Users,
         NEW by \in Proofs, NEW gen \in 0..MaxRecoveries,
         IssueSession(kept, u, by, gen)
  PROVE  /\ sessions' \in [SessionIds -> SessionRows]
         /\ \E s \in SessionIds :
              /\ sessions[s].life = "none" /\ sessions'[s].life = "live"
              /\ sessions'[s].user = u /\ sessions'[s].by = by
              /\ sessions'[s].since = gen
              /\ \A t \in SessionIds \ {s} : sessions'[t] = kept[t]
<1>1. PICK s \in NewSession :
        sessions' = [kept EXCEPT ![s] = [life |-> "live", user |-> u, fresh |-> TRUE,
                                         by |-> by, since |-> gen]]
  BY DEF IssueSession
<1>2. s \in SessionIds /\ sessions[s].life = "none"
  BY NewIds DEF NoSession
<1>3. [life |-> "live", user |-> u, fresh |-> TRUE, by |-> by, since |-> gen] \in SessionRows
  BY DEF SessionRows, Proofs
<1> QED  BY <1>1, <1>2, <1>3

LEMMA SessionsEnded ==
  ASSUME Tables, NEW u \in Users
  PROVE  /\ WithoutSessions(u) \in [SessionIds -> SessionRows]
         /\ \A s \in SessionIds :
              \/ WithoutSessions(u)[s] = Gone
              \/ /\ WithoutSessions(u)[s] = sessions[s]
                 /\ Live(s) => sessions[s].user # u
BY DEF Tables, WithoutSessions, SessionRows

LEMMA SessionRefreshed ==
  ASSUME Tables, NEW s \in SessionIds, Live(s), NEW by \in Proofs,
         Refreshed(s, by)
  PROVE  /\ sessions' \in [SessionIds -> SessionRows]
         /\ sessions'[s].life = "live" /\ sessions'[s].by = by
         /\ sessions'[s].user = sessions[s].user /\ sessions'[s].since = sessions[s].since
         /\ \A t \in SessionIds \ {s} : sessions'[t] = sessions[t]
<1>1. sessions[s] \in [life : {"live"}, user : Users, fresh : BOOLEAN,
                       by : Proofs, since : 0..MaxRecoveries]
  BY RowsInUse DEF Proofs
<1>2. sessions'[s] = [sessions[s] EXCEPT !.fresh = TRUE, !.by = by]
  BY <1>1 DEF Tables, Refreshed
<1>3. \A t \in SessionIds \ {s} : sessions'[t] = sessions[t]
  BY DEF Tables, Refreshed
<1>4. sessions'[s] \in [life : {"live"}, user : Users, fresh : BOOLEAN,
                        by : Proofs, since : 0..MaxRecoveries]
  BY <1>1, <1>2
<1>5. sessions' \in [SessionIds -> SessionRows]
  <2>1. sessions' = [t \in SessionIds |-> sessions'[t]]
    BY DEF Tables, Refreshed
  <2>2. \A t \in SessionIds : sessions'[t] \in SessionRows
    BY <1>3, <1>4 DEF Tables, SessionRows, Proofs
  <2> QED  BY <2>1, <2>2
<1> QED  BY <1>1, <1>2, <1>3, <1>4, <1>5

LEMMA PasskeyInserted ==
  ASSUME NEW kept \in [KeyIds -> KeyRows], NEW u \in Users,
         NEW gen \in 0..MaxRecoveries, InsertPasskey(kept, u, gen)
  PROVE  /\ passkeys' \in [KeyIds -> KeyRows]
         /\ \E k \in KeyIds :
              /\ passkeys[k].life = "none" /\ passkeys'[k].life = "bound"
              /\ passkeys'[k].user = u /\ passkeys'[k].since = gen
              /\ \A i \in KeyIds \ {k} : passkeys'[i] = kept[i]
<1>1. PICK k \in NewKey :
        passkeys' = [kept EXCEPT ![k] = [life |-> "bound", user |-> u, since |-> gen]]
  BY DEF InsertPasskey
<1>2. k \in KeyIds /\ passkeys[k].life = "none"
  BY NewIds DEF NoKey
<1> QED  BY <1>1, <1>2 DEF KeyRows

LEMMA FlowsConsumed ==
  ASSUME Tables, NEW u \in Users, NEW purposes
  PROVE  /\ Consumed(u, purposes) \in [FlowIds -> FlowRows]
         /\ \A f \in FlowIds :
              Consumed(u, purposes)[f] = Gone \/ Consumed(u, purposes)[f] = flows[f]
BY DEF Tables, Consumed, FlowRows

LEMMA LinkIssued ==
  ASSUME Tables, NEW u \in Users, NEW purpose \in {"activation", "recovery"},
         IssueOnboarding(u, purpose)
  PROVE  /\ flows' \in [FlowIds -> FlowRows]
         /\ \A f \in FlowIds :
              \/ flows'[f] = flows[f] \/ flows'[f].life = "gone"
              \/ flows[f].life = "none" /\ FlowStands(f)'
<1>1. PICK f \in NewFlow :
        flows' = [Consumed(u, {purpose}) EXCEPT ![f] = OnboardingRow(u, purpose)]
  BY DEF IssueOnboarding
<1>2. f \in FlowIds /\ flows[f].life = "none"
  BY NewIds DEF NoFlow
<1>3. OnboardingRow(u, purpose) \in FlowRows
  BY IdentityAssumption DEF OnboardingRow, FlowRows
<1>4. flows'[f].purpose \notin {"reauth", "register"}
  BY <1>1, <1>2, FlowsConsumed DEF OnboardingRow
<1> QED  BY <1>1, <1>2, <1>3, <1>4, FlowsConsumed DEF FlowStands, Gone

--------------------------------------------------------------------------------
(***************************************************************************)
(* What is read holds when it is read                                      *)
(***************************************************************************)
LEMMA ReadsStand ==
  ASSUME Inv, NEW r \in Reads
  PROVE  RequestStands(r)
<1>1. CASE r \in SetupReads
  BY <1>1 DEF SetupReads, SetupForm, RequestStands
<1>2. CASE r \in LoginReads
  BY <1>2 DEF LoginReads, RequestStands
<1>3. CASE r \in ReauthReads
  BY <1>3 DEF ReauthReads, RequestStands, Authenticates, Live
<1>4. CASE r \in VerifyReads
  <2>1. PICK f \in FlowIds \cup {SignIn}, k \in KeyIds :
          /\ Verifies(f, k)
          /\ r = [kind |-> "verify", flow |-> f, key |-> k, user |-> passkeys[k].user]
    BY <1>4 DEF VerifyReads
  <2>2. passkeys[k].user \in Users /\ passkeys[k].life # "none"
    BY <2>1, RowsInUse DEF Inv, Verifies, Bound
  <2> QED  BY <2>1, <2>2 DEF RequestStands, Verifies, Open
<1>5. CASE r \in OnboardingReads(TRUE) \cup OnboardingReads(FALSE)
  BY <1>5 DEF OnboardingReads, RequestStands
<1>6. CASE r \in ChangePasswordReads
  BY <1>6 DEF ChangePasswordReads, RequestStands
<1>7. CASE r \in RegisterReads
  BY <1>7 DEF RegisterReads, RequestStands, Registers, Open
<1>8. CASE r \in EditorReads
  <2>1. PICK u \in Users, e \in Edits :
          /\ Exists(u)
          /\ r = [kind |-> "edit", user |-> u, seen |-> users[u],
                  status |-> e[1], role |-> e[2]]
    BY <1>8 DEF EditorReads
  <2>2. users[u] \in AccountRows /\ <<e[1], e[2]>> \in Edits
    BY DEF Inv, Tables, Edits
  <2>3. users[u].version \in Nat
    BY <2>2, IdentityAssumption DEF AccountRows
  <2> QED  BY <2>1, <2>2, <2>3 DEF RequestStands
<1> QED
  BY <1>1, <1>2, <1>3, <1>4, <1>5, <1>6, <1>7, <1>8
  DEF Reads, LoginForm, ReauthForm, EnrollForm, AccountForm

--------------------------------------------------------------------------------
(***************************************************************************)
(* The steps, one lemma for each                                           *)
(***************************************************************************)
LEMMA InitHolds == Init => Inv
<1> SUFFICES ASSUME Init PROVE Inv
  OBVIOUS
<1>1. Tables
  BY IdentityAssumption DEF Init, Tables, AccountRows, KeyRows, FlowRows, SessionRows,
     Roles, NoUser
<1>2. AccountsStand /\ CredentialsAreCurrent /\ FirstAccountOnce
  BY DEF Init, AccountsStand, CredentialsAreCurrent, FirstAccountOnce, Active, Exists,
     Bound, Live, NoUser, NoKey, NoSession
<1>3. \A f \in FlowIds : FlowStands(f)
  BY DEF Init, FlowStands, Open, NoFlow
<1>4. Waiting
  BY FS_EmptySet, IdentityAssumption DEF Init, Waiting
<1> QED  BY <1>1, <1>2, <1>3, <1>4 DEF Inv, Init

LEMMA SetupCommitKeeps ==
  ASSUME Inv, NEW r, RequestStands(r), SetupCommit(r)
  PROVE  Inv'
<1> DEFINE u == r.user
<1>1. u \in Users /\ (\A v \in Users : ~Exists(v) /\ users[v].origin = "none")
  BY DEF SetupCommit, SetupStillOpen, NeedsSetup, RequestStands, Inv, AccountsStand
<1>2. PICK h \in NewHash(u) :
        /\ passwords' = [passwords EXCEPT ![u] = h]
        /\ IssueSession(sessions, u, <<"password", h>>, recoveries[u])
  BY DEF SetupCommit
<1>3. /\ h \in 1..MaxPassword /\ recoveries[u] \in 0..MaxRecoveries
      /\ <<"password", h>> \in Proofs /\ sessions \in [SessionIds -> SessionRows]
  BY <1>1 DEF NewHash, Inv, Tables, Proofs
<1>4. PICK s \in SessionIds :
        /\ sessions[s].life = "none" /\ sessions'[s].life = "live"
        /\ sessions'[s].user = u /\ sessions'[s].by = <<"password", h>>
        /\ sessions'[s].since = recoveries[u]
        /\ \A t \in SessionIds \ {s} : sessions'[t] = sessions[t]
  BY <1>1, <1>2, <1>3, SessionIssued
<1>5. sessions' \in [SessionIds -> SessionRows]
  BY <1>1, <1>2, <1>3, SessionIssued
<1>6. \A t \in SessionIds : ~Live(t)
  BY <1>1, RowsInUse DEF Inv, CredentialsAreCurrent, Active, Exists
<1>7. \A k \in KeyIds : ~Bound(k)
  BY <1>1, RowsInUse DEF Inv, AccountsStand, Active, Exists
<1>8. Tables'
  BY <1>1, <1>2, <1>3, <1>5, IdentityAssumption
  DEF SetupCommit, Inv, Tables, AccountRows, Roles
<1>9. AccountsStand'
  BY <1>1, <1>2, <1>3, <1>7 DEF SetupCommit, Inv, Tables, AccountsStand, Active, Exists, Bound
<1>10. CredentialsAreCurrent'
  BY <1>1, <1>2, <1>3, <1>4, <1>6, <1>7
  DEF SetupCommit, Inv, Tables, CredentialsAreCurrent, Active, Live, Bound
<1>11. FirstAccountOnce'
  BY <1>1 DEF SetupCommit, Inv, Tables, FirstAccountOnce
<1>12. Moves
  BY <1>1, <1>4, <1>6 DEF SetupCommit, Inv, Tables, Moves, Live
<1> QED
  BY <1>8, <1>9, <1>10, <1>11, <1>12, RowsMoveForward DEF SetupCommit, Ends

\* A step that only adds flows, removes them or counts their challenges
LEMMA FlowsOnly ==
  ASSUME Inv, flows' \in [FlowIds -> FlowRows],
         \A f \in FlowIds :
            \/ flows'[f] = flows[f] \/ flows'[f].life = "gone"
            \/ flows[f].life = "none" /\ FlowStands(f)'
            \/ /\ Open(f) /\ Open(f)'
               /\ flows'[f].purpose = flows[f].purpose /\ flows'[f].user = flows[f].user
               /\ flows'[f].session = flows[f].session,
         UNCHANGED <<users, passwords, passkeys, sessions, requests, recoveries>>
  PROVE  Inv'
<1>1. Tables'
  BY DEF Inv, Tables
<1>2. AccountsStand' /\ CredentialsAreCurrent' /\ FirstAccountOnce'
  BY DEF Inv, AccountsStand, CredentialsAreCurrent, FirstAccountOnce, Active, Exists, Bound, Live
<1>3. Moves
  BY RowsInUse DEF Inv, Moves, Tables, Live, SessionRows, NoSession, Gone
<1> QED  BY <1>1, <1>2, <1>3, RowsMoveForward

\* A step that ends sessions, makes them recent or opens new ones, and spends
\* the flow that was used for it
LEMMA SessionsOnly ==
  ASSUME Inv, sessions' \in [SessionIds -> SessionRows],
         \A t \in SessionIds :
            \/ sessions'[t].life = "gone"
            \/ sessions'[t] = sessions[t]
            \/ /\ Live(t) /\ sessions'[t].life = "live"
               /\ sessions'[t].user = sessions[t].user /\ sessions'[t].since = sessions[t].since
               /\ sessions'[t].by[1] = "password"
                    => sessions'[t].by[2] = passwords[sessions[t].user]
            \/ /\ sessions[t].life = "none" /\ sessions'[t].life = "live"
               /\ Active(sessions'[t].user)
               /\ sessions'[t].since = recoveries[sessions'[t].user]
               /\ sessions'[t].by[1] = "password"
                    => sessions'[t].by[2] = passwords[sessions'[t].user],
         flows' \in [FlowIds -> FlowRows],
         \A f \in FlowIds : flows'[f] = flows[f] \/ flows'[f].life = "gone",
         UNCHANGED <<users, passwords, passkeys, recoveries>>,
         requests' \subseteq requests
  PROVE  Inv'
<1>1. Tables'
  BY DEF Inv, Tables
<1>2. AccountsStand' /\ FirstAccountOnce'
  BY DEF Inv, AccountsStand, FirstAccountOnce, Active, Exists, Bound
<1>3. CredentialsAreCurrent'
  <2>1. ASSUME NEW t \in SessionIds, Live(t)'
        PROVE  /\ Active(sessions'[t].user)
               /\ sessions'[t].since = recoveries[sessions'[t].user]
               /\ sessions'[t].by[1] = "password"
                    => sessions'[t].by[2] = passwords[sessions'[t].user]
    BY <2>1 DEF Inv, CredentialsAreCurrent, Live
  <2> QED  BY <2>1 DEF Inv, CredentialsAreCurrent, Active, Live, Bound
<1>4. Moves
  <2>1. \A t \in SessionIds :
          \/ sessions'[t].life = "gone" \/ sessions[t].life = "none"
          \/ sessions'[t] = sessions[t] /\ ~Live(t)
          \/ /\ Live(t) /\ Live(t)'
             /\ sessions'[t].user = sessions[t].user /\ sessions'[t].since = sessions[t].since
             /\ passwords'[sessions[t].user] = passwords[sessions[t].user]
    BY DEF Live
  <2> QED  BY <2>1 DEF Moves
<1> QED  BY <1>1, <1>2, <1>3, <1>4, RowsMoveForward

LEMMA NewAccountKeeps ==
  ASSUME Inv, NEW u \in Users, ~Exists(u), NEW role \in Roles,
         NEW origin \in {"first", "created"}, origin = "first" => NeedsSetup,
         users' = [users EXCEPT ![u] = [status |-> "pending", role |-> role,
                                        version |-> 1, origin |-> origin]],
         IssueOnboarding(u, "activation"),
         UNCHANGED <<passwords, passkeys, sessions, requests, recoveries>>
  PROVE  Inv'
<1>1. /\ flows' \in [FlowIds -> FlowRows]
      /\ \A f \in FlowIds :
           \/ flows'[f] = flows[f] \/ flows'[f].life = "gone"
           \/ flows[f].life = "none" /\ FlowStands(f)'
  BY LinkIssued DEF Inv
<1>2. Tables'
  BY <1>1, IdentityAssumption DEF Inv, Tables, AccountRows
<1>3. passwords[u] = 0 /\ ~Active(u)
  BY DEF Inv, AccountsStand, Active, Exists
<1>4. AccountsStand'
  BY <1>3 DEF Inv, Tables, AccountsStand, Active, Exists, Bound
<1>5. CredentialsAreCurrent'
  BY <1>3 DEF Inv, Tables, CredentialsAreCurrent, Active, Live, Bound
<1>6. FirstAccountOnce'
  BY DEF Inv, Tables, AccountsStand, FirstAccountOnce, NeedsSetup, Exists
<1>7. Moves
  BY <1>1 DEF Inv, Tables, Moves, Live, SessionRows, NoSession, Gone
<1> QED  BY <1>2, <1>4, <1>5, <1>6, <1>7, RowsMoveForward

LEMMA AdminKeeps ==
  ASSUME Inv, NEW u \in Users, NEW role \in Roles, NEW p \in {"activation", "recovery"},
         AdminInit(u) \/ AdminRecover(u) \/ CreateUser(u, role) \/ CreateUserFlow(u, p)
  PROVE  Inv'
<1>1. CASE AdminInit(u)
  BY <1>1, NewAccountKeeps DEF AdminInit, NeedsSetup, Roles
<1>2. CASE CreateUser(u, role)
  BY <1>2, NewAccountKeeps DEF CreateUser
<1>3. CASE AdminRecover(u)
  <2>1. PICK q \in {"activation", "recovery"} : IssueOnboarding(u, q)
    BY <1>3 DEF AdminRecover
  <2> QED  BY <1>3, <2>1, LinkIssued, FlowsOnly DEF AdminRecover, Inv
<1>4. CASE CreateUserFlow(u, p)
  BY <1>4, LinkIssued, FlowsOnly DEF CreateUserFlow, Inv
<1> QED  BY <1>1, <1>2, <1>3, <1>4

LEMMA LoginCommitKeeps ==
  ASSUME Inv, NEW r, RequestStands(r), LoginCommit(r)
  PROVE  Inv'
<1>1. r.user \in Users /\ Active(r.user) /\ r.hash = passwords[r.user]
  BY DEF LoginCommit, LoginStands, RequestStands
<1>2. /\ <<"password", r.hash>> \in Proofs /\ recoveries[r.user] \in 0..MaxRecoveries
      /\ sessions \in [SessionIds -> SessionRows]
  BY <1>1, IdentityAssumption DEF Inv, Tables, AccountsStand, Proofs
<1>3. IssueSession(sessions, r.user, <<"password", r.hash>>, recoveries[r.user])
  BY DEF LoginCommit
<1>4. /\ sessions' \in [SessionIds -> SessionRows]
      /\ \E s \in SessionIds :
           /\ sessions[s].life = "none" /\ sessions'[s].life = "live"
           /\ sessions'[s].user = r.user /\ sessions'[s].by = <<"password", r.hash>>
           /\ sessions'[s].since = recoveries[r.user]
           /\ \A t \in SessionIds \ {s} : sessions'[t] = sessions[t]
  BY <1>1, <1>2, <1>3, SessionIssued
<1>5. flows' \in [FlowIds -> FlowRows]
  BY DEF LoginCommit, Inv, Tables
<1> QED
  BY <1>1, <1>4, <1>5, SessionsOnly DEF LoginCommit, Ends

LEMMA ReauthCommitKeeps ==
  ASSUME Inv, NEW r, RequestStands(r), ReauthCommit(r)
  PROVE  Inv'
<1> DEFINE s == r.session
<1>1. s \in SessionIds /\ Live(s) /\ r.hash = passwords[sessions[s].user]
  BY DEF ReauthCommit, RequestStands, Live
<1>2. sessions[s].user \in Users /\ Active(sessions[s].user)
  BY <1>1, RowsInUse DEF Inv, CredentialsAreCurrent
<1>3. <<"password", r.hash>> \in Proofs
  BY <1>1, <1>2, IdentityAssumption DEF Inv, Tables, AccountsStand, Proofs
<1>4. Refreshed(s, <<"password", r.hash>>)
  BY DEF ReauthCommit
<1>5. /\ sessions' \in [SessionIds -> SessionRows]
      /\ sessions'[s].life = "live" /\ sessions'[s].by = <<"password", r.hash>>
      /\ sessions'[s].user = sessions[s].user /\ sessions'[s].since = sessions[s].since
      /\ \A t \in SessionIds \ {s} : sessions'[t] = sessions[t]
  BY <1>1, <1>3, <1>4, SessionRefreshed DEF Inv
<1>6. flows' \in [FlowIds -> FlowRows]
  BY DEF ReauthCommit, Inv, Tables
<1> QED
  BY <1>1, <1>5, <1>6, SessionsOnly DEF ReauthCommit, Ends

LEMMA VerifyCommitKeeps ==
  ASSUME Inv, NEW r, RequestStands(r), VerifyCommit(r)
  PROVE  Inv'
<1>1. /\ r.user \in Users /\ Active(r.user) /\ r.key \in KeyIds
      /\ <<"key", r.key>> \in Proofs /\ recoveries[r.user] \in 0..MaxRecoveries
      /\ sessions \in [SessionIds -> SessionRows]
  BY DEF VerifyCommit, KeyStands, RequestStands, Proofs, Inv, Tables
<1>2. CASE r.flow = SignIn
  <2>1. IssueSession(sessions, r.user, <<"key", r.key>>, recoveries[r.user])
    BY <1>2 DEF VerifyCommit
  <2>2. /\ sessions' \in [SessionIds -> SessionRows]
        /\ \E s \in SessionIds :
             /\ sessions[s].life = "none" /\ sessions'[s].life = "live"
             /\ sessions'[s].user = r.user /\ sessions'[s].by = <<"key", r.key>>
             /\ sessions'[s].since = recoveries[r.user]
             /\ \A t \in SessionIds \ {s} : sessions'[t] = sessions[t]
    BY <1>1, <2>1, SessionIssued
  <2>3. flows' = flows /\ flows' \in [FlowIds -> FlowRows]
    BY <1>2 DEF VerifyCommit, Inv, Tables
  <2> QED  BY <1>1, <2>2, <2>3, SessionsOnly DEF VerifyCommit, Ends
<1>3. CASE r.flow # SignIn
  <2> DEFINE s == flows[r.flow].session
  <2>1. s \in SessionIds /\ Live(s) /\ Refreshed(s, <<"key", r.key>>)
    BY <1>3 DEF VerifyCommit, Live
  <2>2. /\ sessions' \in [SessionIds -> SessionRows]
        /\ sessions'[s].life = "live" /\ sessions'[s].by = <<"key", r.key>>
        /\ sessions'[s].user = sessions[s].user /\ sessions'[s].since = sessions[s].since
        /\ \A t \in SessionIds \ {s} : sessions'[t] = sessions[t]
    BY <1>1, <2>1, SessionRefreshed DEF Inv
  <2>3. /\ flows' \in [FlowIds -> FlowRows]
        /\ \A f \in FlowIds : flows'[f] = flows[f] \/ flows'[f].life = "gone"
    <3>1. flows' = [flows EXCEPT ![r.flow] = Gone]
      BY <1>3 DEF VerifyCommit
    <3>2. flows \in [FlowIds -> FlowRows] /\ Gone \in FlowRows /\ Gone.life = "gone"
      BY DEF Inv, Tables, FlowRows, Gone
    <3>3. PICK gone : gone = Gone
      OBVIOUS
    <3>4. /\ [flows EXCEPT ![r.flow] = gone] \in [FlowIds -> FlowRows]
          /\ \A g \in FlowIds : [flows EXCEPT ![r.flow] = gone][g] \in {flows[g], gone}
      BY <3>2, <3>3
    <3> QED  BY <3>1, <3>2, <3>3, <3>4
  <2>4. requests' = requests \ {r} /\ UNCHANGED <<users, passwords, passkeys, recoveries>>
    BY DEF VerifyCommit, Ends
  <2> HIDE DEF s
  <2> QED  BY <2>1, <2>2, <2>3, <2>4, SessionsOnly
<1> QED  BY <1>2, <1>3

LEMMA SessionEndsKeep ==
  ASSUME Inv, NEW s \in SessionIds, Logout(s) \/ SessionExpires(s) \/ Stale(s)
  PROVE  Inv'
<1>1. flows' = flows /\ flows' \in [FlowIds -> FlowRows] /\ requests' = requests
  BY DEF Logout, SessionExpires, Stale, Inv, Tables
<1>2. CASE Logout(s) \/ SessionExpires(s)
  <2>1. /\ sessions' \in [SessionIds -> SessionRows]
        /\ \A t \in SessionIds : sessions'[t] = sessions[t] \/ sessions'[t].life = "gone"
    BY <1>2 DEF Logout, SessionExpires, Inv, Tables, SessionRows, Gone
  <2> QED  BY <1>1, <1>2, <2>1, SessionsOnly DEF Logout, SessionExpires
<1>3. CASE Stale(s)
  <2>1. sessions[s] \in [life : {"live"}, user : Users, fresh : BOOLEAN,
                         by : Proofs, since : 0..MaxRecoveries]
    BY <1>3, RowsInUse DEF Stale, Inv, Proofs
  <2>2. sessions'[s] = [sessions[s] EXCEPT !.fresh = FALSE]
    BY <1>3 DEF Stale, Inv, Tables
  <2>3. /\ sessions'[s] \in SessionRows /\ sessions'[s].life = "live"
        /\ sessions'[s].user = sessions[s].user /\ sessions'[s].since = sessions[s].since
        /\ sessions'[s].by = sessions[s].by
    BY <2>1, <2>2 DEF SessionRows, Proofs
  <2>4. /\ sessions' \in [SessionIds -> SessionRows]
        /\ \A t \in SessionIds \ {s} : sessions'[t] = sessions[t]
    BY <1>3, <2>3 DEF Stale, Inv, Tables
  <2> QED
    BY <1>1, <1>3, <2>3, <2>4, SessionsOnly DEF Stale, Inv, CredentialsAreCurrent
<1> QED  BY <1>2, <1>3

LEMMA ChangePasswordCommitKeeps ==
  ASSUME Inv, NEW r, ChangePasswordCommit(r)
  PROVE  Inv'
<1> DEFINE u == sessions[r.session].user
<1>1. u \in Users /\ Active(u)
  BY RowsInUse DEF ChangePasswordCommit, Inv, CredentialsAreCurrent, Live
<1>2. PICK h \in 1..MaxPassword : passwords' = [passwords EXCEPT ![u] = h]
  BY DEF ChangePasswordCommit, NewHash
<1>3. /\ sessions' \in [SessionIds -> SessionRows]
      /\ \A s \in SessionIds :
           \/ sessions'[s].life = "gone"
           \/ sessions'[s] = sessions[s] /\ (Live(s) => sessions[s].user # u)
  BY <1>1, SessionsEnded DEF ChangePasswordCommit, Inv, Gone
<1>4. Tables'
  BY <1>1, <1>2, <1>3 DEF ChangePasswordCommit, Inv, Tables
<1>5. passwords[u] # 0 /\ passwords'[u] # 0 /\ \A v \in Users \ {u} : passwords'[v] = passwords[v]
  BY <1>1, <1>2 DEF Inv, Tables, AccountsStand
<1>6. AccountsStand' /\ FirstAccountOnce'
  <2>1. \A v \in Users : passwords'[v] # 0 <=> passwords[v] # 0
    BY <1>5
  <2>2. \A k \in KeyIds : Bound(k) => passkeys[k].user \in Users
    BY RowsInUse DEF Inv
  <2> QED
    BY <2>1, <2>2
       DEF ChangePasswordCommit, Inv, AccountsStand, FirstAccountOnce, Active, Exists, Bound
<1>7. CredentialsAreCurrent'
  <2>1. ASSUME NEW t \in SessionIds, Live(t)'
        PROVE  /\ Active(sessions'[t].user)
               /\ sessions'[t].since = recoveries[sessions'[t].user]
               /\ sessions'[t].by[1] = "password"
                    => sessions'[t].by[2] = passwords'[sessions'[t].user]
    <3>1. sessions'[t] = sessions[t] /\ Live(t) /\ sessions[t].user # u
      BY <1>3, <2>1 DEF Live
    <3>2. sessions[t].user \in Users
      BY <3>1, RowsInUse DEF Inv
    <3> QED  BY <1>5, <3>1, <3>2 DEF Inv, CredentialsAreCurrent
  <2> QED  BY <2>1 DEF ChangePasswordCommit, Inv, CredentialsAreCurrent, Active, Live, Bound
<1>8. Moves
  <2>1. ASSUME NEW t \in SessionIds
        PROVE  \/ sessions'[t].life = "gone" \/ sessions[t].life = "none"
               \/ sessions'[t] = sessions[t] /\ ~Live(t)
               \/ /\ Live(t) /\ Live(t)'
                  /\ sessions'[t].user = sessions[t].user /\ sessions'[t].since = sessions[t].since
                  /\ passwords'[sessions[t].user] = passwords[sessions[t].user]
    BY <1>3, <1>5, RowsInUse DEF Inv, Live
  <2> QED  BY <2>1 DEF Moves, ChangePasswordCommit
<1> QED  BY <1>4, <1>6, <1>7, <1>8, RowsMoveForward DEF ChangePasswordCommit, Ends

LEMMA FlowStepsKeep ==
  ASSUME Inv, \/ \E s \in SessionIds, p \in {"reauth", "register"} : SessionOptions(s, p)
              \/ \E f \in FlowIds : OnboardingOptions(f) \/ FlowExpires(f)
  PROVE  Inv'
<1>1. CASE \E s \in SessionIds, p \in {"reauth", "register"} : SessionOptions(s, p)
  <2>1. PICK s \in SessionIds, p \in {"reauth", "register"} : SessionOptions(s, p)
    BY <1>1
  <2>2. Live(s) /\ sessions[s].user \in Users
    BY <2>1, RowsInUse DEF SessionOptions, Authenticates, Recent, Inv
  <2> DEFINE row == [life |-> "open", purpose |-> p, user |-> sessions[s].user,
                     session |-> s, challenge |-> 1]
  <2>3. PICK f \in NewFlow : flows' = [flows EXCEPT ![f] = row]
    BY <2>1 DEF SessionOptions
  <2>4. f \in FlowIds /\ flows[f].life = "none"
    BY NewIds DEF NoFlow
  <2>5. row \in FlowRows
    BY <2>2, IdentityAssumption DEF FlowRows, SessionIds
  <2>6. /\ flows' \in [FlowIds -> FlowRows] /\ flows'[f] = row
        /\ \A g \in FlowIds \ {f} : flows'[g] = flows[g]
    BY <2>3, <2>4, <2>5 DEF Inv, Tables
  <2>7. FlowStands(f)'
    BY <2>1, <2>2, <2>6 DEF FlowStands, SessionOptions, Live
  <2> QED  BY <2>1, <2>4, <2>6, <2>7, FlowsOnly DEF SessionOptions
<1>2. CASE \E f \in FlowIds : OnboardingOptions(f)
  <2>1. PICK f \in FlowIds : OnboardingOptions(f)
    BY <1>2
  <2>2. flows[f] \in [life : {"open"}, purpose : {"activation", "recovery", "reauth", "register"},
                      user : Users, session : 0..MaxSessions, challenge : Nat]
    BY <2>1, RowsInUse DEF OnboardingOptions, LinkWorks, Inv
  <2>3. flows'[f] = [flows[f] EXCEPT !.challenge = @ + 1]
    BY <2>1 DEF OnboardingOptions, Inv, Tables
  <2>4. /\ flows'[f] \in FlowRows /\ flows'[f].life = "open"
        /\ flows'[f].purpose = flows[f].purpose /\ flows'[f].user = flows[f].user
        /\ flows'[f].session = flows[f].session
    BY <2>2, <2>3 DEF FlowRows
  <2>5. /\ flows' \in [FlowIds -> FlowRows]
        /\ \A g \in FlowIds \ {f} : flows'[g] = flows[g]
    BY <2>1, <2>4 DEF OnboardingOptions, Inv, Tables
  <2>6. Open(f) /\ Open(f)'
    BY <2>1, <2>4 DEF OnboardingOptions, LinkWorks, Open
  <2> QED  BY <2>1, <2>4, <2>5, <2>6, FlowsOnly DEF OnboardingOptions
<1>3. CASE \E f \in FlowIds : FlowExpires(f)
  BY <1>3, FlowsOnly DEF FlowExpires, Inv, Tables, FlowRows, Gone
<1> QED  BY <1>1, <1>2, <1>3

LEMMA DeletePasskeyKeeps ==
  ASSUME Inv, NEW s \in SessionIds, NEW k \in KeyIds, DeletePasskey(s, k)
  PROVE  Inv'
<1>1. /\ passkeys' \in [KeyIds -> KeyRows]
      /\ \A i \in KeyIds : passkeys'[i] = passkeys[i] \/ passkeys'[i].life = "gone"
  BY DEF DeletePasskey, Inv, Tables, KeyRows, Gone
<1>2. Tables'
  BY <1>1 DEF DeletePasskey, Inv, Tables
<1>3. AccountsStand' /\ CredentialsAreCurrent' /\ FirstAccountOnce'
  BY <1>1 DEF DeletePasskey, Inv, AccountsStand, CredentialsAreCurrent, FirstAccountOnce,
     Active, Exists, Bound, Live
<1>4. Moves
  BY <1>1, RowsInUse DEF DeletePasskey, Inv, Moves, Tables, Live, SessionRows, NoSession, Gone
<1> QED  BY <1>2, <1>3, <1>4, RowsMoveForward DEF DeletePasskey

LEMMA RegisterCommitKeeps ==
  ASSUME Inv, NEW r, RequestStands(r), RegisterCommit(r)
  PROVE  Inv'
<1> DEFINE f == r.flow
           s == flows[r.flow].session
           u == flows[r.flow].user
<1>1. f \in FlowIds /\ Open(f) /\ flows[f].purpose = "register" /\ Live(s)
  BY DEF RegisterCommit, RegisterStands, RequestStands, SessionStands
<1>2. u \in Users /\ s \in SessionIds /\ sessions[s].user = u /\ r.since = sessions[s].since
  <2>1. u \in Users
    BY <1>1, RowsInUse DEF Inv
  <2>2. s \in SessionIds /\ sessions[s].user = u
    BY <1>1 DEF Inv, FlowStands
  <2>3. r.since = sessions[s].since
    BY <1>1 DEF RequestStands, RegisterCommit
  <2> QED  BY <2>1, <2>2, <2>3
<1>3. Active(u) /\ r.since = recoveries[u] /\ r.since \in 0..MaxRecoveries
  BY <1>1, <1>2 DEF Inv, CredentialsAreCurrent, Tables
<1>4. passwords[u] # 0
  BY <1>2, <1>3 DEF Inv, AccountsStand
<1>5. passkeys \in [KeyIds -> KeyRows] /\ InsertPasskey(passkeys, u, r.since)
  BY DEF RegisterCommit, Inv, Tables
<1>6. /\ passkeys' \in [KeyIds -> KeyRows]
      /\ \E k \in KeyIds :
           /\ passkeys[k].life = "none" /\ passkeys'[k].life = "bound"
           /\ passkeys'[k].user = u /\ passkeys'[k].since = r.since
           /\ \A i \in KeyIds \ {k} : passkeys'[i] = passkeys[i]
  BY <1>2, <1>3, <1>5, PasskeyInserted
<1>7. /\ flows' \in [FlowIds -> FlowRows]
      /\ \A g \in FlowIds : flows'[g] = flows[g] \/ flows'[g].life = "gone"
  BY DEF RegisterCommit, Inv, Tables, FlowRows, Gone
<1>8. Tables'
  BY <1>6, <1>7 DEF RegisterCommit, Inv, Tables
<1>9. AccountsStand' /\ CredentialsAreCurrent' /\ FirstAccountOnce'
  <2>1. UNCHANGED <<users, passwords, sessions, recoveries>>
    BY DEF RegisterCommit
  <2> HIDE DEF u
  <2>2. AccountsStand' /\ FirstAccountOnce'
    BY <1>4, <1>6, <2>1 DEF Inv, AccountsStand, FirstAccountOnce, Active, Exists, Bound, Live
  <2>3. CredentialsAreCurrent'
    BY <1>3, <1>6, <2>1 DEF Inv, CredentialsAreCurrent, Active, Bound, Live
  <2> QED  BY <2>2, <2>3
<1>10. Moves
  BY <1>6, <1>7 DEF RegisterCommit, Inv, Moves, Tables, Live, SessionRows, NoSession, Gone
<1> QED  BY <1>8, <1>9, <1>10, RowsMoveForward DEF RegisterCommit, Ends

LEMMA OnboardingCommitKeeps ==
  ASSUME Inv, NEW r, OnboardingCommit(r)
  PROVE  Inv'
<1> DEFINE f == r.flow
           u == flows[f].user
           recovers == flows[f].purpose = "recovery"
           gen == recoveries[u] + IF recovers THEN 1 ELSE 0
           cleared == IF recovers THEN WithoutKeys(u) ELSE passkeys
           kept == IF recovers THEN WithoutSessions(u) ELSE sessions
<1>1. /\ f \in FlowIds /\ u \in Users /\ Exists(u) /\ gen \in 0..MaxRecoveries
      /\ ~recovers => ~Active(u)
      /\ recoveries' = [recoveries EXCEPT ![u] = gen]
  <2>1. /\ f \in FlowIds /\ Open(f) /\ users[u].status = IF recovers THEN "active" ELSE "pending"
        /\ gen <= MaxRecoveries /\ recoveries' = [recoveries EXCEPT ![u] = gen]
    BY DEF OnboardingCommit, LinkWorks, Open
  <2>2. u \in Users
    BY <2>1, RowsInUse DEF Inv
  <2> QED  BY <2>1, <2>2, IdentityAssumption DEF Inv, Tables, Active, Exists
<1>2. PICK h \in NewHash(u), version \in NewVersion(u) :
        /\ passwords' = [passwords EXCEPT ![u] = h]
        /\ users' = [users EXCEPT ![u] = Activated(u, version)]
        /\ IssueSession(kept, u, <<"password", h>>, gen)
  BY DEF OnboardingCommit
<1>3. /\ h \in 1..MaxPassword /\ <<"password", h>> \in Proofs
      /\ version \in 1..MaxVersion /\ version = users[u].version + 1
  BY DEF NewHash, NewVersion, Proofs
<1>4. /\ kept \in [SessionIds -> SessionRows]
      /\ \A s \in SessionIds :
           \/ kept[s] = Gone
           \/ kept[s] = sessions[s] /\ (Live(s) => sessions[s].user # u)
  <2>1. CASE recovers
    BY <1>1, <2>1, SessionsEnded DEF Inv
  <2>2. CASE ~recovers
    BY <1>1, <2>2 DEF Inv, Tables, CredentialsAreCurrent
  <2> QED  BY <2>1, <2>2
<1>5. PICK s \in SessionIds :
        /\ sessions' \in [SessionIds -> SessionRows]
        /\ sessions[s].life = "none" /\ sessions'[s].life = "live"
        /\ sessions'[s].user = u /\ sessions'[s].by = <<"password", h>>
        /\ sessions'[s].since = gen
        /\ \A t \in SessionIds \ {s} : sessions'[t] = kept[t]
  <2> HIDE DEF u, recovers, gen, kept
  <2> QED  BY <1>1, <1>2, <1>3, <1>4, SessionIssued
<1>6. /\ cleared \in [KeyIds -> KeyRows]
      /\ \A k \in KeyIds : cleared[k] = Gone \/ cleared[k] = passkeys[k]
      /\ \A k \in KeyIds : cleared[k].life = "bound" /\ cleared[k].user = u => gen = recoveries[u]
  <2>1. CASE recovers
    BY <2>1 DEF Inv, Tables, WithoutKeys, HasKey, Bound, KeyRows, Gone
  <2>2. CASE ~recovers
    BY <1>1, <2>2 DEF Inv, Tables
  <2> QED  BY <2>1, <2>2
<1>7. /\ passkeys' \in [KeyIds -> KeyRows]
      /\ \A k \in KeyIds :
           \/ passkeys'[k] = cleared[k]
           \/ /\ passkeys[k].life = "none" /\ passkeys'[k].user = u
              /\ passkeys'[k].since = gen
  <2>1. CASE r.withKey
    <3>1. IF r.withKey THEN InsertPasskey(cleared, u, gen) ELSE passkeys' = cleared
      BY DEF OnboardingCommit
    <3>2. InsertPasskey(cleared, u, gen)
      BY <2>1, <3>1, Zenon
    <3>3. u \in Users /\ gen \in 0..MaxRecoveries
      BY <1>1
    <3> HIDE DEF u, gen, cleared
    <3> QED  BY <1>6, <3>2, <3>3, PasskeyInserted
  <2>2. CASE ~r.withKey
    <3>1. passkeys' = cleared
      BY <2>2 DEF OnboardingCommit
    <3> QED  BY <1>6, <3>1
  <2> QED  BY <2>1, <2>2
<1>8. /\ flows' \in [FlowIds -> FlowRows]
      /\ \A g \in FlowIds : flows'[g] = flows[g] \/ flows'[g].life = "gone"
  <2>1. PICK purposes : flows' = Consumed(u, purposes)
    BY DEF OnboardingCommit
  <2>2. u \in Users /\ Tables /\ Gone.life = "gone"
    BY <1>1 DEF Inv, Gone
  <2> HIDE DEF u
  <2> QED  BY <2>1, <2>2, FlowsConsumed
<1> HIDE DEF f, u, recovers, gen, cleared, kept
<1>9. /\ users' \in [Users -> AccountRows] /\ users'[u].status = "active"
      /\ users'[u].version = version /\ users'[u].origin = users[u].origin
      /\ \A v \in Users \ {u} : users'[v] = users[v]
  <2>1. users[u] \in AccountRows
    BY <1>1 DEF Inv, Tables
  <2>2. users'[u] = [users[u] EXCEPT !.status = "active", !.version = version]
    BY <1>1, <1>2 DEF Inv, Tables, Activated, f, u
  <2>3. version \in 0..MaxVersion
    BY <1>3, IdentityAssumption
  <2>4. /\ users'[u] \in AccountRows /\ users'[u].status = "active"
        /\ users'[u].version = version /\ users'[u].origin = users[u].origin
    BY <2>1, <2>2, <2>3 DEF AccountRows
  <2> QED  BY <1>1, <1>2, <2>4 DEF Inv, Tables
<1>10. /\ passwords' \in [Users -> 0..MaxPassword] /\ passwords'[u] = h
       /\ \A v \in Users \ {u} : passwords'[v] = passwords[v]
       /\ recoveries' \in [Users -> 0..MaxRecoveries] /\ recoveries'[u] = gen
       /\ \A v \in Users \ {u} : recoveries'[v] = recoveries[v]
  BY <1>1, <1>2, <1>3 DEF Inv, Tables
<1>11. Tables'
  BY <1>5, <1>7, <1>8, <1>9, <1>10 DEF Tables
<1>12. \A k \in KeyIds : Bound(k)' =>
         /\ passkeys'[k].user \in Users
         /\ \/ passkeys'[k].user = u /\ passkeys'[k].since = gen
            \/ Bound(k) /\ passkeys'[k] = passkeys[k] /\ passkeys[k].user # u
  <2> SUFFICES ASSUME NEW k \in KeyIds, Bound(k)'
               PROVE  /\ passkeys'[k].user \in Users
                      /\ \/ passkeys'[k].user = u /\ passkeys'[k].since = gen
                         \/ Bound(k) /\ passkeys'[k] = passkeys[k] /\ passkeys[k].user # u
    OBVIOUS
  <2>1. passkeys'[k] \in [life : {"bound"}, user : Users, since : 0..MaxRecoveries]
    BY <1>7 DEF KeyRows, Bound, NoKey, Gone
  <2>2. CASE passkeys'[k] = cleared[k]
    <3>1. passkeys'[k] = passkeys[k] /\ Bound(k)
      BY <1>6, <2>2, <2>1 DEF Gone, Bound
    <3>2. CASE passkeys[k].user = u
      BY <1>6, <2>2, <3>1, <3>2, <1>1 DEF Bound, Inv, CredentialsAreCurrent
    <3> QED  BY <2>1, <3>1, <3>2
  <2>3. CASE passkeys'[k].user = u /\ passkeys'[k].since = gen
    BY <1>1, <2>3
  <2> QED  BY <1>7, <2>2, <2>3
<1>13. AccountsStand'
  <2>1. \A v \in Users : /\ Active(v)' <=> passwords'[v] # 0 /\ users'[v].status # "disabled"
                         /\ ~Exists(v)' => users'[v].origin = "none"
    BY <1>3, <1>9, <1>10 DEF Inv, AccountsStand, Active, Exists
  <2>2. \A k \in KeyIds : Bound(k)' => passwords'[passkeys'[k].user] # 0
    BY <1>3, <1>10, <1>12 DEF Inv, AccountsStand
  <2> QED  BY <2>1, <2>2 DEF AccountsStand
<1>14. CredentialsAreCurrent'
  <2>1. ASSUME NEW t \in SessionIds, Live(t)'
        PROVE  /\ users'[sessions'[t].user].status = "active"
               /\ sessions'[t].since = recoveries'[sessions'[t].user]
               /\ sessions'[t].by[1] = "password"
                    => sessions'[t].by[2] = passwords'[sessions'[t].user]
    <3>1. CASE t = s
      BY <1>5, <1>9, <1>10, <3>1 DEF Active
    <3>2. CASE t # s
      <4>1. sessions'[t] = sessions[t] /\ Live(t) /\ sessions[t].user # u
        BY <1>4, <1>5, <2>1, <3>2 DEF Live, Gone
      <4>2. sessions[t].user \in Users
        BY <4>1, RowsInUse DEF Inv
      <4> QED  BY <1>9, <1>10, <4>1, <4>2 DEF Inv, CredentialsAreCurrent, Active
    <3> QED  BY <3>1, <3>2
  <2>2. \A k \in KeyIds : Bound(k)' => passkeys'[k].since = recoveries'[passkeys'[k].user]
    BY <1>10, <1>12 DEF Inv, CredentialsAreCurrent
  <2> QED  BY <2>1, <2>2 DEF CredentialsAreCurrent, Active
<1>15. FirstAccountOnce'
  BY <1>9 DEF Inv, FirstAccountOnce
<1>16. Moves
  <2>1. ASSUME NEW t \in SessionIds
        PROVE  \/ sessions'[t].life = "gone" \/ sessions[t].life = "none"
               \/ sessions'[t] = sessions[t] /\ ~Live(t)
               \/ /\ Live(t) /\ Live(t)'
                  /\ sessions'[t].user = sessions[t].user /\ sessions'[t].since = sessions[t].since
                  /\ passwords'[sessions[t].user] = passwords[sessions[t].user]
    BY <1>4, <1>5, <1>10, RowsInUse DEF Inv, Live, Gone
  <2>2. \A k \in KeyIds :
          passkeys'[k] = passkeys[k] \/ passkeys'[k].life = "gone" \/ passkeys[k].life = "none"
    BY <1>6, <1>7 DEF Gone
  <2>3. users[u] \in AccountRows
    BY <1>1 DEF Inv, Tables
  <2>4. users[u].version \in Nat
    BY <2>3, IdentityAssumption DEF AccountRows
  <2>5. users'[u].version > users[u].version /\ users'[u].status # "none"
    BY <1>3, <1>9, <2>4
  <2> QED  BY <1>8, <1>9, <2>1, <2>2, <2>5 DEF Moves, Exists
<1> QED  BY <1>11, <1>13, <1>14, <1>15, <1>16, RowsMoveForward DEF OnboardingCommit, Ends

LEMMA UpdateUserKeeps ==
  ASSUME Inv, NEW r, RequestStands(r), UpdateUser(r)
  PROVE  Inv'
<1> DEFINE u == r.user
           status == IF r.status = "keep" THEN users[u].status ELSE r.status
           role == IF r.role = "keep" THEN users[u].role ELSE r.role
<1>1. u \in Users /\ Exists(u) /\ <<r.status, r.role>> \in Edits
  BY DEF UpdateUser, RequestStands
<1>2. PICK version \in NewVersion(u) :
        users' = [users EXCEPT ![u].role = role, ![u].status = status, ![u].version = version]
  BY DEF UpdateUser
<1>3. users[u] \in AccountRows /\ version \in 1..MaxVersion /\ version = users[u].version + 1
  BY <1>1 DEF NewVersion, Inv, Tables
<1>4. /\ r.status \in {"keep", "active", "disabled"} /\ r.role \in {"keep"} \cup Roles
      /\ r.status = "active" => passwords[u] # 0
  BY <1>1 DEF Edits, Roles, UpdateUser, HasActivated
<1>5. /\ users' \in [Users -> AccountRows] /\ users'[u].status = status
      /\ users'[u].version = version /\ users'[u].origin = users[u].origin
      /\ \A v \in Users \ {u} : users'[v] = users[v]
  <2>1. users'[u] = [users[u] EXCEPT !.role = role, !.status = status, !.version = version]
    BY <1>1, <1>2 DEF Inv, Tables
  <2>2. /\ status \in {"none", "pending", "active", "disabled"}
        /\ role \in Roles /\ version \in 0..MaxVersion
    BY <1>3, <1>4, IdentityAssumption DEF AccountRows
  <2>3. /\ users'[u] \in AccountRows /\ users'[u].status = status
        /\ users'[u].version = version /\ users'[u].origin = users[u].origin
    BY <1>3, <2>1, <2>2 DEF AccountRows
  <2> QED  BY <1>1, <1>2, <2>3 DEF Inv, Tables
<1>6. /\ sessions' \in [SessionIds -> SessionRows]
      /\ \A s \in SessionIds :
           \/ sessions'[s] = Gone
           \/ /\ sessions'[s] = sessions[s]
              /\ Live(s) /\ r.status = "disabled" => sessions[s].user # u
  <2>1. CASE r.status = "disabled"
    BY <1>1, <2>1, SessionsEnded DEF UpdateUser, Inv
  <2>2. CASE r.status # "disabled"
    BY <2>2 DEF UpdateUser, Inv, Tables
  <2> QED  BY <2>1, <2>2
<1>7. Tables'
  BY <1>5, <1>6 DEF UpdateUser, Inv, Tables
<1>8. AccountsStand'
  <2>1. /\ Active(u)' <=> passwords[u] # 0 /\ users'[u].status # "disabled"
        /\ Exists(u)'
    BY <1>1, <1>4, <1>5 DEF Inv, AccountsStand, Active, Exists
  <2> QED  BY <1>5, <2>1 DEF UpdateUser, Inv, AccountsStand, Active, Exists, Bound
<1>9. CredentialsAreCurrent'
  <2>1. ASSUME NEW t \in SessionIds, Live(t)'
        PROVE  /\ users'[sessions'[t].user].status = "active"
               /\ sessions'[t] = sessions[t] /\ Live(t)
    <3>1. /\ sessions'[t] = sessions[t] /\ Live(t)
          /\ r.status = "disabled" => sessions[t].user # u
      BY <1>6, <2>1 DEF Live, Gone
    <3>2. sessions[t].user \in Users /\ Active(sessions[t].user)
      BY <3>1, RowsInUse DEF Inv, CredentialsAreCurrent
    <3> QED  BY <1>4, <1>5, <3>1, <3>2 DEF Active
  <2>2. UNCHANGED <<passwords, passkeys, recoveries>>
    BY DEF UpdateUser
  <2>3. \A t \in SessionIds : Live(t)' =>
          /\ users'[sessions'[t].user].status = "active"
          /\ sessions'[t].since = recoveries'[sessions'[t].user]
          /\ sessions'[t].by[1] = "password"
               => sessions'[t].by[2] = passwords'[sessions'[t].user]
    BY <2>1, <2>2 DEF Inv, CredentialsAreCurrent
  <2>4. \A k \in KeyIds : Bound(k)' => passkeys'[k].since = recoveries'[passkeys'[k].user]
    BY <2>2 DEF Inv, CredentialsAreCurrent, Bound
  <2> QED  BY <2>3, <2>4 DEF CredentialsAreCurrent, Active
<1>10. FirstAccountOnce'
  BY <1>5 DEF Inv, FirstAccountOnce
<1>11. Moves
  <2>1. users[u].version \in Nat /\ users'[u].version > users[u].version /\ Exists(u)'
    BY <1>1, <1>3, <1>4, <1>5, IdentityAssumption DEF AccountRows, Exists
  <2>2. UNCHANGED <<passwords, passkeys, flows>>
    BY DEF UpdateUser
  <2>3. \A t \in SessionIds :
          sessions'[t].life = "gone" \/ (sessions'[t] = sessions[t] /\ Live(t)' = Live(t))
    BY <1>6 DEF Live, Gone
  <2> QED
    BY <1>5, <2>1, <2>2, <2>3 DEF Moves, Live
<1> QED  BY <1>7, <1>8, <1>9, <1>10, <1>11, RowsMoveForward DEF UpdateUser, Ends

LEMMA ResumesKeeps ==
  ASSUME Inv, NEW r \in requests \cup Reads, Resumes(r)
  PROVE  Inv'
<1>1. RequestStands(r)
  BY ReadsStand DEF Inv
<1> QED
  BY <1>1, LoginCommitKeeps, ReauthCommitKeeps, ChangePasswordCommitKeeps, VerifyCommitKeeps,
     RegisterCommitKeeps, OnboardingCommitKeeps, UpdateUserKeeps, SetupCommitKeeps
  DEF Resumes

LEMMA NothingMoves ==
  ASSUME Inv, UNCHANGED <<rows, recoveries>>
  PROVE  /\ Tables' /\ AccountsStand' /\ CredentialsAreCurrent' /\ FirstAccountOnce'
         /\ Moves
<1>1. Tables' /\ AccountsStand' /\ CredentialsAreCurrent' /\ FirstAccountOnce'
  BY DEF Inv, rows, Tables, AccountsStand, CredentialsAreCurrent, FirstAccountOnce,
     Active, Exists, Bound, Live
<1>2. Moves
  BY RowsInUse DEF Inv, rows, Moves, Tables, Live, SessionRows, NoSession, Gone
<1> QED  BY <1>1, <1>2

LEMMA WaitsKeeps ==
  ASSUME Inv, NEW r \in Reads, Waits(r)
  PROVE  Inv'
<1>1. /\ Tables' /\ AccountsStand' /\ CredentialsAreCurrent' /\ FirstAccountOnce'
      /\ Moves
  BY NothingMoves DEF Waits
<1>2. \A f \in FlowIds : FlowStands(f)'
  BY <1>1, MovesKeepFlows DEF Inv
<1>3. \A q \in requests' : RequestStands(q)
  BY ReadsStand DEF Waits, Inv
<1>4. \A q \in requests' : RequestStands(q)'
  BY <1>1, <1>3, MovesKeepRequests DEF Inv
<1>5. Waiting'
  <2>1. IsFiniteSet(requests) /\ Cardinality(requests) < MaxRequests
        /\ requests' = requests \cup {r}
    BY DEF Waits, Inv, Waiting
  <2>2. /\ IsFiniteSet(requests') /\ Cardinality(requests) \in Nat
        /\ \/ Cardinality(requests') = Cardinality(requests)
           \/ Cardinality(requests') = Cardinality(requests) + 1
    BY <2>1, FS_AddElement, FS_CardinalityType
  <2> QED  BY <2>1, <2>2, IdentityAssumption DEF Waiting
<1> QED  BY <1>1, <1>2, <1>4, <1>5 DEF Inv

LEMMA NextHolds ==
  ASSUME Inv, [Next]_vars
  PROVE  Inv'
<1>1. CASE UNCHANGED vars
  <2>1. UNCHANGED <<rows, recoveries>> /\ requests' = requests
    BY <1>1 DEF vars, rows
  <2> QED  BY <2>1, NothingMoves, RowsMoveForward
<1>2. ASSUME NEW u \in Users,
             \/ AdminInit(u) \/ AdminRecover(u)
             \/ \E role \in Roles : CreateUser(u, role)
             \/ \E p \in {"activation", "recovery"} : CreateUserFlow(u, p)
      PROVE  Inv'
  BY <1>2, AdminKeeps DEF Roles
<1>3. ASSUME NEW s \in SessionIds,
             \/ Logout(s) \/ Stale(s) \/ SessionExpires(s)
             \/ \E p \in {"reauth", "register"} : SessionOptions(s, p)
             \/ \E k \in KeyIds : DeletePasskey(s, k)
      PROVE  Inv'
  BY <1>3, SessionEndsKeep, FlowStepsKeep, DeletePasskeyKeeps
<1>4. ASSUME NEW f \in FlowIds, OnboardingOptions(f) \/ FlowExpires(f)
      PROVE  Inv'
  BY <1>4, FlowStepsKeep
<1>5. ASSUME NEW r \in requests, Fails(r)
      PROVE  Inv'
  BY <1>5, NothingMoves, RowsMoveForward DEF Fails, Ends
<1> QED
  BY <1>1, <1>2, <1>3, <1>4, <1>5, WaitsKeeps, ResumesKeeps DEF Next

LEMMA InvAlways == Spec => []Inv
BY InitHolds, NextHolds, PTL DEF Spec

--------------------------------------------------------------------------------
(***************************************************************************)
(* The theorems                                                            *)
(***************************************************************************)
\* The rows keep their form, requests in flight their limit, and an account has
\* a password exactly from its activation on.
THEOREM TypeCorrect == Spec => []TypeOK
<1>1. Inv => TypeOK
  <2> SUFFICES ASSUME Inv PROVE TypeOK
    OBVIOUS
  <2>1. \A f \in FlowIds : Open(f) => flows[f].user \in Users
    BY RowsInUse DEF Inv
  <2> QED  BY <2>1 DEF Inv, Tables, AccountsStand, AccountRows, Waiting, TypeOK
<1> QED  BY <1>1, InvAlways, PTL

\* A sign-in, a renewed sign-in or a new passkey that was being verified while
\* the password was changed, the account recovered or disabled leaves nothing
\* that the change was meant to end.
THEOREM CredentialsStayCurrent == Spec => []CredentialsAreCurrent
<1>1. Inv => CredentialsAreCurrent
  BY DEF Inv
<1> QED  BY <1>1, InvAlways, PTL

\* However many setups hash their passwords at the same time, one account is made.
THEOREM OneFirstAccount == Spec => []FirstAccountOnce
<1>1. Inv => FirstAccountOnce
  BY DEF Inv
<1> QED  BY <1>1, InvAlways, PTL

\* A session is opened or renewed by a passkey only while the passkey is bound
\* to the session's account.
THEOREM PasskeyIsThere == Spec => PasskeyStandsWhenUsed
<1>1. ASSUME Inv, [Next]_vars, NEW s \in SessionIds,
             sessions'[s].life = "live", sessions'[s].fresh,
             sessions'[s].by[1] = "key", sessions'[s] # sessions[s]
      PROVE  /\ Bound(sessions'[s].by[2])
             /\ passkeys[sessions'[s].by[2]].user = sessions'[s].user
  <2>1. sessions \in [SessionIds -> SessionRows]
    BY <1>1 DEF Inv, Tables
  <2>2. ASSUME NEW kept, NEW u, NEW by, NEW gen, IssueSession(kept, u, by, gen),
               kept \in [SessionIds -> SessionRows],
               \A t \in SessionIds : kept[t] = Gone \/ kept[t] = sessions[t]
        PROVE  sessions'[s].by = by /\ sessions'[s].user = u
    BY <1>1, <2>2 DEF IssueSession, Gone
  <2>3. ASSUME NEW t \in SessionIds, NEW by, Refreshed(t, by)
        PROVE  s = t /\ sessions'[s].by = by /\ sessions'[s].user = sessions[s].user
    BY <1>1, <2>1, <2>3 DEF Refreshed
  <2>4. \A u \in Users : /\ WithoutSessions(u) \in [SessionIds -> SessionRows]
                         /\ \A t \in SessionIds : \/ WithoutSessions(u)[t] = Gone
                                                  \/ WithoutSessions(u)[t] = sessions[t]
    BY <1>1, SessionsEnded DEF Inv
  <2>5. ASSUME NEW r \in requests \cup Reads, Resumes(r)
        PROVE  r.kind = "verify" /\ VerifyCommit(r)
    <3>1. ~ SetupCommit(r)
      <4> SUFFICES ASSUME SetupCommit(r) PROVE FALSE
        OBVIOUS
      <4>1. PICK h : IssueSession(sessions, r.user, <<"password", h>>, recoveries[r.user])
        BY DEF SetupCommit
      <4> QED  BY <1>1, <2>1, <2>2, <4>1
    <3>2. ~ LoginCommit(r)
      BY <1>1, <2>1, <2>2 DEF LoginCommit
    <3>3. ~ ReauthCommit(r)
      BY <1>1, <2>3 DEF ReauthCommit, Live
    <3>4. ~ ChangePasswordCommit(r)
      <4>1. ASSUME ChangePasswordCommit(r)
            PROVE  sessions[r.session].user \in Users
        BY <1>1, <4>1, RowsInUse DEF ChangePasswordCommit, Inv, Live
      <4> QED  BY <1>1, <2>4, <4>1 DEF ChangePasswordCommit, Gone
    <3>5. ~ OnboardingCommit(r)
      <4> SUFFICES ASSUME OnboardingCommit(r) PROVE FALSE
        OBVIOUS
      <4> DEFINE u == flows[r.flow].user
                 kept == IF flows[r.flow].purpose = "recovery" THEN WithoutSessions(u)
                         ELSE sessions
      <4>1. u \in Users
        BY <1>1, RowsInUse DEF OnboardingCommit, LinkWorks, Open, Inv
      <4>2. /\ kept \in [SessionIds -> SessionRows]
            /\ \A t \in SessionIds : kept[t] = Gone \/ kept[t] = sessions[t]
        BY <2>1, <2>4, <4>1
      <4>3. PICK h, gen : IssueSession(kept, u, <<"password", h>>, gen)
        BY DEF OnboardingCommit
      <4> QED  BY <1>1, <2>2, <4>2, <4>3
    <3>6. ~ UpdateUser(r)
      <4>1. ASSUME UpdateUser(r) PROVE r.user \in Users
        BY <1>1, <2>5, <4>1, ReadsStand DEF Inv, UpdateUser, RequestStands
      <4>2. ASSUME UpdateUser(r)
            PROVE  sessions' = sessions \/ sessions' = WithoutSessions(r.user)
        BY <4>2 DEF UpdateUser
      <4> QED  BY <1>1, <2>4, <4>1, <4>2 DEF Gone
    <3>7. ~ RegisterCommit(r)
      BY <1>1 DEF RegisterCommit
    <3> QED
      BY <2>5, <3>1, <3>2, <3>3, <3>4, <3>5, <3>6, <3>7 DEF Resumes, VerifyCommit
  <2>6. PICK r \in requests \cup Reads : r.kind = "verify" /\ VerifyCommit(r)
    <3>1. ASSUME NEW r \in requests \cup Reads, Resumes(r)
          PROVE  r.kind = "verify" /\ VerifyCommit(r)
      BY <2>5, <3>1
    <3>2. ASSUME NEW t \in SessionIds, Logout(t) \/ SessionExpires(t) \/ Stale(t)
          PROVE  FALSE
      <4>1. CASE sessions' = [sessions EXCEPT ![t] = Gone]
        BY <1>1, <2>1, <4>1 DEF Gone
      <4>2. CASE sessions' = [sessions EXCEPT ![t].fresh = FALSE] /\ Live(t)
        <5>1. sessions'[t] = [sessions[t] EXCEPT !.fresh = FALSE]
          BY <2>1, <4>2
        <5>2. sessions[t] \in [life : {"live"}, user : Users, fresh : BOOLEAN,
                               by : Proofs, since : 0..MaxRecoveries]
          BY <1>1, <4>2, RowsInUse DEF Inv, Proofs
        <5>3. ~sessions'[t].fresh
          BY <5>1, <5>2
        <5> QED  BY <1>1, <2>1, <4>2, <5>3
      <4> QED  BY <3>2, <4>1, <4>2 DEF Logout, SessionExpires, Stale
    <3>3. \A r : ~Waits(r) /\ ~Fails(r)
      BY <1>1 DEF Waits, Fails, rows
    <3> QED
      BY <1>1, <3>1, <3>2, <3>3
      DEF Next, vars, AdminInit, AdminRecover, CreateUser, CreateUserFlow, SessionOptions,
          DeletePasskey, OnboardingOptions, FlowExpires
  <2>7. RequestStands(r)
    BY <1>1, ReadsStand DEF Inv
  <2>8. Bound(r.key) /\ passkeys[r.key].user = r.user
    BY <2>6, <2>7 DEF VerifyCommit, KeyStands, RequestStands
  <2>9. CASE r.flow = SignIn
    BY <1>1, <2>1, <2>2, <2>6, <2>8, <2>9 DEF VerifyCommit
  <2>10. CASE r.flow # SignIn
    <3> DEFINE t == flows[r.flow].session
    <3>1. Live(t) /\ Refreshed(t, <<"key", r.key>>) /\ Open(r.flow)
      BY <2>6, <2>10 DEF VerifyCommit, KeyStands
    <3>2. s = t /\ sessions'[s].by = <<"key", r.key>> /\ sessions'[s].user = sessions[s].user
      BY <2>3, <3>1 DEF Live
    <3>3. r.flow \in FlowIds /\ flows[r.flow].purpose = "reauth" /\ flows[r.flow].user = r.user
      BY <2>6, <2>7, <2>10, <3>1 DEF RequestStands
    <3>4. sessions[s].user = r.user
      BY <1>1, <3>1, <3>2, <3>3 DEF Inv, FlowStands
    <3> QED  BY <2>8, <3>2, <3>4
  <2> QED  BY <2>9, <2>10
<1>2. Inv /\ [Next]_vars =>
        [\A s \in SessionIds :
          (/\ sessions'[s].life = "live" /\ sessions'[s].fresh
           /\ sessions'[s].by[1] = "key" /\ sessions'[s] # sessions[s])
          => /\ Bound(sessions'[s].by[2])
             /\ passkeys[sessions'[s].by[2]].user = sessions'[s].user]_vars
  BY <1>1
<1> QED  BY <1>2, InvAlways, PTL DEF Spec, PasskeyStandsWhenUsed

\* Edits of different accounts, each by an author who saw another administrator,
\* never leave the panel without one.
THEOREM AdministratorAlwaysRemains == Spec => AdministratorRemains
<1>1. ASSUME Inv, [Next]_vars, NEW a \in Users, Active(a), users[a].role = "admin"
      PROVE  \E b \in Users : users'[b].status = "active" /\ users'[b].role = "admin"
  <2>1. users \in [Users -> AccountRows] /\ ~NeedsSetup
    BY <1>1 DEF Inv, Tables, NeedsSetup, Active, Exists
  <2>2. CASE users' = users
    BY <1>1, <2>2 DEF Active
  <2>3. ASSUME NEW u \in Users, NEW role, CreateUser(u, role)
        PROVE  users'[a] = users[a]
    BY <1>1, <2>1, <2>3 DEF CreateUser, Exists, Active
  <2>4. ASSUME NEW r, OnboardingCommit(r)
        PROVE  users'[a].status = "active" /\ users'[a].role = "admin"
    <3>1. PICK version : users' = [users EXCEPT ![flows[r.flow].user] =
                                      Activated(flows[r.flow].user, version)]
      BY <2>4 DEF OnboardingCommit
    <3> QED  BY <1>1, <2>1, <3>1 DEF Activated, Active, AccountRows
  <2>5. ASSUME NEW r \in requests \cup Reads, UpdateUser(r)
        PROVE  \E b \in Users : users'[b].status = "active" /\ users'[b].role = "admin"
    <3> DEFINE u == r.user
    <3>1. u \in Users /\ <<r.status, r.role>> \in Edits
      BY <1>1, <2>5, ReadsStand DEF Inv, UpdateUser, RequestStands
    <3>2. PICK version : users' = [users EXCEPT
              ![u].role = IF r.role = "keep" THEN users[u].role ELSE r.role,
              ![u].status = IF r.status = "keep" THEN users[u].status ELSE r.status,
              ![u].version = version]
      BY <2>5 DEF UpdateUser
    <3>3. \A b \in Users \ {u} : users'[b] = users[b]
      BY <2>1, <3>1, <3>2
    <3>4. CASE a # u
      BY <1>1, <3>3, <3>4 DEF Active
    <3>5. CASE a = u /\ (r.role = "user" \/ r.status = "disabled")
      <4>1. PICK b \in Users \ {u} : users[b].role = "admin" /\ Active(b)
        BY <1>1, <2>5, <3>5 DEF UpdateUser, LastAdmin
      <4> QED  BY <3>3, <4>1 DEF Active
    <3>6. CASE a = u /\ r.role # "user" /\ r.status # "disabled"
      <4>1. users'[u] = [users[u] EXCEPT
              !.role = IF r.role = "keep" THEN users[u].role ELSE r.role,
              !.status = IF r.status = "keep" THEN users[u].status ELSE r.status,
              !.version = version]
        BY <2>1, <3>1, <3>2
      <4>2. r.status \in {"keep", "active"} /\ r.role \in {"keep", "admin"}
        BY <3>1, <3>6 DEF Edits
      <4>3. users[u] \in AccountRows
        BY <2>1, <3>1
      <4> QED  BY <1>1, <3>6, <4>1, <4>2, <4>3 DEF Active, AccountRows
    <3> QED  BY <3>4, <3>5, <3>6
  <2>6. ASSUME NEW r \in requests \cup Reads, Resumes(r)
        PROVE  users' = users \/ OnboardingCommit(r) \/ UpdateUser(r)
    BY <2>1, <2>6 DEF Resumes, LoginCommit, ReauthCommit, ChangePasswordCommit,
       VerifyCommit, RegisterCommit, SetupCommit, SetupStillOpen
  <2> QED
    BY <1>1, <2>1, <2>2, <2>3, <2>4, <2>5, <2>6
    DEF Next, vars, rows, AdminInit, AdminRecover, CreateUserFlow, Logout, Stale,
        SessionExpires, SessionOptions, DeletePasskey, OnboardingOptions, FlowExpires,
        Waits, Fails, Active
<1>2. Inv /\ [Next]_vars =>
        [(\E a \in Users : Active(a) /\ users[a].role = "admin")
       => \E a \in Users : users'[a].status = "active" /\ users'[a].role = "admin"]_vars
  BY <1>1
<1> QED  BY <1>2, InvAlways, PTL DEF Spec, AdministratorRemains

\* An edit that waited, however long and whatever happened to its account
\* meanwhile, changes it only as its author saw it.
THEOREM EditsAlwaysSeeTheAccount == Spec => EditsSeeTheAccount
<1>1. ASSUME Inv, [Next]_vars, NEW r \in requests, r.kind = "edit", r \notin requests',
             users'[r.user] # users[r.user]
      PROVE  users[r.user] = r.seen
  <2>1. PICK q \in requests \cup Reads : Resumes(q)
    BY <1>1
    DEF Next, vars, rows, AdminInit, AdminRecover, CreateUser, CreateUserFlow, Logout, Stale,
        SessionExpires, SessionOptions, DeletePasskey, OnboardingOptions, FlowExpires,
        Waits, Fails
  <2>2. q = r
    BY <1>1, <2>1 DEF Resumes, Ends, LoginCommit, ReauthCommit, ChangePasswordCommit,
       VerifyCommit, RegisterCommit, SetupCommit, OnboardingCommit, UpdateUser
  <2>3. UpdateUser(r)
    BY <1>1, <2>1, <2>2 DEF Resumes, LoginCommit, ReauthCommit, ChangePasswordCommit,
       VerifyCommit, RegisterCommit, SetupCommit, OnboardingCommit
  <2> QED  BY <1>1, <2>3 DEF UpdateUser, Inv, RequestStands
<1>2. Inv /\ [Next]_vars =>
        [\A r \in requests :
          (/\ r.kind = "edit" /\ r \notin requests'
           /\ users'[r.user] # users[r.user])
          => users[r.user] = r.seen]_vars
  BY <1>1
<1> QED  BY <1>2, InvAlways, PTL DEF Spec, EditsSeeTheAccount
================================================================================
