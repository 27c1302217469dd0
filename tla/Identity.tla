------------------------------- MODULE Identity -------------------------------
(***************************************************************************)
(* Accounts and credentials of the panel (apps/web/src/server/identity,    *)
(* users/service.ts and scripts/admin.ts): first setup, password and       *)
(* passkey sign-in, reauthentication, password change, passkey             *)
(* registration and removal, API keys, activation and recovery links, and  *)
(* the administrator's edits of accounts.                                  *)
(*                                                                         *)
(* Node runs one handler at a time up to its next await, and every         *)
(* db.transaction is synchronous.  A handler that hashes a password,       *)
(* checks one, or verifies a passkey is therefore two steps: the reads     *)
(* before the await and the transaction after it, with any other step in   *)
(* between.  Reads holds what a handler may have read at this moment; one  *)
(* whose await takes long is a member of requests; the others go on at     *)
(* once.                                                                   *)
(*                                                                         *)
(* Abstractions.  A new password hash is a new number.  A request that is  *)
(* refused before its await, or is rate limited, is the call that never    *)
(* happens.  The counter and public key of a passkey are not compared: the *)
(* model allows what that check refuses besides.  The flow of a sign-in by *)
(* passkey has no row here: the one verification that holds it spends it.  *)
(* An administrator can always call with an API key, whose rows are left   *)
(* out.  The number of accounts stays under its limit of ten.  What        *)
(* PolicyStore.refresh does is in Configuration.tla.                       *)
(*                                                                         *)
(* by, since, origin and recoveries are history: no guard reads them,      *)
(* except for the bound on recoveries.                                     *)
(***************************************************************************)
EXTENDS Naturals, FiniteSets

CONSTANTS
    Users,       \* account ids, taken when an account is created
    MaxSessions, \* bound: sessions issued
    MaxKeys,     \* bound: passkeys registered
    MaxFlows,    \* bound: rows of auth_flows
    MaxVersion,  \* bound: versions of an account
    MaxPassword, \* bound: passwords an account has had
    MaxRecoveries, \* bound: recoveries of an account
    MaxChallenges, \* bound: challenges of a link
    MaxRequests  \* bound: handlers whose await takes long

ASSUME IdentityAssumption ==
    /\ {MaxSessions, MaxKeys, MaxFlows, MaxPassword, MaxRecoveries,
        MaxChallenges, MaxRequests} \subseteq Nat
    /\ MaxVersion \in Nat \ {0}

VARIABLES
    users,      \* users
    passwords,  \* password_credentials: 0 is no row
    passkeys,   \* passkeys, in the order of registration
    sessions,   \* sessions, in the order they are issued
    flows,      \* auth_flows, in the order they are inserted
    requests,   \* handlers waiting at an await, with what they have read
    recoveries  \* history: completed recoveries of each account

vars == <<users, passwords, passkeys, sessions, flows, requests,
          recoveries>>
rows == <<users, passwords, passkeys, sessions, flows>>

SignIn == 0  \* the flow of a sign-in by passkey, see above
SessionIds == 1..MaxSessions
KeyIds == 1..MaxKeys
FlowIds == 1..MaxFlows
Roles == {"admin", "user"}

Gone == [life |-> "gone"]
NoUser == [status |-> "none", role |-> "user", version |-> 0, origin |-> "none"]
NoSession == [life |-> "none"]
NoKey == [life |-> "none"]
NoFlow == [life |-> "none"]

Active(u) == users[u].status = "active"
Exists(u) == users[u].status # "none"
Live(s) == s \in SessionIds /\ sessions[s].life = "live"
Bound(k) == k \in KeyIds /\ passkeys[k].life = "bound"
Open(f) == f \in FlowIds /\ flows[f].life = "open"
HasKey(u) == {k \in KeyIds : Bound(k) /\ passkeys[k].user = u}

\* Rows are numbered as they are inserted.
Least(ids) == {i \in ids : \A j \in ids : i <= j}
NewSession == Least({s \in SessionIds : sessions[s] = NoSession})
NewKey == Least({k \in KeyIds : passkeys[k] = NoKey})
NewFlow == Least({f \in FlowIds : flows[f] = NoFlow})
NewHash(u) == {passwords[u] + 1} \cap (1..MaxPassword)
NewVersion(u) == {users[u].version + 1} \cap (1..MaxVersion)

--------------------------------------------------------------------------------
(***************************************************************************)
(* Who may call                                                            *)
(***************************************************************************)
\* authenticate with a session cookie
Authenticates(s) == Live(s) /\ Active(sessions[s].user)

\* requireRecentSession: authenticated, and reauthAt is within RECENT_TTL
Recent(s) == Authenticates(s) /\ sessions[s].fresh

\* requireAdmin; the caller may hold an API key, which needs no session
AdminCalls == \E a \in Users : Active(a) /\ users[a].role = "admin"

\* assertSession, which does not look at the account
SessionStands(s) == Live(s) /\ sessions[s].fresh

\* loadFlow and the conditions of onboardingFlow
LinkWorks(f) ==
    /\ Open(f) /\ flows[f].purpose \in {"activation", "recovery"}
    /\ users[flows[f].user].status =
           IF flows[f].purpose = "activation" THEN "pending" ELSE "active"


--------------------------------------------------------------------------------
(***************************************************************************)
(* Effects on the tables                                                   *)
(***************************************************************************)
\* issueSession
IssueSession(kept, u, by, gen) ==
    \E s \in NewSession :
        sessions' = [kept EXCEPT ![s] =
                         [life |-> "live", user |-> u, fresh |-> TRUE,
                          by |-> by, since |-> gen]]

\* DELETE FROM sessions WHERE user_id = u
WithoutSessions(u) ==
    [s \in SessionIds |->
        IF Live(s) /\ sessions[s].user = u THEN Gone
        ELSE sessions[s]]

\* UPDATE auth_flows SET consumed_at ... WHERE user_id = u AND purpose IN ...
Consumed(u, purposes) ==
    [f \in FlowIds |->
        IF Open(f) /\ flows[f].user = u /\ flows[f].purpose \in purposes
        THEN Gone ELSE flows[f]]

OnboardingRow(u, purpose) ==
    [life |-> "open", purpose |-> purpose, user |-> u, session |-> 0,
     challenge |-> 0]

\* issueOnboarding
IssueOnboarding(u, purpose) ==
    \E f \in NewFlow :
        flows' = [Consumed(u, {purpose}) EXCEPT ![f] = OnboardingRow(u, purpose)]

\* The handler answers.
Ends(r) == requests' = requests \ {r}

--------------------------------------------------------------------------------
(***************************************************************************)
(* First account                                                           *)
(***************************************************************************)
NeedsSetup == \A u \in Users : ~Exists(u)

\* What the page of the first account asks for
SetupForm == {[kind |-> "setup", user |-> u] : u \in Users}

\* setupAdministrator up to hashPassword
SetupReads == {r \in SetupForm : NeedsSetup}

\* Fault: the setup is not checked again under the write lock.
SetupOpenAtStart == TRUE

\* requireSetup inside the transaction
SetupStillOpen == NeedsSetup

\* The transaction of setupAdministrator
SetupCommit(r) ==
    /\ r.kind = "setup" /\ SetupStillOpen /\ ~Exists(r.user)
    /\ users' = [users EXCEPT ![r.user] = [status |-> "active", role |-> "admin",
                                           version |-> 1, origin |-> "first"]]
    /\ \E h \in NewHash(r.user) :
         /\ passwords' = [passwords EXCEPT ![r.user] = h]
         /\ IssueSession(sessions, r.user, <<"password", h>>, recoveries[r.user])
    /\ Ends(r)
    /\ UNCHANGED <<passkeys, flows, recoveries>>

\* admin.ts init
AdminInit(u) ==
    /\ NeedsSetup
    /\ users' = [users EXCEPT ![u] = [status |-> "pending", role |-> "admin",
                                      version |-> 1, origin |-> "first"]]
    /\ IssueOnboarding(u, "activation")
    /\ UNCHANGED <<passwords, passkeys, sessions, requests, recoveries>>

\* admin.ts recover
AdminRecover(u) ==
    /\ users[u].role = "admin" /\ users[u].status \in {"pending", "active"}
    /\ IssueOnboarding(u, IF users[u].status = "pending" THEN "activation"
                          ELSE "recovery")
    /\ UNCHANGED <<users, passwords, passkeys, sessions, requests,
                   recoveries>>

--------------------------------------------------------------------------------
(***************************************************************************)
(* Passwords                                                               *)
(***************************************************************************)
\* passwordLogin up to verifyPassword
LoginReads ==
    {[kind |-> "login", user |-> u, hash |-> passwords[u]] :
        u \in {v \in Users : Active(v) /\ passwords[v] # 0}}

\* Fault: what was read before the check of the password is taken as true.
LoginStoodAtStart(r) == TRUE

LoginStands(r) == Active(r.user) /\ passwords[r.user] = r.hash

\* The transaction of passwordLogin
LoginCommit(r) ==
    /\ r.kind = "login" /\ LoginStands(r)
    /\ IssueSession(sessions, r.user, <<"password", r.hash>>, recoveries[r.user])
    /\ Ends(r)
    /\ UNCHANGED <<users, passwords, passkeys, flows, recoveries>>

\* reauthenticatePassword up to verifyPassword
ReauthReads ==
    {[kind |-> "reauth", session |-> s, hash |-> passwords[sessions[s].user]] :
        s \in {i \in SessionIds : Authenticates(i)}}

Refreshed(s, by) ==
    sessions' = [sessions EXCEPT ![s].fresh = TRUE, ![s].by = by]

\* The UPDATE of reauthenticatePassword, which needs the row and no more
ReauthCommit(r) ==
    /\ r.kind = "reauth" /\ Live(r.session)
    /\ Refreshed(r.session, <<"password", r.hash>>)
    /\ Ends(r)
    /\ UNCHANGED <<users, passwords, passkeys, flows, recoveries>>

\* changePassword up to hashPassword
ChangePasswordReads ==
    {[kind |-> "password", session |-> s] : s \in {i \in SessionIds : Recent(i)}}

\* The transaction of changePassword
ChangePasswordCommit(r) ==
    /\ r.kind = "password" /\ Live(r.session) /\ sessions[r.session].fresh
    /\ LET u == sessions[r.session].user
       IN /\ \E h \in NewHash(u) : passwords' = [passwords EXCEPT ![u] = h]
          /\ sessions' = WithoutSessions(u)
    /\ Ends(r)
    /\ UNCHANGED <<users, passkeys, flows, recoveries>>

Logout(s) ==
    /\ Authenticates(s)
    /\ sessions' = [sessions EXCEPT ![s] = Gone]
    /\ UNCHANGED <<users, passwords, passkeys, flows, requests,
                   recoveries>>

--------------------------------------------------------------------------------
(***************************************************************************)
(* Passkeys                                                                *)
(***************************************************************************)
\* authenticationOptions with purpose reauth, and newPasskeyOptions
SessionOptions(s, purpose) ==
    /\ IF purpose = "reauth" THEN Authenticates(s) ELSE Recent(s)
    /\ \E f \in NewFlow :
         flows' = [flows EXCEPT ![f] =
                       [life |-> "open", purpose |-> purpose,
                        user |-> sessions[s].user, session |-> s,
                        challenge |-> 1]]
    /\ UNCHANGED <<users, passwords, passkeys, sessions, requests,
                   recoveries>>

\* authenticationVerify up to verifyAuthenticationResponse
Verifies(f, k) ==
    /\ Bound(k) /\ Active(passkeys[k].user)
    /\ f # SignIn =>
         /\ Open(f) /\ flows[f].purpose = "reauth"
         /\ flows[f].user = passkeys[k].user /\ Authenticates(flows[f].session)

VerifyReads ==
    {[kind |-> "verify", flow |-> p[1], key |-> p[2],
      user |-> passkeys[p[2]].user] :
        p \in {q \in (FlowIds \cup {SignIn}) \X KeyIds : Verifies(q[1], q[2])}}

\* Fault: the passkey is not read again.
KeyStoodAtStart(r) == r.flow # SignIn => Open(r.flow)

\* The conditions at the head of the transaction of authenticationVerify
KeyStands(r) ==
    /\ r.flow # SignIn => Open(r.flow)
    /\ Bound(r.key) /\ Active(r.user)

\* The transaction of authenticationVerify
VerifyCommit(r) ==
    /\ r.kind = "verify" /\ KeyStands(r)
    /\ IF r.flow # SignIn
       THEN /\ flows' = [flows EXCEPT ![r.flow] = Gone]
            /\ Live(flows[r.flow].session)
            /\ Refreshed(flows[r.flow].session, <<"key", r.key>>)
       ELSE /\ IssueSession(sessions, r.user, <<"key", r.key>>,
                            recoveries[r.user])
            /\ UNCHANGED flows
    /\ Ends(r)
    /\ UNCHANGED <<users, passwords, passkeys, recoveries>>

\* insertPasskey; the authenticator makes a new credential every time
InsertPasskey(kept, u, gen) ==
    \E k \in NewKey :
        passkeys' = [kept EXCEPT ![k] =
                         [life |-> "bound", user |-> u, since |-> gen]]

\* newPasskeyVerify up to verifyRegistration
Registers(f) ==
    Open(f) /\ flows[f].purpose = "register" /\ Recent(flows[f].session)

RegisterReads ==
    {[kind |-> "register", flow |-> f, since |-> sessions[flows[f].session].since] :
        f \in {g \in FlowIds : Registers(g)}}

RegisterStands(f) == Open(f) /\ SessionStands(flows[f].session)

\* The transaction of newPasskeyVerify
RegisterCommit(r) ==
    /\ r.kind = "register" /\ RegisterStands(r.flow)
    /\ flows' = [flows EXCEPT ![r.flow] = Gone]
    /\ InsertPasskey(passkeys, flows[r.flow].user, r.since)
    /\ Ends(r)
    /\ UNCHANGED <<users, passwords, sessions, recoveries>>

DeletePasskey(s, k) ==
    /\ Recent(s) /\ Bound(k) /\ passkeys[k].user = sessions[s].user
    /\ Cardinality(HasKey(sessions[s].user)) > 1
    /\ passkeys' = [passkeys EXCEPT ![k] = Gone]
    /\ UNCHANGED <<users, passwords, sessions, flows, requests,
                   recoveries>>

--------------------------------------------------------------------------------
(***************************************************************************)
(* Activation and recovery links                                           *)
(***************************************************************************)
\* onboardingOptions: every call replaces the challenge.
OnboardingOptions(f) ==
    /\ LinkWorks(f) /\ flows[f].challenge < MaxChallenges
    /\ flows' = [flows EXCEPT ![f].challenge = @ + 1]
    /\ UNCHANGED <<users, passwords, passkeys, sessions, requests, recoveries>>

\* onboardingComplete up to hashPassword
Onboards(f) == LinkWorks(f) /\ flows[f].challenge # 0

OnboardingReads(withKey) ==
    {[kind |-> "onboard", flow |-> f, withKey |-> withKey,
      challenge |-> flows[f].challenge] : f \in {g \in FlowIds : Onboards(g)}}

\* Fault: the account keeps its version.
ActivatedSilently(u, version) == [users[u] EXCEPT !.status = "active"]

\* The UPDATE of users in onboardingComplete
Activated(u, version) ==
    [users[u] EXCEPT !.status = "active", !.version = version]

\* DELETE FROM passkeys WHERE user_id = u
WithoutKeys(u) ==
    [k \in KeyIds |-> IF k \in HasKey(u) THEN Gone ELSE passkeys[k]]

\* The transaction of onboardingComplete
OnboardingCommit(r) ==
    LET f == r.flow
        u == flows[f].user
        recovers == flows[f].purpose = "recovery"
        gen == recoveries[u] + IF recovers THEN 1 ELSE 0
        cleared == IF recovers THEN WithoutKeys(u) ELSE passkeys
    IN /\ r.kind = "onboard" /\ LinkWorks(f)
       /\ flows[f].challenge = r.challenge
       /\ gen <= MaxRecoveries
       /\ IF r.withKey THEN InsertPasskey(cleared, u, gen)
          ELSE passkeys' = cleared
       /\ \E version \in NewVersion(u) :
            users' = [users EXCEPT ![u] = Activated(u, version)]
       /\ flows' = Consumed(u, {"activation", "recovery", "reauth", "register"})
       /\ recoveries' = [recoveries EXCEPT ![u] = gen]
       /\ \E h \in NewHash(u) :
            /\ passwords' = [passwords EXCEPT ![u] = h]
            /\ IssueSession(IF recovers THEN WithoutSessions(u) ELSE sessions,
                            u, <<"password", h>>, gen)
       /\ Ends(r)

--------------------------------------------------------------------------------
(***************************************************************************)
(* The administrator                                                       *)
(***************************************************************************)
CreateUser(u, role) ==
    /\ AdminCalls /\ ~Exists(u)
    /\ users' = [users EXCEPT ![u] = [status |-> "pending", role |-> role,
                                      version |-> 1, origin |-> "created"]]
    /\ IssueOnboarding(u, "activation")
    /\ UNCHANGED <<passwords, passkeys, sessions, requests, recoveries>>

CreateUserFlow(u, purpose) ==
    /\ AdminCalls
    /\ users[u].status = IF purpose = "activation" THEN "pending" ELSE "active"
    /\ IssueOnboarding(u, purpose)
    /\ UNCHANGED <<users, passwords, passkeys, sessions, requests,
                   recoveries>>

\* What the dialogs of users.tsx change: a status, or the role.
Edits == {<<"disabled", "keep">>, <<"active", "keep">>, <<"keep", "user">>,
          <<"keep", "admin">>}

\* A screen or a script reads an account and will edit what it has seen.
EditorReads ==
    {[kind |-> "edit", user |-> p[1], seen |-> users[p[1]],
      status |-> p[2][1], role |-> p[2][2]] :
        p \in {u \in Users : AdminCalls /\ Exists(u)} \X Edits}

\* Fault: an administrator is counted whether it can sign in or not.
LastAdminAmongAll(u) ==
    \A a \in Users \ {u} : users[a].role # "admin"

LastAdmin(u) ==
    \A a \in Users \ {u} : ~(users[a].role = "admin" /\ Active(a))

\* Fault: an account is enabled before anyone has set its password.
ActivatedByEdit(u) == TRUE

HasActivated(u) == passwords[u] # 0

\* updateUser; "keep" is a field that the input leaves out
UpdateUser(r) ==
    LET u == r.user
        role == IF r.role = "keep" THEN users[u].role ELSE r.role
        status == IF r.status = "keep" THEN users[u].status ELSE r.status
    IN /\ r.kind = "edit" /\ AdminCalls
       /\ users[u].version = r.seen.version
       /\ r.status = "active" => HasActivated(u)
       /\ (/\ users[u].role = "admin" /\ Active(u)
           /\ r.role = "user" \/ r.status = "disabled") => ~LastAdmin(u)
       /\ \E version \in NewVersion(u) :
            users' = [users EXCEPT ![u].role = role, ![u].status = status,
                                   ![u].version = version]
       /\ sessions' = IF r.status = "disabled" THEN WithoutSessions(u)
                      ELSE sessions
       /\ Ends(r)
       /\ UNCHANGED <<passwords, passkeys, flows, recoveries>>

--------------------------------------------------------------------------------
(***************************************************************************)
(* Time, and requests that fail                                            *)
(***************************************************************************)
\* RECENT_TTL passes
Stale(s) ==
    /\ Live(s) /\ sessions[s].fresh
    /\ sessions' = [sessions EXCEPT ![s].fresh = FALSE]
    /\ UNCHANGED <<users, passwords, passkeys, flows, requests,
                   recoveries>>

\* SESSION_TTL passes and cleanExpiredIdentityState removes the row
SessionExpires(s) ==
    /\ Live(s)
    /\ sessions' = [sessions EXCEPT ![s] = Gone]
    /\ UNCHANGED <<users, passwords, passkeys, flows, requests,
                   recoveries>>

FlowExpires(f) ==
    /\ Open(f)
    /\ flows' = [flows EXCEPT ![f] = Gone]
    /\ UNCHANGED <<users, passwords, passkeys, sessions, requests,
                   recoveries>>

\* The check in the transaction refuses, the caller hangs up, Node restarts.
Fails(r) == Ends(r) /\ UNCHANGED <<rows, recoveries>>

--------------------------------------------------------------------------------
Init ==
    /\ users = [u \in Users |-> NoUser]
    /\ passwords = [u \in Users |-> 0]
    /\ passkeys = [k \in KeyIds |-> NoKey]
    /\ sessions = [s \in SessionIds |-> NoSession]
    /\ flows = [f \in FlowIds |-> NoFlow]
    /\ requests = {}
    /\ recoveries = [u \in Users |-> 0]

\* What the forms of the panel ask for when they are sent: a sign-in with the
\* password or a passkey, the dialog over a call that needs a recent sign-in,
\* an activation or a recovery with a passkey or without, the account page.
LoginForm == LoginReads \cup {r \in VerifyReads : r.flow = SignIn}
ReauthForm == ReauthReads \cup {r \in VerifyReads : r.flow # SignIn}
EnrollForm == OnboardingReads(TRUE) \cup OnboardingReads(FALSE)
AccountForm == ChangePasswordReads \cup RegisterReads

\* What a handler, or the author of an edit, may have read at this moment
Reads ==
    SetupReads \cup LoginForm \cup ReauthForm \cup EnrollForm \cup AccountForm
    \cup EditorReads

\* The await does not return at once.
Waits(r) ==
    /\ Cardinality(requests) < MaxRequests
    /\ requests' = requests \cup {r}
    /\ UNCHANGED <<rows, recoveries>>

Resumes(r) ==
    \/ LoginCommit(r) \/ ReauthCommit(r) \/ ChangePasswordCommit(r)
    \/ VerifyCommit(r) \/ RegisterCommit(r)
    \/ OnboardingCommit(r)
    \/ UpdateUser(r)
    \/ SetupCommit(r)

Next ==
    \/ \E u \in Users :
         \/ AdminInit(u) \/ AdminRecover(u)
         \/ \E role \in Roles : CreateUser(u, role)
         \/ \E p \in {"activation", "recovery"} : CreateUserFlow(u, p)
    \/ \E s \in SessionIds :
         \/ Logout(s) \/ Stale(s) \/ SessionExpires(s)
         \/ \E p \in {"reauth", "register"} : SessionOptions(s, p)
         \/ \E k \in KeyIds : DeletePasskey(s, k)
    \/ \E f \in FlowIds :
         \/ OnboardingOptions(f) \/ FlowExpires(f)
    \/ \E r \in Reads : Waits(r)
    \/ \E r \in requests : Fails(r)
    \/ \E r \in requests \cup Reads : Resumes(r)

Spec == Init /\ [][Next]_vars

--------------------------------------------------------------------------------
(***************************************************************************)
(* Properties                                                              *)
(***************************************************************************)
SessionRows ==
    {NoSession, Gone} \cup
    [life : {"live"}, user : Users, fresh : BOOLEAN,
     by : ({"password"} \X (1..MaxPassword)) \cup ({"key"} \X KeyIds),
     since : 0..MaxRecoveries]

\* The rows keep their form, a request in flight names rows that existed when
\* it started, and only an account that has been activated has a password.
TypeOK ==
    /\ users \in [Users -> [status : {"none", "pending", "active", "disabled"},
                            role : Roles, version : 0..MaxVersion,
                            origin : {"none", "first", "created"}]]
    /\ passwords \in [Users -> 0..MaxPassword]
    /\ sessions \in [SessionIds -> SessionRows]
    /\ \A k \in KeyIds : Bound(k) => passwords[passkeys[k].user] # 0
    /\ \A f \in FlowIds : Open(f) => flows[f].user \in Users
    /\ \A u \in Users : Active(u) <=> passwords[u] # 0 /\ users[u].status # "disabled"
    /\ Cardinality(requests) <= MaxRequests

\* A session in the table belongs to an account that may sign in, no session
\* rests on a password that has been replaced, and no session or passkey dates
\* from before a completed recovery: whatever was read before an await
\* (service.ts:74-99, :122-128, webauthn.ts:47-70, :97-107), a password change,
\* a recovery or a disabled account is not undone by the rest of the handler.
CredentialsAreCurrent ==
    /\ \A s \in SessionIds : Live(s) =>
         LET row == sessions[s]
         IN /\ Active(row.user)
            /\ row.since = recoveries[row.user]
            /\ row.by[1] = "password" => row.by[2] = passwords[row.user]
    /\ \A k \in KeyIds : Bound(k) =>
         passkeys[k].since = recoveries[passkeys[k].user]

\* A session that is issued or made recent by a passkey is one of the passkey's
\* account, and the passkey has not been removed while its signature was checked
\* (webauthn.ts:54-66 against deletePasskey, service.ts:138-143).
PasskeyStandsWhenUsed ==
    [][\A s \in SessionIds :
          (/\ sessions'[s].life = "live" /\ sessions'[s].fresh
           /\ sessions'[s].by[1] = "key" /\ sessions'[s] # sessions[s])
          => /\ Bound(sessions'[s].by[2])
             /\ passkeys[sessions'[s].by[2]].user = sessions'[s].user]_vars

\* Of the setup page, in any number of tabs, and the admin:init command only one
\* creates an account (setup.ts:19-33, scripts/admin.ts:12-17).
FirstAccountOnce ==
    \A u, v \in Users :
        users[u].origin = "first" /\ users[v].origin = "first" => u = v

\* Once an administrator can sign in, one always can: edits of different
\* accounts, which no version ties together, never disable or demote the last
\* one (users/service.ts:37-40).
AdministratorRemains ==
    [][(\E a \in Users : Active(a) /\ users[a].role = "admin")
       => \E a \in Users : users'[a].status = "active" /\ users'[a].role = "admin"]_vars

\* An edit changes an account only as its author saw it: whatever else changes
\* an account (another edit, an activation, a recovery) makes the version the
\* author read obsolete (users/service.ts:35, webauthn.ts:147).
EditsSeeTheAccount ==
    [][\A r \in requests :
          (/\ r.kind = "edit" /\ r \notin requests'
           /\ users'[r.user] # users[r.user])
          => users[r.user] = r.seen]_vars
================================================================================
