----------------------------- MODULE PanelScreens ------------------------------
(***************************************************************************)
(* The screens of the panel (apps/web/src/features): the machine page with *)
(* its dialogs, the configuration editor, the user list and the account    *)
(* page, and the handlers their forms reach.                               *)
(*                                                                         *)
(* Several tabs are open at once.  Each shows a copy of the rows it has    *)
(* loaded, keeps a form over another copy of the row the form is about,    *)
(* and sends what the person confirmed: with the row's version, with the   *)
(* digest of an artifact, or with a request key made for the form.  A call *)
(* may fail for the screen and be carried out later, and the person may    *)
(* then send the form again.                                               *)
(*                                                                         *)
(* Abstractions.  There is one machine, one user who is not the last       *)
(* administrator, and one account whose page is open.  What a form says is *)
(* its kind and the row it is about; fields, texts, filters, the secrets   *)
(* shown once and refusals of invalid input, which leave the form as it    *)
(* is, are left out.  The handlers are synchronous: a call is made,        *)
(* carried out and answered in one step, or the screen gives it up and it  *)
(* arrives later, or never.  Forms whose repetition makes another object   *)
(* (createMachine, createApiKey, a new link or token) carry no key.        *)
(***************************************************************************)
EXTENDS ConfirmedForms, FiniteSets

CONSTANTS
    Tabs,        \* browser tabs
    Starts,      \* bound: sets of pages the tabs start on together
    MaxVersion,  \* bound: versions of a row, artifacts and credentials
    MaxForms,    \* bound: forms opened and keys made
    MaxLost      \* bound: calls the screens gave up

ASSUME PanelScreensAssumption ==
    /\ {MaxVersion, MaxForms, MaxLost} \subseteq Nat
    /\ Starts \subseteq SUBSET {"machines", "machine", "editor", "users", "account"}

VARIABLES
    rows,     \* the panel's rows, as far as the screens show and change them
    screens,  \* what each tab shows, its form and its preview
    uuids,    \* forms opened and keys made so far
    stray,    \* calls whose screen no longer waits for them
    lost      \* calls given up so far

vars == <<rows, tasks, screens, uuids, stray, lost, effects>>
store == <<rows, tasks, effects>>

MachineForms == {"edit", "rebind", "token", "remove", "uninstall", "upgrade"}
UserForms == {"createUser", "profile", "disable", "enable", "link"}
AccountForms == {"passkey", "password", "key", "remove-passkey", "revoke-key"}
Forms == MachineForms \cup UserForms \cup AccountForms \cup {"createMachine"}
Calls == Forms \cup {"inspect", "preview", "publish"}

Maintenance == {"upgrade", "uninstall"}
Keyed == Maintenance \cup {"inspect", "publish"}

\* Calls that name the version of a row, or the digest of an artifact
Versioned == {"edit", "rebind", "profile", "disable", "enable", "upgrade", "preview", "publish"}
Subject(op) == CASE op \in {"edit", "rebind"} -> "machine"
                 [] op \in {"profile", "disable", "enable"} -> "user"
                 [] op = "upgrade" -> "release"
                 [] op \in {"preview", "publish"} -> "configuration"

\* The tier "recent" of the panel's calls
NeedRecent == {"passkey", "password", "remove-passkey"}

\* What a form of these asks for is done once, however often it is sent.
ActsOnce == (Versioned \ {"preview"}) \cup {"uninstall", "remove", "remove-passkey", "createUser"}

Unfinished == {t \in tasks : t.state \in {"queued", "accepted"}}

KnownKey(key) == \E t \in tasks : t.key = key

--------------------------------------------------------------------------------
(***************************************************************************)
(* The handlers.  A call is [op, form, key, row, expected]: the form's     *)
(* number, its request key, the row it shows and the version it sends.     *)
(***************************************************************************)
Current(r) == r.op \in Versioned => r.expected = rows[Subject(r.op)]

MachineAllows(r) ==
    /\ ~rows.removed
    /\ r.op \in Keyed => rows.bound /\ ~rows.uninstalled /\ ~KnownKey(r.key)

RebindAllows(r) == r.op = "rebind" => \A t \in tasks : t.state # "accepted"

UpgradeAllows(r) == r.op = "upgrade" => \A t \in Unfinished : t.kind \notin Maintenance

UserAllows(r) ==
    /\ r.op = "createUser" => r.form \notin rows.names
    /\ r.op = "enable" => rows.status # "pending"
    /\ r.op = "link" => rows.status # "disabled"

AccountAllows(r) ==
    r.op = "remove-passkey" => r.row \in rows.passkeys /\ Cardinality(rows.passkeys) > 1

Allowed(r) ==
    /\ Current(r)
    /\ r.op \in UserForms => UserAllows(r)
    /\ r.op \in AccountForms => AccountAllows(r)
    /\ r.op \in MachineForms \cup {"inspect", "preview", "publish"} =>
           MachineAllows(r) /\ RebindAllows(r) /\ UpgradeAllows(r)

\* A request key that is known is answered with the task it made.
Repeated(r) == r.op \in Keyed /\ KnownKey(r.key) /\ ~rows.removed

Bumped(row) == [rows EXCEPT ![row] = @ + 1]

MachineAfter(r) ==
    CASE r.op = "rebind" -> [Bumped("machine") EXCEPT !.bound = FALSE, !.uninstalled = FALSE]
      [] r.op = "remove" -> [rows EXCEPT !.removed = TRUE]
      [] OTHER -> Bumped("machine")

UserAfter(r) ==
    CASE r.op = "profile" -> Bumped("user")
      [] r.op = "disable" -> [Bumped("user") EXCEPT !.status = "disabled"]
      [] r.op = "enable" -> [Bumped("user") EXCEPT !.status = "active"]
      [] r.op = "createUser" -> [rows EXCEPT !.names = @ \cup {r.form}]
      [] r.op = "link" -> rows

AccountAfter(r) ==
    CASE r.op = "passkey" -> [Bumped("made") EXCEPT !.passkeys = @ \cup {rows.made + 1}]
      [] r.op = "key" -> [Bumped("made") EXCEPT !.apiKeys = @ \cup {rows.made + 1}]
      [] r.op = "remove-passkey" -> [rows EXCEPT !.passkeys = @ \ {r.row}]
      [] r.op = "revoke-key" -> [rows EXCEPT !.apiKeys = @ \ {r.row}]
      [] r.op = "password" -> rows

RowsAfter(r) ==
    CASE r.op \in {"edit", "rebind", "token", "remove"} -> MachineAfter(r)
      [] r.op \in UserForms -> UserAfter(r)
      [] r.op \in AccountForms -> AccountAfter(r)
      [] r.op = "publish" -> Bumped("configuration")
      [] OTHER -> rows

\* rebind and remove cancel what is queued; publish supersedes queued applies.
Ends(r, t) ==
    /\ t.state = "queued"
    /\ r.op \in {"rebind", "remove"} \/ (r.op = "publish" /\ t.kind = "publish")

TasksAfter(r) ==
    {IF Ends(r, t) THEN [t EXCEPT !.state = "stopped"] ELSE t : t \in tasks}
        \cup (IF r.op \in Keyed THEN {[kind |-> r.op, key |-> r.key, state |-> "queued"]} ELSE {})

Perform(r) ==
    /\ rows' = RowsAfter(r)
    /\ tasks' = TasksAfter(r)
    /\ effects' = IF r.op \notin ActsOnce THEN effects
                  ELSE Append(effects, [form |-> r.form, seen |-> r.row,
                                        found |-> IF r.op \in Versioned
                                                  THEN rows[Subject(r.op)] ELSE r.row])
    /\ \A row \in {"machine", "configuration", "user", "made"} : rows'[row] <= MaxVersion

--------------------------------------------------------------------------------
(***************************************************************************)
(* What changes without the screens                                        *)
(***************************************************************************)
Elsewhere == UNCHANGED <<screens, uuids, stray, lost, effects>>

\* The node works on its tasks.
NodeAccepts ==
    /\ \E t \in tasks :
           /\ t.state = "queued" /\ rows.bound
           /\ tasks' = (tasks \ {t}) \cup {[t EXCEPT !.state = "accepted"]}
    /\ UNCHANGED rows /\ Elsewhere

\* A machine is uninstalled when such a task has succeeded.
NodeReports ==
    /\ \E t \in tasks :
           /\ t.state = "accepted"
           /\ \E result \in {"succeeded", "stopped"} :
                  /\ tasks' = (tasks \ {t}) \cup {[t EXCEPT !.state = result]}
                  /\ rows' = [rows EXCEPT !.uninstalled =
                                 @ \/ (result = "succeeded" /\ t.kind = "uninstall")]
    /\ Elsewhere

NodeEnrolls ==
    /\ ~rows.bound /\ ~rows.removed
    /\ rows' = [rows EXCEPT !.bound = TRUE]
    /\ UNCHANGED tasks /\ Elsewhere

\* The operator replaces the daemon's artifact.
NewRelease ==
    /\ rows.release < MaxVersion
    /\ rows' = Bumped("release")
    /\ UNCHANGED tasks /\ Elsewhere

\* reconcile makes a revision with the newest authorization.
Reconcile ==
    /\ rows.configuration < MaxVersion
    /\ rows' = Bumped("configuration")
    /\ UNCHANGED tasks /\ Elsewhere

\* The user completes the activation link.
Activate ==
    /\ rows.status = "pending" /\ rows.user < MaxVersion
    /\ rows' = [Bumped("user") EXCEPT !.status = "active"]
    /\ UNCHANGED tasks /\ Elsewhere

--------------------------------------------------------------------------------
(***************************************************************************)
(* The screens                                                             *)
(***************************************************************************)
Places == {"machines", "machine", "editor", "progress", "users", "account", "elsewhere"}
Nothing == [version |-> 0, status |-> "active", bound |-> FALSE, uninstalled |-> FALSE,
            active |-> {}, held |-> FALSE, stopped |-> {},
            passkeys |-> {}, apiKeys |-> {}]

MachineShown ==
    [Nothing EXCEPT !.version = rows.machine, !.bound = rows.bound,
                    !.uninstalled = rows.uninstalled,
                    !.active = {t.kind : t \in Unfinished},
                    !.held = \E t \in tasks : t.state = "accepted"]

EditorShown == [Nothing EXCEPT !.bound = rows.bound, !.uninstalled = rows.uninstalled]

ProgressShown ==
    LET publications == {t \in tasks : t.kind = "publish"}
    IN  [Nothing EXCEPT !.version = rows.configuration,
                        !.stopped = {t.key : t \in {u \in publications : u.state = "stopped"}}]

UserShown == [Nothing EXCEPT !.version = rows.user, !.status = rows.status]

AccountShown == [Nothing EXCEPT !.passkeys = rows.passkeys, !.apiKeys = rows.apiKeys]

\* The copy of the rows a place works with
View(place) ==
    CASE place = "machine" -> MachineShown
      [] place = "editor" -> EditorShown
      [] place = "progress" -> ProgressShown
      [] place = "users" -> UserShown
      [] place = "account" -> AccountShown
      [] OTHER -> Nothing

Screen(place) == [at |-> place, shown |-> View(place), form |-> "none", id |-> 0, row |-> 0,
                  preview |-> 0, stale |-> FALSE, verify |-> FALSE, recent |-> TRUE]

Show(t, screen) == screens' = [screens EXCEPT ![t] = screen]
Local == UNCHANGED <<store, uuids, stray, lost>>

\* A fresh number for a form, which is also its request key
NewUuid == uuids < MaxForms /\ uuids' = uuids + 1

Closed(screen) == [screen EXCEPT !.form = "none", !.id = 0, !.row = 0, !.stale = FALSE,
                                 !.verify = FALSE]

\* The upgrade's part of the page is there for an enrolled machine only.
Upgradable(shown) == shown.bound /\ ~shown.uninstalled

\* useResource polls while a form stays open over its own copy.
Poll(t) ==
    /\ screens[t].at \in {"machine", "editor", "progress"} /\ ~rows.removed
    /\ LET new == View(screens[t].at)
           screen == [screens[t] EXCEPT !.shown = new]
       IN  /\ new # screens[t].shown
           /\ Show(t, IF screen.form = "upgrade" /\ ~Upgradable(new) THEN Closed(screen) ELSE screen)
    /\ Local

\* The lists that a server component renders are loaded again after a form.
Reload(t) ==
    /\ screens[t].at \in {"users", "account"} /\ screens[t].form = "none"
    /\ screens[t].shown # View(screens[t].at)
    /\ Show(t, [screens[t] EXCEPT !.shown = View(screens[t].at)])
    /\ Local

\* Forms that a button of the page opens, with the row each is about
Busy(shown) == shown.active \ {"inspect"} # {}
Uninstalling(shown) == "uninstall" \in shown.active

\* To replace the instance waits for the tasks the node has accepted.
InformationOffers(shown, mode) ==
    IF mode = "rebind" /\ shown.held THEN {} ELSE {<<mode, shown.version>>}

HeadingOffers(shown) ==
    InformationOffers(shown, "edit")
        \cup (IF shown.uninstalled THEN InformationOffers(shown, "rebind") ELSE {})

MaintenanceOffers(shown) ==
    InformationOffers(shown, "rebind")
        \cup (IF Uninstalling(shown) THEN {} ELSE {<<"remove", 0>>})
        \cup (IF Uninstalling(shown) \/ shown.uninstalled THEN {} ELSE {<<"token", 0>>})
        \cup (IF Busy(shown) \/ shown.uninstalled \/ ~shown.bound THEN {}
              ELSE {<<"uninstall", 0>>})

UserOffers(shown) ==
    {<<"createUser", 0>>, <<"profile", shown.version>>}
        \cup CASE shown.status = "pending" -> {<<"link", 0>>}
               [] shown.status = "active" -> {<<"link", 0>>, <<"disable", shown.version>>}
               [] shown.status = "disabled" -> {<<"enable", shown.version>>}

SignInOffers(shown) ==
    {<<"passkey", 0>>, <<"password", 0>>}
        \cup {<<"remove-passkey", k>> : k \in shown.passkeys}

KeyOffers(shown) == {<<"key", 0>>} \cup {<<"revoke-key", k>> : k \in shown.apiKeys}

Offers(screen) ==
    CASE screen.at = "machines" -> {<<"createMachine", 0>>}
      [] screen.at = "machine" -> HeadingOffers(screen.shown) \cup MaintenanceOffers(screen.shown)
      [] screen.at = "users" -> UserOffers(screen.shown)
      [] screen.at = "account" -> SignInOffers(screen.shown) \cup KeyOffers(screen.shown)
      [] OTHER -> {}

Open(t) ==
    /\ screens[t].form = "none"
    /\ NewUuid
    /\ \E offer \in Offers(screens[t]) :
           Show(t, [screens[t] EXCEPT !.form = offer[1], !.row = offer[2], !.id = uuids'])
    /\ UNCHANGED <<store, stray, lost>>

\* The candidate is read again when its dialog is opened, and after it changed.
Executable ==
    /\ rows.bound /\ ~rows.uninstalled /\ ~rows.removed
    /\ \A t \in Unfinished : t.kind \notin Maintenance

OpenUpgrade(t) ==
    /\ screens[t].at = "machine"
    /\ screens[t].form = "none" \/ screens[t].stale
    /\ Upgradable(screens[t].shown)
    /\ Executable
    /\ NewUuid
    /\ Show(t, [screens[t] EXCEPT !.form = "upgrade", !.row = rows.release, !.id = uuids',
                                  !.stale = FALSE])
    /\ UNCHANGED <<store, stray, lost>>

\* A dialog is closed by the person.
Close(t) ==
    /\ screens[t].form # "none" /\ ~screens[t].verify
    /\ Show(t, Closed(screens[t]))
    /\ Local

\* The editor keeps the version it was opened with.
OpenEditor(t) ==
    /\ screens[t].at = "editor"
    /\ Show(t, [Screen("editor") EXCEPT !.row = rows.configuration])
    /\ Local

\* A change, or time, takes the preview away.
Edit(t) ==
    /\ screens[t].preview # 0
    /\ Show(t, [screens[t] EXCEPT !.preview = 0, !.id = 0])
    /\ Local

\* A later configuration has taken the place of the publication on the screen.
Replaced(screen) == screen.shown.version > screen.row

\* The publication's own task has failed, or was canceled or superseded.
Stopped(screen) == screen.id \in screen.shown.stopped

\* From the progress page back to the editor: with the newest configuration
\* when it has replaced the publication, and with the publication's otherwise.
EditAgain(t) ==
    LET screen == screens[t]
    IN  /\ screen.at = "progress"
        /\ Replaced(screen) \/ Stopped(screen)
        /\ Show(t, [Screen("editor") EXCEPT
                       !.row = IF Replaced(screen) THEN screen.shown.version ELSE screen.row])
        /\ Local

\* The recent sign-in of the session runs out.
Ages(t) ==
    /\ screens[t].at = "account" /\ screens[t].recent
    /\ Show(t, [screens[t] EXCEPT !.recent = FALSE])
    /\ Local

\* Reauthenticate is completed or closed; the form must be sent again.
Verify(t) ==
    /\ screens[t].verify
    /\ \E verified \in BOOLEAN :
           Show(t, [screens[t] EXCEPT !.verify = FALSE, !.recent = verified])
    /\ Local
--------------------------------------------------------------------------------
(***************************************************************************)
(* The calls                                                               *)
(***************************************************************************)
CreateSends(screen, op) == op = "createMachine" /\ screen.form = op

InspectSends(screen, op) ==
    op = "inspect" /\ screen.at = "machine" /\ screen.form = "none" /\ Upgradable(screen.shown)

InformationSends(screen, op) ==
    /\ op \in {"edit", "rebind"} /\ screen.form = op
    /\ op = "rebind" => ~screen.shown.held

MachineSends(screen, op) ==
    /\ op \in {"token", "remove", "uninstall"} /\ screen.form = op
    /\ IF op = "uninstall" THEN ~Busy(screen.shown) /\ ~screen.shown.uninstalled
       ELSE ~Uninstalling(screen.shown)

UpgradeSends(screen, op) == op = "upgrade" /\ screen.form = op /\ ~screen.stale

PreviewSends(screen, op) == op = "preview" /\ screen.at = "editor"

PublishSends(screen, op) == op = "publish" /\ screen.preview # 0 /\ Upgradable(screen.shown)

UserSends(screen, op) == op \in UserForms /\ screen.form = op

AccountSends(screen, op) == op \in AccountForms /\ screen.form = op /\ ~screen.verify

\* Whether the button that sends the call is shown and enabled
Sends(screen, op) ==
    \/ CreateSends(screen, op) \/ InspectSends(screen, op) \/ InformationSends(screen, op)
    \/ MachineSends(screen, op) \/ UpgradeSends(screen, op)
    \/ PreviewSends(screen, op) \/ PublishSends(screen, op)
    \/ UserSends(screen, op) \/ AccountSends(screen, op)

\* Fault: the version is taken from the page when the form is sent.
NewestVersion(screen, op) ==
    IF op = "publish" THEN screen.preview
    ELSE IF op = "upgrade" THEN rows.release ELSE screen.shown.version

\* The version that was on the screen when the form was opened, or that the
\* preview was made for
ShownVersion(screen, op) == IF op = "publish" THEN screen.preview ELSE screen.row

\* The key was made with the form or the preview.
KeyOfForm(t) == screens[t].id

Request(t, op) ==
    [op |-> op, form |-> screens[t].id, row |-> screens[t].row,
     key |-> CASE op = "inspect" -> uuids'
               [] op \in Keyed \ {"inspect"} -> KeyOfForm(t)
               [] OTHER -> 0,
     expected |-> IF op \in Versioned THEN ShownVersion(screens[t], op) ELSE 0]

\* inspect makes a key per call, and a new preview gets the key of its publication.
Uuids(op) == IF op \in {"inspect", "preview"} THEN NewUuid ELSE UNCHANGED uuids

\* Screens after their call was carried out, or found to have been before
CreateAnswered == Screen("elsewhere")

InformationAnswered(screen) == [Closed(screen) EXCEPT !.shown = MachineShown']

MachineAnswered(screen, op) ==
    IF op = "remove" THEN Screen("machines") ELSE [Closed(screen) EXCEPT !.shown = MachineShown']

UpgradeAnswered(screen) == [Closed(screen) EXCEPT !.shown = MachineShown']

PreviewAnswered(screen) == [screen EXCEPT !.preview = screen.row, !.id = uuids']

PublishAnswered(screen) ==
    [Screen("progress") EXCEPT !.row = screen.preview + 1, !.id = screen.id,
                               !.shown = ProgressShown']

UserAnswered(screen) == Closed(screen)

AccountAnswered(screen, op) ==
    IF op = "password" THEN Screen("elsewhere") ELSE Closed(screen)

Answered(screen, op) ==
    CASE op = "createMachine" -> CreateAnswered
      [] op \in {"edit", "rebind"} -> InformationAnswered(screen)
      [] op \in {"inspect", "token", "remove", "uninstall"} -> MachineAnswered(screen, op)
      [] op = "upgrade" -> UpgradeAnswered(screen)
      [] op = "preview" -> PreviewAnswered(screen)
      [] op = "publish" -> PublishAnswered(screen)
      [] op \in UserForms -> UserAnswered(screen)
      [] op \in AccountForms -> AccountAnswered(screen, op)

\* What the screens do about VERSION_CONFLICT and ARTIFACT_CHANGED; to read the
\* newest row may fail too.
InformationConflicts(screen) == {screen, [screen EXCEPT !.shown = MachineShown]}

UpgradeConflicts(screen) == {[screen EXCEPT !.stale = TRUE]}

EditorConflicts(screen) ==
    {[screen EXCEPT !.preview = 0, !.id = 0, !.row = version] :
        version \in {screen.row, rows.configuration}}

Conflicted(screen, op) ==
    CASE op \in {"edit", "rebind"} -> InformationConflicts(screen)
      [] op = "upgrade" -> UpgradeConflicts(screen)
      [] op \in {"preview", "publish"} -> EditorConflicts(screen)
      [] OTHER -> {screen}

CarriedOut(t, op) ==
    /\ LET r == Request(t, op)
       IN  (Allowed(r) /\ Perform(r)) \/ (Repeated(r) /\ UNCHANGED store)
    /\ Show(t, Answered(screens[t], op))
    /\ UNCHANGED <<stray, lost>>

\* Other refusals leave the form as it is.
Conflicts(t, op) ==
    /\ LET r == Request(t, op) IN ~Current(r) /\ ~Repeated(r)
    /\ \E screen \in Conflicted(screens[t], op) : Show(t, screen)
    /\ UNCHANGED <<store, stray, lost>>

\* The call or its answer is lost; the form stays and can be sent again.
GivenUp(t, op) ==
    /\ lost < MaxLost /\ lost' = lost + 1
    /\ stray' = IF op = "preview" THEN stray ELSE stray \cup {Request(t, op)}
    /\ Show(t, [screens[t] EXCEPT !.preview = IF op = "preview" THEN 0 ELSE @,
                                  !.id = IF op = "preview" THEN 0 ELSE @])
    /\ UNCHANGED store

Call(t, op) ==
    /\ Sends(screens[t], op)
    /\ op \in NeedRecent => screens[t].recent
    /\ Uuids(op)
    /\ CarriedOut(t, op) \/ Conflicts(t, op) \/ GivenUp(t, op)

\* REAUTH_REQUIRED opens Reauthenticate over the form.
MustVerify(t, op) ==
    /\ op \in NeedRecent /\ Sends(screens[t], op) /\ ~screens[t].recent
    /\ Show(t, [screens[t] EXCEPT !.verify = TRUE])
    /\ Local

\* What a screen gave up arrives all the same; some of it is refused.
ArriveLate(r) ==
    /\ (Allowed(r) /\ Perform(r)) \/ (~Allowed(r) /\ UNCHANGED store)
    /\ stray' = stray \ {r}
    /\ UNCHANGED <<screens, uuids, lost>>

--------------------------------------------------------------------------------
Init ==
    /\ \E status \in {"pending", "active"} :
           rows = [machine |-> 1, configuration |-> 1, user |-> 1, release |-> 1, made |-> 2,
                   status |-> status, bound |-> TRUE, uninstalled |-> FALSE, removed |-> FALSE,
                   names |-> {}, passkeys |-> {1, 2}, apiKeys |-> {1}]
    /\ tasks = {}
    /\ \E start \in Starts : \E place \in [Tabs -> start] :
           screens = [t \in Tabs |-> [Screen(place[t]) EXCEPT
                                         !.row = IF place[t] = "editor" THEN 1 ELSE 0]]
    /\ uuids = 0
    /\ stray = {}
    /\ lost = 0
    /\ effects = <<>>

Environment ==
    \/ NodeAccepts \/ NodeReports \/ NodeEnrolls
    \/ NewRelease \/ Reconcile \/ Activate
    \/ \E r \in stray : ArriveLate(r)

Use(t) ==
    \/ Poll(t) \/ Reload(t) \/ Open(t) \/ OpenUpgrade(t) \/ Close(t)
    \/ OpenEditor(t) \/ Edit(t) \/ EditAgain(t) \/ Ages(t) \/ Verify(t)
    \/ \E op \in {screens[t].form, "inspect", "preview", "publish"} :
           Call(t, op) \/ MustVerify(t, op)

Next == Environment \/ \E t \in Tabs : Use(t)

Spec == Init /\ [][Next]_vars

================================================================================
