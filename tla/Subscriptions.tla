----------------------------- MODULE Subscriptions -----------------------------
(***************************************************************************)
(* The subscriptions of one user: SubscriptionProfileStore and the token   *)
(* part of SubscriptionStore (apps/web/src/server/subscription), with the  *)
(* two pages that drive them: the list with its dialogs (subscription.tsx) *)
(* and the editor (editor.tsx, node-selection.tsx).                        *)
(*                                                                         *)
(* The same subscription is open in several pages at once, a call may      *)
(* fail for the page and be carried out later, the nodes change between a  *)
(* preview and its publication, and the default subscription keeps its     *)
(* link in two tables.                                                     *)
(*                                                                         *)
(* Abstractions.  A draft is the set of nodes its bindings admit; {} also  *)
(* stands for a template that does not render.  A rendering is the draft   *)
(* with the nodes available then, which stand for all subscriptionSnapshot *)
(* reads; a preview that expires is refused like one whose nodes changed.  *)
(* Operations of the store are synchronous, and a page does nothing while  *)
(* it waits: a call is made, carried out and answered in one step, or the  *)
(* page gives it up and it arrives later, or never.                        *)
(***************************************************************************)
EXTENDS Naturals, SequencesExt, FiniteSets

CONSTANTS
    Pages,        \* pages the user has open
    Nodes,
    Drafts,       \* the drafts a user makes
    Limit,        \* subscriptions a user may have: 20 in the code
    MaxWrites,    \* bound: links made and changes of rows together
    MaxPreviews,  \* bound: previews made
    MaxForms,     \* bound: creation forms opened
    MaxLost       \* bound: calls the page gave up, and interrupted resets

ASSUME SubscriptionsAssumption ==
    /\ Drafts \subseteq SUBSET Nodes
    /\ {Limit, MaxWrites, MaxPreviews, MaxForms, MaxLost} \subseteq Nat

VARIABLES
    available,  \* the nodes subscriptionSnapshot offers; none when the user is blocked
    profiles,   \* subscriptions; the first row is the default one
    token,      \* subscription_tokens: the link of old clients
    links,      \* links made so far
    previews,   \* subscription_previews
    revoked,    \* history: links a completed operation has ended
    pages,      \* what each page shows and waits for
    forms,      \* request keys made so far
    stray,      \* calls whose page no longer waits for them
    lost        \* calls given up and resets interrupted so far

vars == <<available, profiles, token, links, previews, revoked,
          pages, forms, stray, lost>>
store == <<profiles, token, links, previews, revoked>>
browser == <<pages, forms, stray, lost>>

Default == 1
NotPublished == <<>>
Actions == {"pause", "resume", "rotate", "delete"}
Calls == Actions \cup {"save", "savePreview", "preview", "publish", "reload", "create"}

--------------------------------------------------------------------------------
(***************************************************************************)
(* Rows, links and renderings                                              *)
(***************************************************************************)
Row(key, draft, link) ==
    [key |-> key, version |-> 1, draft |-> draft, published |-> NotPublished,
     link |-> link, enabled |-> TRUE, deleted |-> FALSE]

\* defaultDraft, when every node has the tags its groups ask for
DefaultDraft == Nodes

\* ensureLegacy, with legacyDraft: every node
Adopted == IF profiles = <<>> THEN <<Row(0, Nodes, token)>> ELSE profiles

\* What a page keeps of a row it has read
Seen(row) == [version |-> row.version, draft |-> row.draft]

Exists(p) == p \in 1..Len(profiles) /\ ~profiles[p].deleted
Present == {p \in 1..Len(profiles) : Exists(p)}

\* renderSubscription
Renders(draft) == draft \cap available # {}
Rendering(draft) == <<draft, available>>

\* byToken finds a row: the link is not dead.
Known(link) ==
    \/ \E p \in 1..Len(profiles) : profiles[p].link = link /\ ~profiles[p].deleted
    \/ link = token /\ profiles = <<>>

--------------------------------------------------------------------------------
(***************************************************************************)
(* Operations of the store.  A call r carries what its page showed.        *)
(***************************************************************************)
\* checkVersion
SameVersion(r) == profiles[r.profile].version = r.row.version

\* The digest of the preview is the digest of now.
SameRendering(preview) ==
    LET draft == profiles[preview.profile].draft
    IN  Renders(draft) /\ preview.rendering = Rendering(draft)

Publishable(preview) ==
    /\ preview.version = profiles[preview.profile].version
    /\ SameRendering(preview)

\* publish: the answer to a repeated call is the row as it is.
Repeated(r) == r.op = "publish" /\ previews[r.preview].published

\* The row an earlier call of the same form made
Previous(r) == {p \in 1..Len(profiles) : profiles[p].key = r.key}

MayCreate(r) ==
    IF Previous(r) # {} THEN \A p \in Previous(r) : Exists(p)
    ELSE /\ Cardinality(Present) < Limit
         /\ r.profile # 0 => Exists(r.profile)

\* Otherwise the call ends with an AppError.
Allowed(r) ==
    IF r.op = "create" THEN MayCreate(r)
    ELSE /\ Exists(r.profile)
         /\ r.op = "reload" \/ Repeated(r) \/ SameVersion(r)
         /\ r.op = "preview" => Renders(profiles[r.profile].draft)
         /\ r.op = "publish" /\ ~Repeated(r) => Publishable(previews[r.preview])

Conflicts(r) ==
    /\ r.op \notin {"create", "reload"} /\ Exists(r.profile)
    /\ ~Repeated(r) /\ ~SameVersion(r)

Revise(p, row) ==
    profiles' = [profiles EXCEPT ![p] = [row EXCEPT !.version = @ + 1]]

NewLink == links' = links + 1

Save(r) ==
    /\ r.op \in {"save", "savePreview"}
    /\ Revise(r.profile, [profiles[r.profile] EXCEPT !.draft = r.draft])
    /\ UNCHANGED <<token, links, previews, revoked>>

Preview(r) ==
    /\ r.op = "preview"
    /\ Len(previews) < MaxPreviews
    /\ previews' = Append(previews,
           [profile |-> r.profile, version |-> profiles[r.profile].version,
            rendering |-> Rendering(profiles[r.profile].draft),
            published |-> FALSE])
    /\ UNCHANGED <<profiles, token, links, revoked>>

Publish(r) ==
    /\ r.op = "publish" /\ ~Repeated(r)
    /\ LET row == profiles[r.profile]
       IN  Revise(r.profile, [row EXCEPT !.published = <<row.draft>>])
    /\ previews' = [previews EXCEPT ![r.preview].published = TRUE]
    /\ UNCHANGED <<token, links, revoked>>

Read(r) == (r.op = "reload" \/ Repeated(r)) /\ UNCHANGED store

PauseOrResume(r) ==
    /\ r.op \in {"pause", "resume"}
    /\ Revise(r.profile, [profiles[r.profile] EXCEPT !.enabled = r.op = "resume"])
    /\ UNCHANGED <<token, links, previews, revoked>>

Delete(r) ==
    /\ r.op = "delete"
    /\ Revise(r.profile, [profiles[r.profile] EXCEPT !.enabled = FALSE,
                                                     !.deleted = TRUE])
    /\ revoked' = revoked \cup {profiles[r.profile].link}
    /\ UNCHANGED <<token, links, previews>>

\* The default subscription keeps its link in both tables.
Rotate(r) ==
    /\ r.op = "rotate"
    /\ NewLink
    /\ Revise(r.profile, [profiles[r.profile] EXCEPT !.link = links'])
    /\ token' = IF r.profile = Default THEN links' ELSE token
    /\ revoked' = revoked \cup {profiles[r.profile].link}
    /\ UNCHANGED previews

\* A copy takes the draft of its source, everything else is new.
Create(r) ==
    /\ r.op = "create"
    /\ IF Previous(r) # {} THEN UNCHANGED store
       ELSE /\ NewLink
            /\ LET draft == IF r.profile = 0 THEN DefaultDraft
                            ELSE profiles[r.profile].draft
               IN  profiles' = Append(Adopted, Row(r.key, draft, links'))
            /\ UNCHANGED <<token, previews, revoked>>

Writes == FoldSeq(LAMBDA row, n : row.version - 1 + n, links, profiles)

Perform(r) ==
    /\ \/ Save(r) \/ Preview(r) \/ Publish(r) \/ Read(r)
       \/ PauseOrResume(r) \/ Delete(r) \/ Rotate(r) \/ Create(r)
    /\ Writes' <= MaxWrites

--------------------------------------------------------------------------------
(***************************************************************************)
(* Old clients, and what happens around the store                          *)
(***************************************************************************)
\* ensureLegacy before list, or before byToken with the link of an old client
Adopt ==
    /\ profiles = <<>>
    /\ profiles' = Adopted
    /\ UNCHANGED <<available, token, links, previews, revoked, browser>>

\* Fault: the row keeps the old link.
NotSynced(rows, link) == rows

\* syncLegacyToken, also when the row is deleted
Synced(rows, link) == [rows EXCEPT ![Default].link = link]

\* SubscriptionStore.resetToken
ResetToken ==
    /\ NewLink
    /\ token' = links'
    /\ profiles' = Synced(Adopted, links')
    /\ revoked' = revoked \cup {token, Adopted[Default].link}
    /\ Writes' <= MaxWrites
    /\ UNCHANGED <<available, previews, browser>>

\* The process ends between the transaction and syncLegacyToken.  Nobody was
\* told; the old link answers on and the new one does not.
ResetInterrupted ==
    /\ lost < MaxLost /\ lost' = lost + 1
    /\ NewLink
    /\ token' = links'
    /\ profiles' = Adopted
    /\ Writes' <= MaxWrites
    /\ UNCHANGED <<available, previews, revoked, pages, forms, stray>>

\* Nodes come and go, or are configured anew; the user is blocked or not.
SnapshotChanges ==
    /\ available' \in SUBSET Nodes
    /\ UNCHANGED <<store, browser>>

--------------------------------------------------------------------------------
(***************************************************************************)
(* The pages                                                               *)
(***************************************************************************)
\* The list without a dialog
List == [at |-> "list", form |-> "none", profile |-> 0, row |-> Seen(Row(0, {}, 0)),
         draft |-> {}, preview |-> 0, conflict |-> FALSE, key |-> 0,
         waiting |-> FALSE]

\* An editor that has just been opened, or has loaded the newest draft
Editor(p, row) == [List EXCEPT !.at = "editor", !.profile = p, !.row = Seen(row),
                               !.draft = row.draft]

Show(g, page) == pages' = [pages EXCEPT ![g] = page]
Local == UNCHANGED <<available, store, forms, stray, lost>>

\* waiting: between the two calls of save(true); the inputs are disabled.
Editing(g) == pages[g].at = "editor" /\ ~pages[g].waiting
Listing(g) == pages[g].at = "list" /\ pages[g].form = "none"
Dirty(g) == pages[g].draft # pages[g].row.draft

OpenEditor(g, p) ==
    /\ Listing(g) /\ Exists(p)
    /\ Show(g, Editor(p, profiles[p]))
    /\ Local

\* Fault: a change leaves the preview on the screen.
PreviewStays(g) == pages[g].preview

\* change
PreviewGone(g) == 0

Edited(g, draft) ==
    Show(g, [pages[g] EXCEPT !.draft = draft, !.preview = PreviewGone(g)])

Edit(g) ==
    /\ Editing(g)
    /\ \E draft \in Drafts \ {pages[g].draft} : Edited(g, draft)
    /\ Local

\* NodeSelection: the choice starts from the available nodes the draft admits,
\* and replaces the bindings of the draft only when it is applied.
ApplySelection(g) ==
    /\ Editing(g)
    /\ \E chosen \in (SUBSET available) \ {{}} :
           chosen # pages[g].draft /\ Edited(g, chosen)
    /\ Local

\* startCreate, with the subscription to copy or none
StartCreate(g) ==
    /\ Listing(g)
    /\ Cardinality(Present) < Limit
    /\ forms < MaxForms /\ forms' = forms + 1
    /\ \E source \in {0} \cup Present :
           Show(g, [List EXCEPT !.form = "create", !.profile = source, !.key = forms'])
    /\ UNCHANGED <<available, store, stray, lost>>

\* inspect: the dialog shows the row as it is now.
Inspect(g, p) ==
    /\ Listing(g) /\ Exists(p)
    /\ \E action \in Actions :
           Show(g, [List EXCEPT !.form = action, !.profile = p, !.row = Seen(profiles[p])])
    /\ Local

\* A dialog is closed, or the editor left: with changes that were not saved
\* after the question of UnsavedChanges, which may be answered either way.
Leave(g) ==
    /\ pages[g] # List
    /\ Show(g, List)
    /\ Local

--------------------------------------------------------------------------------
(***************************************************************************)
(* The calls                                                               *)
(***************************************************************************)
Request(g, op) == [op |-> op, profile |-> pages[g].profile, row |-> pages[g].row,
                   draft |-> pages[g].draft, preview |-> pages[g].preview,
                   key |-> pages[g].key]

\* The two buttons at the head of the editor; save(true) saves an edited draft
\* first, and goes on to the preview without waiting for the user.
HeadOffers(g) ==
    IF pages[g].waiting THEN {"preview"}
    ELSE IF Dirty(g) THEN {"save", "savePreview"} ELSE {"preview"}

\* The preview with its button, and the dialog behind the conflict banner
EditorOffers(g) ==
    HeadOffers(g)
    \cup (IF Editing(g) /\ pages[g].preview # 0 THEN {"publish"} ELSE {})
    \cup (IF Editing(g) /\ pages[g].conflict THEN {"reload"} ELSE {})

\* An open dialog of the list confirms what it was opened for.
DialogOffers(g) == {pages[g].form} \ {"none"}

Offers(g) == IF pages[g].at = "editor" THEN EditorOffers(g) ELSE DialogOffers(g)

\* saveDraft; a preview asked for with it is still to be made.
Saved(g, op) ==
    [pages[g] EXCEPT !.row = Seen(profiles'[pages[g].profile]), !.preview = 0,
                     !.conflict = FALSE, !.waiting = op = "savePreview"]

Previewed(g) == [pages[g] EXCEPT !.preview = Len(previews'), !.waiting = FALSE]

PublishedHere(g) ==
    [pages[g] EXCEPT !.row = Seen(profiles'[pages[g].profile]), !.preview = 0]

\* reloadDraft
Reloaded(g) == Editor(pages[g].profile, profiles'[pages[g].profile])

\* The page goes on to the editor of the new subscription.
Created(g) ==
    LET made == CHOOSE q \in 1..Len(profiles') : profiles'[q].key = pages[g].key
    IN  Editor(made, profiles'[made])

\* mutate closes its dialog.
Done == List

\* The page after its call was carried out
Answered(g, op) ==
    CASE op \in {"save", "savePreview"} -> Saved(g, op)
      [] op = "preview" -> Previewed(g)
      [] op = "publish" -> PublishedHere(g)
      [] op = "reload" -> Reloaded(g)
      [] op = "create" -> Created(g)
      [] op \in Actions -> Done

\* handleError; a dialog stays, with the row it showed.
Failed(g, op, conflict) ==
    [pages[g] EXCEPT !.waiting = FALSE,
                     !.conflict = @ \/ (conflict /\ pages[g].at = "editor"),
                     !.preview = IF op = "reload" THEN @ ELSE 0]

\* A call that will be refused whenever it arrives is forgotten.
StillLive == {r \in stray : r.op = "create" \/ profiles'[r.profile].version = r.row.version}

CarriedOut(g, op) ==
    /\ Allowed(Request(g, op)) /\ Perform(Request(g, op))
    /\ Show(g, Answered(g, op))
    /\ stray' = StillLive
    /\ UNCHANGED <<available, forms, lost>>

Refused(g, op) ==
    /\ ~Allowed(Request(g, op))
    /\ Show(g, Failed(g, op, Conflicts(Request(g, op))))
    /\ Local

\* The call or its answer is lost or takes too long, or the page is left.
GivenUp(g, op) ==
    /\ lost < MaxLost /\ lost' = lost + 1
    /\ stray' = IF op \in {"preview", "reload"} THEN stray
                ELSE stray \cup {Request(g, op)}
    /\ Show(g, Failed(g, op, FALSE))
    /\ UNCHANGED <<available, store, forms>>

Call(g, op) ==
    /\ op \in Offers(g)
    /\ CarriedOut(g, op) \/ Refused(g, op) \/ GivenUp(g, op)

\* What the page gave up arrives all the same.
CarryOutLate(r) ==
    /\ Allowed(r) /\ Perform(r)
    /\ stray' = StillLive \ {r}
    /\ UNCHANGED <<available, pages, forms, lost>>

--------------------------------------------------------------------------------
Init ==
    /\ available = {}
    /\ profiles = <<>>
    /\ token = 1 /\ links = 1
    /\ previews = <<>>
    /\ revoked = {}
    /\ pages = [g \in Pages |-> List]
    /\ forms = 0
    /\ stray = {}
    /\ lost = 0

Environment ==
    \/ Adopt \/ ResetToken \/ ResetInterrupted \/ SnapshotChanges
    \/ \E r \in stray : CarryOutLate(r)

Use(g) ==
    \/ Edit(g) \/ ApplySelection(g) \/ StartCreate(g) \/ Leave(g)
    \/ \E p \in 1..Len(profiles) : OpenEditor(g, p) \/ Inspect(g, p)
    \/ \E op \in Calls : Call(g, op)

Next == Environment \/ \E g \in Pages : Use(g)

Spec == Init /\ [][Next]_vars

--------------------------------------------------------------------------------
(***************************************************************************)
(* Properties                                                              *)
(***************************************************************************)
\* A link that was rotated, reset or deleted never answers again, whichever of
\* the two tables it was found in and whichever path replaced it.
RevokedLinksAreDead == \A link \in revoked : ~Known(link)

Offered(g) == {Request(g, op) : op \in Offers(g)}
InFlight == (UNION {Offered(g) : g \in Pages}) \cup stray

\* A subscription changes only by a call whose page showed it as it was, however
\* many pages have it open and however late the call arrives; and what becomes
\* the published draft is what the page had in its editor, with the preview on the
\* screen being what clients get at that moment.  A form that creates one makes one
\* row, however often it is sent.
SeenBeforeChanged ==
    [][/\ \A p \in 1..Len(profiles) :
           /\ profiles'[p].version # profiles[p].version =>
                  \E r \in InFlight : /\ r.profile = p
                                      /\ r.row = Seen(profiles[p])
           /\ profiles'[p].published # profiles[p].published =>
                  \E r \in InFlight :
                      /\ r.op = "publish" /\ profiles'[p].published = <<r.draft>>
                      /\ previews[r.preview].rendering = Rendering(r.draft)
       /\ \A p, q \in 1..Len(profiles') : profiles'[p].key = profiles'[q].key => p = q]_profiles
================================================================================
