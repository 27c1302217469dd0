-------------------------- MODULE WebInterfaceProofs ---------------------------
(***************************************************************************)
(* The two components about the pages of the web interface, for every      *)
(* number of pages, tabs, rows and forms: Subscriptions.tla, where a link  *)
(* that was replaced is dead and a subscription changes only by a call     *)
(* that has seen it as it is, and PanelScreens.tla (Web, in the second     *)
(* part), where a form is carried out once, on the row that was shown.     *)
(*                                                                         *)
(* Subscriptions.  A call carries what its page showed when it was made.   *)
(* It is let in by the version alone, so that the version has to stand for *)
(* the row: while it is the one that was seen, so is the draft             *)
(* (SeenStands).  A link is dead because no two rows share one, and        *)
(* because the link of old clients belongs to the default subscription or  *)
(* to no row at all (LinksStand).                                          *)
(*                                                                         *)
(* PanelScreens.  What a form asked for may be asked for again as long as  *)
(* its screen is open or one of its calls is under way (Pending).  A form  *)
(* is about one thing (OneErrand), and once the panel has done it, it      *)
(* refuses what is still pending of that form: the version has moved on,   *)
(* the request key or the name is taken, the row is gone (DoneIsSpent).    *)
(***************************************************************************)
EXTENDS Subscriptions, ConfirmedForms, SequenceTheorems, TLAPS

\* What PanelScreens has beside its promise; panel stands for its rows, late for
\* its stray calls and given for the number of calls given up.
CONSTANTS Tabs, Starts, MaxVersion
VARIABLES panel, screens, uuids, late, given

Web == INSTANCE PanelScreens WITH rows <- panel, stray <- late, lost <- given

SeenRows == [version : Nat, draft : SUBSET Nodes]

Rows == [key : Nat, version : Nat, draft : SUBSET Nodes, published : Seq(SUBSET Nodes),
         link : Nat, enabled : BOOLEAN, deleted : BOOLEAN]

PreviewRows == [profile : Nat, version : Nat, rendering : (SUBSET Nodes) \X (SUBSET Nodes),
                published : BOOLEAN]

PageStates == [at : {"list", "editor"}, form : Actions \cup {"none", "create"},
               profile : Nat, row : SeenRows, draft : SUBSET Nodes, preview : Nat,
               conflict : BOOLEAN, key : Nat, waiting : BOOLEAN]

Requests == [op : Calls, profile : Nat, row : SeenRows, draft : SUBSET Nodes,
             preview : Nat, key : Nat]

StoreTypes ==
    /\ profiles \in Seq(Rows) /\ previews \in Seq(PreviewRows)
    /\ links \in Nat /\ token \in Nat /\ revoked \subseteq Nat

TypeOK ==
    /\ available \subseteq Nodes
    /\ StoreTypes
    /\ pages \in [Pages -> PageStates]
    /\ forms \in Nat /\ stray \subseteq Requests

\* A link names one row at most, and the link of old clients the default one.
LinksStand ==
    /\ token <= links /\ \A link \in revoked : link <= links
    /\ \A p \in 1..Len(profiles) :
          /\ profiles[p].link <= links
          /\ p # Default => profiles[p].link # token
    /\ \A p, q \in 1..Len(profiles) : profiles[p].link = profiles[q].link => p = q
    /\ profiles = <<>> => revoked = {}

KeysUnique ==
    \A p, q \in 1..Len(profiles) : profiles[p].key = profiles[q].key => p = q

\* While its version is the one that was seen, a row is as it was seen.
SeenStands(p, row) ==
    /\ p \in 1..Len(profiles)
    /\ row.version <= profiles[p].version
    /\ row.version = profiles[p].version => row = Seen(profiles[p])

\* The preview on a screen shows the draft of that screen.
PreviewStands(preview, p, row, draft) ==
    /\ preview \in 1..Len(previews) /\ previews[preview].profile = p
    /\ draft = row.draft

RequestStands(r) ==
    /\ r.op # "create" => SeenStands(r.profile, r.row)
    /\ r.op = "create" => r.key # 0
    /\ r.op = "publish" => PreviewStands(r.preview, r.profile, r.row, r.draft)

PageStands(page) ==
    /\ page.at = "editor" \/ page.form \in Actions => SeenStands(page.profile, page.row)
    /\ page.at = "editor" => page.form = "none"
    /\ page.form = "create" => page.key # 0
    /\ page.waiting => page.draft = page.row.draft
    /\ page.preview # 0 => PreviewStands(page.preview, page.profile, page.row, page.draft)

StoreStands == StoreTypes /\ LinksStand /\ RevokedLinksAreDead /\ KeysUnique

PagesStand == \A g \in Pages : PageStands(pages[g])
StraysStand == \A r \in stray : RequestStands(r)

Inv ==
    /\ TypeOK /\ StoreStands
    /\ PagesStand /\ StraysStand

\* What a step may do to the rows: a change of the draft is a new version.
RowsMove ==
    /\ Len(profiles) <= Len(profiles')
    /\ \A p \in 1..Len(profiles) :
          /\ profiles[p].version <= profiles'[p].version
          /\ profiles'[p].version = profiles[p].version =>
                 profiles'[p].draft = profiles[p].draft

PreviewsMove ==
    /\ Len(previews) <= Len(previews')
    /\ \A i \in 1..Len(previews) : previews'[i].profile = previews[i].profile

StoreMoves == StoreStands' /\ RowsMove /\ PreviewsMove

--------------------------------------------------------------------------------
(***************************************************************************)
(* What was seen stays seen                                                *)
(***************************************************************************)
\* What was seen of a row stays true of it, whatever happens to the rows.
LEMMA SeenStays ==
    ASSUME StoreTypes, StoreTypes', RowsMove, NEW p, NEW row \in SeenRows, SeenStands(p, row)
    PROVE  SeenStands(p, row)'
<1>1. p \in 1..Len(profiles) /\ profiles[p] \in Rows
    BY ElementOfSeq DEF SeenStands, StoreTypes
<1>2. p \in 1..Len(profiles')
    BY <1>1, LenProperties DEF RowsMove, StoreTypes
<1>3. profiles'[p] \in Rows
    BY <1>2, ElementOfSeq DEF StoreTypes
<1>4. row.version <= profiles'[p].version
    BY <1>1, <1>3 DEF SeenStands, RowsMove, Rows, SeenRows
<1>5. ASSUME row.version = profiles'[p].version PROVE row = Seen(profiles'[p])
    <2>1. profiles[p].version = profiles'[p].version
        BY <1>1, <1>3, <1>5 DEF SeenStands, RowsMove, Rows, SeenRows
    <2>2. profiles'[p].draft = profiles[p].draft /\ row = Seen(profiles[p])
        BY <1>1, <1>5, <2>1 DEF SeenStands, RowsMove
    <2> QED BY <2>1, <2>2 DEF Seen
<1> QED BY <1>2, <1>4, <1>5 DEF SeenStands, Seen

LEMMA PreviewKept ==
    ASSUME StoreTypes, StoreTypes', PreviewsMove, NEW preview, NEW p, NEW row, NEW draft,
           PreviewStands(preview, p, row, draft)
    PROVE  PreviewStands(preview, p, row, draft)'
BY LenProperties DEF PreviewStands, PreviewsMove, StoreTypes

LEMMA RequestStays ==
    ASSUME StoreTypes, StoreTypes', RowsMove, PreviewsMove,
           NEW r \in Requests, RequestStands(r)
    PROVE  RequestStands(r)'
<1>1. r.row \in SeenRows
    BY DEF Requests
<1>2. r.op # "create" => SeenStands(r.profile, r.row)'
    BY <1>1, SeenStays DEF RequestStands
<1>3. r.op = "publish" => PreviewStands(r.preview, r.profile, r.row, r.draft)'
    BY PreviewKept DEF RequestStands
<1> QED BY <1>2, <1>3 DEF RequestStands

LEMMA PageStays ==
    ASSUME StoreTypes, StoreTypes', RowsMove, PreviewsMove,
           NEW page \in PageStates, PageStands(page)
    PROVE  PageStands(page)'
<1>1. page.row \in SeenRows
    BY DEF PageStates
<1>2. page.at = "editor" \/ page.form \in Actions => SeenStands(page.profile, page.row)'
    BY <1>1, SeenStays DEF PageStands
<1>3. page.preview # 0 => PreviewStands(page.preview, page.profile, page.row, page.draft)'
    BY PreviewKept DEF PageStands
<1> QED BY <1>2, <1>3 DEF PageStands

\* A step that leaves the store alone moves nothing.
LEMMA StoreAlone ==
    ASSUME StoreStands, UNCHANGED store
    PROVE  StoreMoves
<1>1. StoreStands'
    BY DEF StoreStands, StoreTypes, LinksStand, RevokedLinksAreDead, Known, KeysUnique, store
<1>2. \A p \in 1..Len(profiles) : profiles[p].version \in Nat
    <2>1. \A p \in 1..Len(profiles) : profiles[p] \in Rows
        BY ElementOfSeq DEF StoreStands, StoreTypes
    <2> QED BY <2>1 DEF Rows
<1>3. RowsMove /\ PreviewsMove
    BY <1>2, LenProperties DEF RowsMove, PreviewsMove, store, StoreStands, StoreTypes
<1> QED BY <1>1, <1>3 DEF StoreMoves

--------------------------------------------------------------------------------
(***************************************************************************)
(* The operations of the store                                             *)
(***************************************************************************)
LEMMA RowRevised ==
    ASSUME StoreTypes, NEW p \in 1..Len(profiles), NEW row \in Rows, Revise(p, row)
    PROVE  /\ profiles' \in Seq(Rows) /\ Len(profiles') = Len(profiles)
           /\ \A q \in 1..Len(profiles) : q # p => profiles'[q] = profiles[q]
           /\ profiles'[p] = [row EXCEPT !.version = @ + 1]
<1>1. PICK made : made = [row EXCEPT !.version = @ + 1]
    OBVIOUS
<1>2. made \in Rows
    BY <1>1 DEF Rows
<1>3. profiles' = [profiles EXCEPT ![p] = made]
    BY <1>1 DEF Revise
<1>4. profiles \in Seq(Rows)
    BY DEF StoreTypes
<1>5. /\ profiles' \in Seq(Rows) /\ Len(profiles') = Len(profiles)
      /\ \A q \in 1..Len(profiles) : profiles'[q] = IF q = p THEN made ELSE profiles[q]
    BY <1>2, <1>3, <1>4, ExceptSeq
<1> QED BY <1>1, <1>5

\* An operation that changes one row and keeps its link and its key; a row that
\* was deleted stays so.
LEMMA RevisionMoves ==
    ASSUME StoreStands, NEW p \in 1..Len(profiles), NEW row \in Rows, Revise(p, row),
           row.link = profiles[p].link, row.key = profiles[p].key,
           row.version = profiles[p].version, UNCHANGED <<token, links>>,
           previews' \in Seq(PreviewRows), PreviewsMove,
           revoked' = revoked \/ (row.deleted /\ revoked' = revoked \cup {row.link}),
           profiles[p].deleted => row.deleted
    PROVE  StoreMoves
<1>1. /\ profiles' \in Seq(Rows) /\ Len(profiles') = Len(profiles)
      /\ \A q \in 1..Len(profiles) : q # p => profiles'[q] = profiles[q]
      /\ profiles'[p] = [row EXCEPT !.version = @ + 1]
    BY RowRevised DEF StoreStands
<1>2. /\ profiles'[p].link = row.link /\ profiles'[p].key = row.key
      /\ profiles'[p].version = profiles[p].version + 1
      /\ profiles'[p].deleted = row.deleted
    BY <1>1 DEF Rows
<1>3. \A q \in 1..Len(profiles) : profiles[q] \in Rows
    BY ElementOfSeq DEF StoreStands, StoreTypes
<1>4. \A q \in 1..Len(profiles) : /\ profiles'[q].link = profiles[q].link
                                  /\ profiles'[q].key = profiles[q].key
                                  /\ profiles[q].deleted => profiles'[q].deleted
    BY <1>1, <1>2
<1>5. Len(profiles) \in Nat /\ profiles # <<>> /\ profiles' # <<>>
    BY <1>1, LenProperties DEF StoreStands, StoreTypes
<1>6. StoreTypes'
    BY <1>1, <1>3 DEF StoreStands, StoreTypes, Rows
<1>7. LinksStand'
    BY <1>1, <1>3, <1>4, <1>5 DEF StoreStands, LinksStand
<1>8. RevokedLinksAreDead'
    <2>1. \A link \in revoked : ~Known(link)'
        BY <1>1, <1>4, <1>5 DEF StoreStands, RevokedLinksAreDead, Known
    <2>2. row.deleted => ~Known(row.link)'
        BY <1>1, <1>2, <1>4, <1>5 DEF StoreStands, LinksStand, Known
    <2> QED BY <2>1, <2>2 DEF RevokedLinksAreDead, Known
<1>9. KeysUnique'
    BY <1>1, <1>4 DEF StoreStands, KeysUnique
<1>10. RowsMove
    <2>1. \A q \in 1..Len(profiles) : profiles[q].version \in Nat
        BY <1>3 DEF Rows
    <2>2. /\ Len(profiles') = Len(profiles)
          /\ \A q \in 1..Len(profiles) : q # p => profiles'[q] = profiles[q]
        BY <1>1
    <2> QED BY <1>2, <1>5, <2>1, <2>2 DEF RowsMove
<1> QED BY <1>6, <1>7, <1>8, <1>9, <1>10 DEF StoreMoves, StoreStands

LEMMA RowTyped ==
    ASSUME StoreTypes, NEW p \in 1..Len(profiles)
    PROVE  profiles[p] \in Rows
BY ElementOfSeq DEF StoreTypes

\* A call that changes a row found it, and as its page showed it.
LEMMA AllowedFinds ==
    ASSUME NEW r \in Requests, Allowed(r), r.op # "create"
    PROVE  /\ r.profile \in 1..Len(profiles) /\ ~profiles[r.profile].deleted
           /\ r.op # "reload" /\ ~Repeated(r) => SameVersion(r)
           /\ r.op = "publish" /\ ~Repeated(r) => Publishable(previews[r.preview])
BY DEF Allowed, Exists

LEMMA PreviewsAlone ==
    ASSUME StoreStands, UNCHANGED previews
    PROVE  previews' \in Seq(PreviewRows) /\ PreviewsMove
BY LenProperties DEF StoreStands, StoreTypes, PreviewsMove

LEMMA SaveMoves ==
    ASSUME StoreStands, NEW r \in Requests, Allowed(r), Save(r)
    PROVE  StoreMoves /\ profiles'[r.profile].draft = r.draft
<1>1. r.profile \in 1..Len(profiles) /\ ~profiles[r.profile].deleted
    BY AllowedFinds DEF Save
<1>2. profiles[r.profile] \in Rows /\ r.draft \in SUBSET Nodes
    BY <1>1, RowTyped DEF StoreStands, Requests
<1>3. PICK row : row = [profiles[r.profile] EXCEPT !.draft = r.draft]
    OBVIOUS
<1>4. /\ row \in Rows /\ row.link = profiles[r.profile].link
      /\ row.key = profiles[r.profile].key /\ row.version = profiles[r.profile].version
      /\ row.draft = r.draft /\ row.deleted = profiles[r.profile].deleted
    BY <1>2, <1>3 DEF Rows
<1>5. Revise(r.profile, row) /\ UNCHANGED <<token, links, previews, revoked>>
    BY <1>3 DEF Save
<1>6. StoreMoves
    BY <1>1, <1>4, <1>5, RevisionMoves, PreviewsAlone
<1>7. profiles'[r.profile] = [row EXCEPT !.version = @ + 1]
    BY <1>1, <1>4, <1>5, RowRevised DEF StoreStands
<1> QED BY <1>4, <1>6, <1>7 DEF Rows

LEMMA PauseOrResumeMoves ==
    ASSUME StoreStands, NEW r \in Requests, Allowed(r), PauseOrResume(r)
    PROVE  StoreMoves
<1>1. r.profile \in 1..Len(profiles) /\ ~profiles[r.profile].deleted
    BY AllowedFinds DEF PauseOrResume
<1>2. profiles[r.profile] \in Rows
    BY <1>1, RowTyped DEF StoreStands
<1>3. PICK row : row = [profiles[r.profile] EXCEPT !.enabled = r.op = "resume"]
    OBVIOUS
<1>4. /\ row \in Rows /\ row.link = profiles[r.profile].link
      /\ row.key = profiles[r.profile].key /\ row.version = profiles[r.profile].version
      /\ row.deleted = profiles[r.profile].deleted
    BY <1>2, <1>3 DEF Rows
<1>5. Revise(r.profile, row) /\ UNCHANGED <<token, links, previews, revoked>>
    BY <1>3 DEF PauseOrResume
<1> QED BY <1>1, <1>4, <1>5, RevisionMoves, PreviewsAlone

LEMMA DeleteMoves ==
    ASSUME StoreStands, NEW r \in Requests, Allowed(r), Delete(r)
    PROVE  StoreMoves
<1>1. r.profile \in 1..Len(profiles) /\ ~profiles[r.profile].deleted
    BY AllowedFinds DEF Delete
<1>2. profiles[r.profile] \in Rows
    BY <1>1, RowTyped DEF StoreStands
<1>3. PICK row : row = [profiles[r.profile] EXCEPT !.enabled = FALSE, !.deleted = TRUE]
    OBVIOUS
<1>4. /\ row \in Rows /\ row.link = profiles[r.profile].link
      /\ row.key = profiles[r.profile].key /\ row.version = profiles[r.profile].version
      /\ row.deleted
    BY <1>2, <1>3 DEF Rows
<1>5. Revise(r.profile, row) /\ UNCHANGED <<token, links, previews>>
    BY <1>3 DEF Delete
<1>6. revoked' = revoked \cup {row.link}
    BY <1>4 DEF Delete
<1> QED BY <1>1, <1>4, <1>5, <1>6, RevisionMoves, PreviewsAlone

LEMMA PublishMoves ==
    ASSUME StoreStands, NEW r \in Requests, RequestStands(r), Allowed(r), Publish(r)
    PROVE  StoreMoves
<1>1. r.profile \in 1..Len(profiles) /\ ~profiles[r.profile].deleted
    BY AllowedFinds DEF Publish
<1>2. profiles[r.profile] \in Rows /\ r.preview \in 1..Len(previews)
    BY <1>1, RowTyped DEF StoreStands, RequestStands, PreviewStands, Publish
<1>3. PICK row : row = [profiles[r.profile] EXCEPT !.published = <<profiles[r.profile].draft>>]
    OBVIOUS
<1>4. <<profiles[r.profile].draft>> \in Seq(SUBSET Nodes)
    BY <1>2 DEF Rows
<1>5. /\ row \in Rows /\ row.link = profiles[r.profile].link
      /\ row.key = profiles[r.profile].key /\ row.version = profiles[r.profile].version
      /\ row.deleted = profiles[r.profile].deleted
    BY <1>2, <1>3, <1>4 DEF Rows
<1>6. Revise(r.profile, row) /\ UNCHANGED <<token, links, revoked>>
    BY <1>3 DEF Publish
<1>7. PICK shown : shown = [previews[r.preview] EXCEPT !.published = TRUE]
    OBVIOUS
<1>8. previews \in Seq(PreviewRows) /\ previews[r.preview] \in PreviewRows
    BY <1>2, ElementOfSeq DEF StoreStands, StoreTypes
<1>9. shown \in PreviewRows /\ shown.profile = previews[r.preview].profile
    BY <1>7, <1>8 DEF PreviewRows
<1>10. previews' = [previews EXCEPT ![r.preview] = shown]
    BY <1>7 DEF Publish
<1>11. /\ previews' \in Seq(PreviewRows) /\ Len(previews') = Len(previews)
       /\ \A i \in 1..Len(previews) :
              previews'[i] = IF i = r.preview THEN shown ELSE previews[i]
    BY <1>2, <1>8, <1>9, <1>10, ExceptSeq
<1>12. PreviewsMove
    BY <1>8, <1>9, <1>11, LenProperties DEF PreviewsMove
<1> QED BY <1>1, <1>5, <1>6, <1>11, <1>12, RevisionMoves

LEMMA PreviewMoves ==
    ASSUME StoreStands, NEW r \in Requests, available \subseteq Nodes, Allowed(r), Preview(r)
    PROVE  /\ StoreMoves /\ Len(previews') \in 1..Len(previews')
           /\ previews'[Len(previews')].profile = r.profile
<1>1. r.profile \in 1..Len(profiles)
    BY AllowedFinds DEF Preview
<1>2. profiles[r.profile] \in Rows /\ r.profile \in Nat
    BY <1>1, RowTyped DEF StoreStands, Requests
<1>3. PICK made : made = [profile |-> r.profile, version |-> profiles[r.profile].version,
                          rendering |-> Rendering(profiles[r.profile].draft),
                          published |-> FALSE]
    OBVIOUS
<1>4. made \in PreviewRows /\ made.profile = r.profile
    BY <1>2, <1>3 DEF PreviewRows, Rows, Rendering
<1>5. previews \in Seq(PreviewRows) /\ previews' = Append(previews, made)
    BY <1>3 DEF StoreStands, StoreTypes, Preview
<1>6. /\ previews' \in Seq(PreviewRows) /\ Len(previews') = Len(previews) + 1
      /\ \A i \in 1..Len(previews) : previews'[i] = previews[i]
      /\ previews'[Len(previews) + 1] = made
    BY <1>4, <1>5, AppendProperties
<1>7. Len(previews) \in Nat
    BY <1>5, LenProperties
<1>8. PreviewsMove
    BY <1>6, <1>7 DEF PreviewsMove
<1>9. RowsMove
    <2>1. \A p \in 1..Len(profiles) : profiles[p].version \in Nat
        BY RowTyped DEF StoreStands, Rows
    <2> QED BY <2>1, LenProperties DEF RowsMove, Preview, StoreStands, StoreTypes
<1>10. StoreStands'
    BY <1>6 DEF StoreStands, StoreTypes, LinksStand, RevokedLinksAreDead, Known,
               KeysUnique, Preview
<1> QED BY <1>4, <1>6, <1>7, <1>8, <1>9, <1>10 DEF StoreMoves

\* The row of a new link: it is in neither table yet.
LEMMA LinksAreBelow ==
    ASSUME StoreStands, NewLink
    PROVE  /\ links \in Nat /\ links' = links + 1 /\ token < links'
           /\ \A p \in 1..Len(profiles) : profiles[p] \in Rows /\ profiles[p].link < links'
           /\ \A link \in revoked : link \in Nat /\ link < links'
<1>1. links \in Nat /\ token \in Nat /\ revoked \subseteq Nat
    BY DEF StoreStands, StoreTypes
<1>2. \A p \in 1..Len(profiles) : profiles[p] \in Rows
    BY RowTyped DEF StoreStands
<1>3. \A p \in 1..Len(profiles) : profiles[p].link \in Nat
    BY <1>2 DEF Rows
<1> QED BY <1>1, <1>2, <1>3 DEF StoreStands, LinksStand, NewLink

LEMMA RotateMoves ==
    ASSUME StoreStands, NEW r \in Requests, Allowed(r), Rotate(r)
    PROVE  StoreMoves
<1>1. r.profile \in 1..Len(profiles) /\ ~profiles[r.profile].deleted
    BY AllowedFinds DEF Rotate
<1>2. profiles[r.profile] \in Rows
    BY <1>1, RowTyped DEF StoreStands
<1>3. /\ links \in Nat /\ links' = links + 1 /\ token < links'
      /\ \A p \in 1..Len(profiles) : profiles[p] \in Rows /\ profiles[p].link < links'
      /\ \A link \in revoked : link \in Nat /\ link < links'
    BY LinksAreBelow DEF Rotate
<1>4. PICK row : row = [profiles[r.profile] EXCEPT !.link = links']
    OBVIOUS
<1>5. /\ row \in Rows /\ row.link = links' /\ row.deleted = profiles[r.profile].deleted
      /\ row.key = profiles[r.profile].key /\ row.version = profiles[r.profile].version
    <2>1. PICK old, link : old = profiles[r.profile] /\ link = links'
        OBVIOUS
    <2>2. old \in Rows /\ link \in Nat /\ row = [old EXCEPT !.link = link]
        BY <1>2, <1>3, <1>4, <2>1
    <2>3. /\ row \in Rows /\ row.link = link /\ row.deleted = old.deleted
          /\ row.key = old.key /\ row.version = old.version
        BY <2>2 DEF Rows
    <2> QED BY <2>1, <2>3
<1>6. Revise(r.profile, row)
    BY <1>4 DEF Rotate
<1>7. /\ profiles' \in Seq(Rows) /\ Len(profiles') = Len(profiles)
      /\ \A q \in 1..Len(profiles) : q # r.profile => profiles'[q] = profiles[q]
      /\ profiles'[r.profile] = [row EXCEPT !.version = @ + 1]
    BY <1>1, <1>5, <1>6, RowRevised DEF StoreStands
<1>8. /\ profiles'[r.profile].link = links'
      /\ profiles'[r.profile].key = profiles[r.profile].key
      /\ profiles'[r.profile].version = profiles[r.profile].version + 1
    BY <1>5, <1>7 DEF Rows
<1>9. Len(profiles) \in Nat /\ profiles # <<>> /\ profiles' # <<>>
    BY <1>1, <1>7, LenProperties DEF StoreStands, StoreTypes
<1>10. /\ Len(profiles') = Len(profiles)
       /\ \A q \in 1..Len(profiles) : q # r.profile => profiles'[q] = profiles[q]
    BY <1>7
<1>11. /\ token' = IF r.profile = Default THEN links' ELSE token
       /\ revoked' = revoked \cup {profiles[r.profile].link} /\ previews' = previews
    BY DEF Rotate
<1>12. profiles[r.profile].link \in Nat /\ token \in Nat
    BY <1>2 DEF Rows, StoreStands, StoreTypes
<1>13. StoreTypes'
    BY <1>3, <1>7, <1>11, <1>12 DEF StoreStands, StoreTypes
<1>14. \A p \in 1..Len(profiles) : profiles[p].link \in Nat /\ profiles[p].version \in Nat
    BY <1>3 DEF Rows
<1>15. LinksStand'
    <2>1. links' \in Nat /\ \A p \in 1..Len(profiles) :
              /\ profiles'[p].link = IF p = r.profile THEN links' ELSE profiles[p].link
              /\ profiles[p].link # links'
        BY <1>3, <1>8, <1>10, <1>14
    <2>2. token' <= links' /\ \A link \in revoked' : link <= links'
        BY <1>1, <1>3, <1>11, <1>12, <2>1
    <2>3. \A p \in 1..Len(profiles') : profiles'[p].link <= links'
        BY <1>3, <1>10, <1>14, <2>1
    <2>4. \A p \in 1..Len(profiles') : p # Default => profiles'[p].link # token'
        BY <1>3, <1>10, <1>11, <1>12, <2>1 DEF StoreStands, LinksStand
    <2>5. \A p, q \in 1..Len(profiles') : profiles'[p].link = profiles'[q].link => p = q
        BY <1>10, <2>1 DEF StoreStands, LinksStand
    <2> QED BY <1>9, <2>2, <2>3, <2>4, <2>5 DEF LinksStand
<1>16. RevokedLinksAreDead'
    <2>1. \A link \in revoked : ~Known(link)'
        BY <1>1, <1>3, <1>8, <1>9, <1>10 DEF StoreStands, RevokedLinksAreDead, Known
    <2>2. PICK old : old = profiles[r.profile].link
        OBVIOUS
    <2>3. \A q \in 1..Len(profiles) : profiles'[q].link # old
        <3>1. \A p, q \in 1..Len(profiles) : profiles[p].link = profiles[q].link => p = q
            BY DEF StoreStands, LinksStand
        <3>2. links' # old /\ profiles'[r.profile].link # old
            BY <1>1, <1>3, <1>8, <1>14, <2>2
        <3>3. ASSUME NEW q \in 1..Len(profiles), q # r.profile PROVE profiles'[q].link # old
            BY <1>1, <1>10, <2>2, <3>1, <3>3
        <3> QED BY <3>2, <3>3
    <2>4. ~Known(old)'
        BY <1>9, <1>10, <2>3 DEF Known
    <2> QED BY <1>11, <2>1, <2>2, <2>4 DEF RevokedLinksAreDead, Known
<1>17. KeysUnique'
    BY <1>1, <1>8, <1>10 DEF StoreStands, KeysUnique
<1>18. RowsMove
    BY <1>1, <1>8, <1>9, <1>10, <1>14 DEF RowsMove
<1>19. PreviewsMove
    BY <1>11, PreviewsAlone
<1> QED BY <1>13, <1>15, <1>16, <1>17, <1>18, <1>19 DEF StoreMoves, StoreStands

\* Adopting the link of old clients makes the default row and nothing else.
LEMMA AdoptedRows ==
    ASSUME StoreStands
    PROVE  /\ Adopted \in Seq(Rows) /\ Len(profiles) <= Len(Adopted) /\ Adopted # <<>>
           /\ Len(Adopted) \in Nat /\ Default \in 1..Len(Adopted)
           /\ \A p \in 1..Len(profiles) : Adopted[p] = profiles[p]
           /\ \A p \in 1..Len(Adopted) :
                 /\ Adopted[p] \in Rows /\ Adopted[p].link <= links
                 /\ p # Default => Adopted[p].link # token
                 /\ p \notin 1..Len(profiles) => Adopted[p].key = 0
           /\ \A p, q \in 1..Len(Adopted) : Adopted[p].link = Adopted[q].link => p = q
           /\ \A p, q \in 1..Len(Adopted) : Adopted[p].key = Adopted[q].key => p = q
           /\ \A p \in 1..Len(Adopted) : Adopted[p].link \in revoked => Adopted[p].deleted
<1>1. CASE profiles = <<>>
    <2>1. PICK row : row = Row(0, Nodes, token)
        OBVIOUS
    <2>2. row \in Rows /\ row.key = 0 /\ row.link = token
        BY <2>1 DEF Row, Rows, NotPublished, StoreStands, StoreTypes
    <2>3. Adopted = <<row>>
        BY <1>1, <2>1 DEF Adopted
    <2>4. Adopted \in Seq(Rows) /\ Len(Adopted) = 1 /\ Adopted[1] = row
        BY <2>2, <2>3
    <2>5. Len(profiles) = 0
        BY <1>1
    <2> QED BY <1>1, <2>2, <2>4, <2>5 DEF Default, StoreStands, LinksStand
<1>2. CASE profiles # <<>>
    <2>1. Adopted = profiles /\ profiles \in Seq(Rows)
        BY <1>2 DEF Adopted, StoreStands, StoreTypes
    <2>2. Len(profiles) \in Nat /\ Len(profiles) # 0
        BY <1>2, <2>1, LenProperties, EmptySeq
    <2>3. \A p \in 1..Len(profiles) : profiles[p] \in Rows
        BY RowTyped DEF StoreStands
    <2>4. \A p \in 1..Len(profiles) : profiles[p].link \in revoked => profiles[p].deleted
        BY DEF StoreStands, RevokedLinksAreDead, Known
    <2> QED BY <1>2, <2>1, <2>2, <2>3, <2>4
            DEF Default, StoreStands, LinksStand, KeysUnique
<1> QED BY <1>1, <1>2

LEMMA AdoptMoves ==
    ASSUME StoreStands, profiles' = Adopted, UNCHANGED <<token, links, previews, revoked>>
    PROVE  StoreMoves
<1>1. PICK rows : rows = Adopted
    OBVIOUS
<1>2. /\ rows \in Seq(Rows) /\ Len(profiles) <= Len(rows) /\ rows # <<>>
      /\ \A p \in 1..Len(profiles) : rows[p] = profiles[p]
      /\ \A p \in 1..Len(rows) : /\ rows[p].link <= links
                                 /\ p # Default => rows[p].link # token
      /\ \A p, q \in 1..Len(rows) : rows[p].link = rows[q].link => p = q
      /\ \A p, q \in 1..Len(rows) : rows[p].key = rows[q].key => p = q
      /\ \A p \in 1..Len(rows) : rows[p].link \in revoked => rows[p].deleted
    BY <1>1, AdoptedRows
<1>3. profiles' = rows
    BY <1>1
<1>4. StoreTypes'
    BY <1>2, <1>3 DEF StoreStands, StoreTypes
<1>5. LinksStand'
    BY <1>2, <1>3 DEF StoreStands, LinksStand
<1>6. RevokedLinksAreDead' /\ KeysUnique'
    BY <1>2, <1>3 DEF RevokedLinksAreDead, Known, KeysUnique
<1>7. \A p \in 1..Len(profiles) : profiles[p].version \in Nat
    BY RowTyped DEF StoreStands, Rows
<1>8. RowsMove
    BY <1>2, <1>3, <1>7 DEF RowsMove
<1> QED BY <1>4, <1>5, <1>6, <1>8, PreviewsAlone DEF StoreMoves, StoreStands

LEMMA CreateMoves ==
    ASSUME StoreStands, NEW r \in Requests, RequestStands(r), Allowed(r), Create(r)
    PROVE  StoreMoves /\ \E q \in 1..Len(profiles') : profiles'[q].key = r.key
<1>1. r.op = "create" /\ MayCreate(r) /\ r.key \in Nat /\ r.key # 0
    BY DEF Create, Allowed, RequestStands, Requests
<1>2. CASE Previous(r) # {}
    <2>1. UNCHANGED store
        BY <1>2 DEF Create
    <2>2. \E q \in 1..Len(profiles) : profiles[q].key = r.key
        BY <1>2 DEF Previous
    <2> QED BY <2>1, <2>2, StoreAlone DEF store
<1>3. CASE Previous(r) = {}
    <2>1. NewLink /\ UNCHANGED <<token, previews, revoked>>
        BY <1>3 DEF Create
    <2>2. PICK draft : draft = IF r.profile = 0 THEN DefaultDraft
                               ELSE profiles[r.profile].draft
        OBVIOUS
    <2>3. draft \in SUBSET Nodes
        <3>1. r.profile # 0 => r.profile \in 1..Len(profiles)
            BY <1>1, <1>3 DEF MayCreate, Exists
        <3>2. r.profile # 0 => profiles[r.profile] \in Rows
            BY <3>1, RowTyped DEF StoreStands
        <3> QED BY <2>2, <3>2 DEF DefaultDraft, Rows
    <2>4. /\ links \in Nat /\ links' = links + 1 /\ token < links'
          /\ \A p \in 1..Len(profiles) : profiles[p] \in Rows /\ profiles[p].link < links'
          /\ \A link \in revoked : link \in Nat /\ link < links'
        BY <2>1, LinksAreBelow
    <2>5. PICK row : row = Row(r.key, draft, links')
        OBVIOUS
    <2>6. row \in Rows /\ row.key = r.key /\ row.link = links'
        BY <1>1, <2>3, <2>4, <2>5 DEF Row, Rows, NotPublished
    <2>7. PICK rows : rows = Adopted
        OBVIOUS
    <2>8. /\ rows \in Seq(Rows) /\ Len(profiles) <= Len(rows) /\ rows # <<>>
          /\ Len(rows) \in Nat /\ Default \in 1..Len(rows)
          /\ \A p \in 1..Len(profiles) : rows[p] = profiles[p]
          /\ \A p \in 1..Len(rows) : /\ rows[p] \in Rows /\ rows[p].link <= links
                                     /\ p # Default => rows[p].link # token
                                     /\ p \notin 1..Len(profiles) => rows[p].key = 0
          /\ \A p, q \in 1..Len(rows) : rows[p].link = rows[q].link => p = q
          /\ \A p, q \in 1..Len(rows) : rows[p].key = rows[q].key => p = q
          /\ \A p \in 1..Len(rows) : rows[p].link \in revoked => rows[p].deleted
        BY <2>7, AdoptedRows
    <2>9. profiles' = Append(rows, row)
        BY <1>3, <2>2, <2>5, <2>7 DEF Create
    <2>10. /\ profiles' \in Seq(Rows) /\ Len(profiles') = Len(rows) + 1
           /\ \A p \in 1..Len(rows) : profiles'[p] = rows[p]
           /\ profiles'[Len(rows) + 1] = row
        BY <2>6, <2>8, <2>9, AppendProperties
    <2>11. profiles' # <<>>
        <3>1. Len(profiles') # 0
            BY <2>8, <2>10
        <3> QED BY <3>1
    <2>12. \A p \in 1..Len(rows) : rows[p].link \in Nat /\ rows[p].link # links'
        <3>1. \A p \in 1..Len(rows) : rows[p].link \in Nat
            BY <2>8 DEF Rows
        <3> QED BY <2>4, <2>8, <3>1
    <2>13. \A p \in 1..Len(rows) : rows[p].key # r.key
        BY <1>1, <1>3, <2>8 DEF Previous
    <2>14. 1..Len(profiles') = 1..Len(rows) \cup {Len(rows) + 1} /\ Default # Len(rows) + 1
        BY <2>8, <2>10 DEF Default
    <2>15. token \in Nat
        BY DEF StoreStands, StoreTypes
    <2>16. StoreTypes'
        BY <2>1, <2>4, <2>10 DEF StoreStands, StoreTypes
    <2>17. LinksStand'
        <3>1. token' <= links' /\ \A link \in revoked' : link <= links'
            BY <2>1, <2>4, <2>15
        <3>2. \A p \in 1..Len(profiles') : /\ profiles'[p].link <= links'
                                           /\ p # Default => profiles'[p].link # token'
            BY <2>1, <2>4, <2>6, <2>8, <2>10, <2>12, <2>14, <2>15
        <3>3. \A p, q \in 1..Len(profiles') : profiles'[p].link = profiles'[q].link => p = q
            BY <2>6, <2>8, <2>10, <2>12, <2>14
        <3> QED BY <2>11, <3>1, <3>2, <3>3 DEF LinksStand
    <2>18. RevokedLinksAreDead'
        <3>1. \A link \in revoked : link # links'
            BY <2>4
        <3>2. \A p \in 1..Len(profiles') : profiles'[p].link \in revoked => profiles'[p].deleted
            BY <2>6, <2>8, <2>10, <2>14, <3>1
        <3> QED BY <2>1, <2>11, <3>2 DEF RevokedLinksAreDead, Known
    <2>19. KeysUnique'
        BY <2>6, <2>8, <2>10, <2>13, <2>14 DEF KeysUnique
    <2>20. RowsMove
        <3>1. \A p \in 1..Len(profiles) : profiles[p].version \in Nat
            BY RowTyped DEF StoreStands, Rows
        <3>2. Len(profiles) \in Nat
            BY LenProperties DEF StoreStands, StoreTypes
        <3>3. Len(profiles) <= Len(profiles')
            BY <2>8, <2>10, <3>2
        <3>4. \A p \in 1..Len(profiles) : profiles'[p] = profiles[p]
            BY <2>8, <2>10, <3>2
        <3> QED BY <3>1, <3>3, <3>4 DEF RowsMove
    <2>21. \E q \in 1..Len(profiles') : profiles'[q].key = r.key
        BY <2>6, <2>10, <2>14
    <2> QED BY <2>1, <2>16, <2>17, <2>18, <2>19, <2>20, <2>21, PreviewsAlone
            DEF StoreMoves, StoreStands
<1> QED BY <1>2, <1>3

\* The new link of old clients goes to the default row in the same step.
LEMMA ResetTokenMoves ==
    ASSUME StoreStands, ResetToken
    PROVE  StoreMoves
<1>1. PICK rows : rows = Adopted
    OBVIOUS
<1>2. /\ rows \in Seq(Rows) /\ Len(profiles) <= Len(rows) /\ rows # <<>>
      /\ Len(rows) \in Nat /\ Default \in 1..Len(rows)
      /\ \A p \in 1..Len(profiles) : rows[p] = profiles[p]
      /\ \A p \in 1..Len(rows) : /\ rows[p] \in Rows /\ rows[p].link <= links
                                 /\ p # Default => rows[p].link # token
      /\ \A p, q \in 1..Len(rows) : rows[p].link = rows[q].link => p = q
      /\ \A p, q \in 1..Len(rows) : rows[p].key = rows[q].key => p = q
      /\ \A p \in 1..Len(rows) : rows[p].link \in revoked => rows[p].deleted
    BY <1>1, AdoptedRows
<1>3. /\ links \in Nat /\ links' = links + 1 /\ token < links'
      /\ \A link \in revoked : link \in Nat /\ link < links'
    BY LinksAreBelow DEF ResetToken
<1>4. PICK row : row = [rows[Default] EXCEPT !.link = links']
    OBVIOUS
<1>5. /\ row \in Rows /\ row.link = links' /\ row.key = rows[Default].key
      /\ row.version = rows[Default].version /\ row.draft = rows[Default].draft
    <2>1. rows[Default] \in Rows /\ links' \in Nat
        BY <1>2, <1>3
    <2> QED BY <1>4, <2>1 DEF Rows
<1>6. profiles' = [rows EXCEPT ![Default] = row]
    BY <1>1, <1>4 DEF ResetToken, Synced
<1>7. /\ profiles' \in Seq(Rows) /\ Len(profiles') = Len(rows)
      /\ \A p \in 1..Len(rows) : profiles'[p] = IF p = Default THEN row ELSE rows[p]
    BY <1>2, <1>5, <1>6, ExceptSeq
<1>8. profiles' # <<>>
    <2>1. Len(profiles') # 0
        BY <1>2, <1>7
    <2> QED BY <2>1
<1>9. /\ token' = links' /\ previews' = previews
      /\ revoked' = revoked \cup {token, rows[Default].link}
    BY <1>1 DEF ResetToken
<1>10. token \in Nat /\ \A p \in 1..Len(rows) : rows[p].link \in Nat /\ rows[p].link # links'
    <2>1. \A p \in 1..Len(rows) : rows[p].link \in Nat
        BY <1>2 DEF Rows
    <2> QED BY <1>2, <1>3, <2>1 DEF StoreStands, StoreTypes
<1>11. StoreTypes'
    <2>1. rows[Default].link \in Nat /\ links' \in Nat /\ profiles' \in Seq(Rows)
        BY <1>2, <1>3, <1>7, <1>10
    <2> QED BY <1>9, <1>10, <2>1 DEF StoreStands, StoreTypes
<1>12. LinksStand'
    <2>1. token' <= links' /\ \A link \in revoked' : link <= links'
        BY <1>2, <1>3, <1>9, <1>10
    <2>2. \A p \in 1..Len(profiles') : /\ profiles'[p].link <= links'
                                       /\ p # Default => profiles'[p].link # token'
        BY <1>2, <1>3, <1>5, <1>7, <1>9, <1>10
    <2>3. \A p, q \in 1..Len(profiles') : profiles'[p].link = profiles'[q].link => p = q
        BY <1>2, <1>5, <1>7, <1>10
    <2> QED BY <1>8, <2>1, <2>2, <2>3 DEF LinksStand
<1>13. RevokedLinksAreDead'
    <2>1. \A link \in revoked : link # links'
        BY <1>3
    <2>2. \A p \in 1..Len(profiles') : profiles'[p].link \in revoked' => profiles'[p].deleted
        BY <1>2, <1>3, <1>5, <1>7, <1>9, <1>10, <2>1
    <2> QED BY <1>8, <2>2 DEF RevokedLinksAreDead, Known
<1>14. KeysUnique'
    BY <1>2, <1>5, <1>7 DEF KeysUnique
<1>15. RowsMove
    <2>1. \A p \in 1..Len(profiles) : profiles[p].version \in Nat
        BY RowTyped DEF StoreStands, Rows
    <2>2. Len(profiles) \in Nat
        BY LenProperties DEF StoreStands, StoreTypes
    <2>3. \A p \in 1..Len(profiles) : /\ profiles'[p].version = profiles[p].version
                                      /\ profiles'[p].draft = profiles[p].draft
        BY <1>2, <1>5, <1>7, <2>2
    <2> QED BY <1>2, <1>7, <2>1, <2>2, <2>3 DEF RowsMove
<1> QED BY <1>9, <1>11, <1>12, <1>13, <1>14, <1>15, PreviewsAlone DEF StoreMoves, StoreStands

\* Interrupted, the reset leaves the default row with the link it had.
LEMMA ResetInterruptedMoves ==
    ASSUME StoreStands, ResetInterrupted
    PROVE  StoreMoves
<1>1. PICK rows : rows = Adopted
    OBVIOUS
<1>2. /\ rows \in Seq(Rows) /\ Len(profiles) <= Len(rows) /\ rows # <<>>
      /\ \A p \in 1..Len(profiles) : rows[p] = profiles[p]
      /\ \A p \in 1..Len(rows) : rows[p] \in Rows /\ rows[p].link <= links
      /\ \A p, q \in 1..Len(rows) : rows[p].link = rows[q].link => p = q
      /\ \A p, q \in 1..Len(rows) : rows[p].key = rows[q].key => p = q
      /\ \A p \in 1..Len(rows) : rows[p].link \in revoked => rows[p].deleted
    BY <1>1, AdoptedRows
<1>3. /\ links \in Nat /\ links' = links + 1
      /\ \A link \in revoked : link \in Nat /\ link < links'
    BY LinksAreBelow DEF ResetInterrupted
<1>4. profiles' = rows /\ token' = links' /\ UNCHANGED <<previews, revoked>>
    BY <1>1 DEF ResetInterrupted
<1>5. \A p \in 1..Len(rows) : rows[p].link < links'
    <2>1. \A p \in 1..Len(rows) : rows[p].link \in Nat
        BY <1>2 DEF Rows
    <2> QED BY <1>2, <1>3, <2>1
<1>6. \A p \in 1..Len(rows) : rows[p].link # links' /\ rows[p].link <= links'
    <2>1. \A p \in 1..Len(rows) : rows[p].link \in Nat
        BY <1>2 DEF Rows
    <2> QED BY <1>3, <1>5, <2>1
<1>7. StoreTypes'
    BY <1>2, <1>3, <1>4 DEF StoreStands, StoreTypes
<1>8. LinksStand'
    BY <1>2, <1>3, <1>4, <1>6 DEF StoreStands, LinksStand
<1>9. RevokedLinksAreDead' /\ KeysUnique'
    BY <1>2, <1>4 DEF RevokedLinksAreDead, Known, KeysUnique
<1>10. RowsMove
    <2>1. \A p \in 1..Len(profiles) : profiles[p].version \in Nat
        BY RowTyped DEF StoreStands, Rows
    <2> QED BY <1>2, <1>4, <2>1 DEF RowsMove
<1> QED BY <1>4, <1>7, <1>8, <1>9, <1>10, PreviewsAlone DEF StoreMoves, StoreStands

\* Whatever a call does to the store, and what its page is told of it.
LEMMA PerformMoves ==
    ASSUME StoreStands, available \subseteq Nodes, NEW r \in Requests, RequestStands(r),
           Allowed(r), Perform(r)
    PROVE  /\ StoreMoves
           /\ r.op # "create" => r.profile \in 1..Len(profiles)
           /\ r.op \in {"save", "savePreview"} => profiles'[r.profile].draft = r.draft
           /\ r.op = "preview" => /\ Len(previews') \in 1..Len(previews')
                                  /\ previews'[Len(previews')].profile = r.profile
           /\ r.op = "create" => \E q \in 1..Len(profiles') : profiles'[q].key = r.key
<1>1. r.op # "create" => r.profile \in 1..Len(profiles)
    BY AllowedFinds
<1>2. CASE Save(r)
    BY <1>1, <1>2, SaveMoves DEF Save
<1>3. CASE Preview(r)
    BY <1>1, <1>3, PreviewMoves DEF Preview
<1>4. CASE Publish(r)
    BY <1>1, <1>4, PublishMoves DEF Publish
<1>5. CASE Read(r)
    BY <1>1, <1>5, StoreAlone DEF Read, Repeated
<1>6. CASE PauseOrResume(r)
    BY <1>1, <1>6, PauseOrResumeMoves DEF PauseOrResume
<1>7. CASE Delete(r)
    BY <1>1, <1>7, DeleteMoves DEF Delete
<1>8. CASE Rotate(r)
    BY <1>1, <1>8, RotateMoves DEF Rotate
<1>9. CASE Create(r)
    BY <1>9, CreateMoves DEF Create
<1> QED BY <1>2, <1>3, <1>4, <1>5, <1>6, <1>7, <1>8, <1>9 DEF Perform

--------------------------------------------------------------------------------
(***************************************************************************)
(* The pages                                                               *)
(***************************************************************************)
\* The other pages show what they showed.
LEMMA ShowStands ==
    ASSUME TypeOK, PagesStand, StoreTypes', RowsMove, PreviewsMove,
           NEW g \in Pages, NEW page \in PageStates, PageStands(page)', Show(g, page)
    PROVE  pages' \in [Pages -> PageStates] /\ PagesStand'
<1>1. pages \in [Pages -> PageStates] /\ pages' = [pages EXCEPT ![g] = page]
    BY DEF TypeOK, Show
<1>2. StoreTypes
    BY DEF TypeOK
<1>3. \A h \in Pages : PageStands(pages[h])'
    <2> TAKE h \in Pages
    <2>1. CASE h = g
        BY <1>1, <2>1 DEF PageStands, SeenStands, PreviewStands
    <2>2. CASE h # g
        <3>1. PICK shown : shown = pages[h]
            OBVIOUS
        <3>2. shown \in PageStates /\ PageStands(shown) /\ pages'[h] = shown
            BY <1>1, <2>2, <3>1 DEF PagesStand
        <3>3. PageStands(shown)'
            BY <1>2, <3>2, PageStays
        <3> QED BY <3>2, <3>3 DEF PageStands, SeenStands, PreviewStands
    <2> QED BY <2>1, <2>2
<1> QED BY <1>1, <1>3 DEF PagesStand

LEMMA PagesAlone ==
    ASSUME TypeOK, PagesStand, StoreTypes', RowsMove, PreviewsMove, UNCHANGED pages
    PROVE  pages' \in [Pages -> PageStates] /\ PagesStand'
<1>1. pages \in [Pages -> PageStates] /\ pages' = pages /\ StoreTypes
    BY DEF TypeOK
<1>2. \A h \in Pages : PageStands(pages[h])'
    <2> TAKE h \in Pages
    <2>1. PICK shown : shown = pages[h]
        OBVIOUS
    <2>2. shown \in PageStates /\ PageStands(shown) /\ pages'[h] = shown
        BY <1>1, <2>1 DEF PagesStand
    <2>3. PageStands(shown)'
        BY <1>1, <2>2, PageStays
    <2> QED BY <2>2, <2>3 DEF PageStands, SeenStands, PreviewStands
<1> QED BY <1>1, <1>2 DEF PagesStand

LEMMA StraysStay ==
    ASSUME TypeOK, StraysStand, StoreTypes', RowsMove, PreviewsMove, stray' \subseteq stray
    PROVE  stray' \subseteq Requests /\ StraysStand'
<1>1. stray \subseteq Requests /\ StoreTypes
    BY DEF TypeOK
<1>2. \A r \in stray' : RequestStands(r)'
    BY <1>1, RequestStays DEF StraysStand
<1> QED BY <1>1, <1>2 DEF StraysStand

LEMMA ListFields ==
    /\ List \in PageStates
    /\ List.at = "list" /\ List.form = "none" /\ List.preview = 0 /\ ~List.waiting
BY DEF List, PageStates, SeenRows, Seen, Row, NotPublished

LEMMA ListStands == PageStands(List)'
<1>1. PICK page : page = List
    OBVIOUS
<1>2. page.at = "list" /\ page.form = "none" /\ page.preview = 0 /\ ~page.waiting
    BY <1>1, ListFields
<1>3. PageStands(page)'
    BY <1>2 DEF PageStands, Actions
<1> QED BY <1>1, <1>3 DEF List, Seen, Row, NotPublished, PageStands

\* What a page has just read of a row it has seen.
LEMMA SeenNow ==
    ASSUME StoreTypes', NEW p \in 1..Len(profiles')
    PROVE  /\ Seen(profiles'[p]) \in SeenRows /\ p \in Nat
           /\ Seen(profiles'[p]).draft = profiles'[p].draft
           /\ \A row : row = Seen(profiles'[p]) => SeenStands(p, row)'
<1>1. profiles'[p] \in Rows
    BY ElementOfSeq DEF StoreTypes
<1>2. p \in Nat
    BY LenProperties DEF StoreTypes
<1>3. Seen(profiles'[p]) \in SeenRows /\ Seen(profiles'[p]).version = profiles'[p].version
    BY <1>1 DEF Seen, Rows, SeenRows
<1>4. \A row : row = Seen(profiles'[p]) => SeenStands(p, row)'
    BY <1>1, <1>3 DEF SeenStands, Seen, Rows
<1> QED BY <1>2, <1>3, <1>4 DEF Seen

LEMMA EditorStands ==
    ASSUME StoreTypes', NEW p \in 1..Len(profiles'), NEW page, page = Editor(p, profiles'[p])
    PROVE  page \in PageStates /\ PageStands(page)'
<1>1. PICK list : list = List
    OBVIOUS
<1>2. PICK row : row = Seen(profiles'[p])
    OBVIOUS
<1>3. row \in SeenRows /\ p \in Nat /\ row.draft = profiles'[p].draft /\ SeenStands(p, row)'
    BY <1>2, SeenNow
<1>4. page = [list EXCEPT !.at = "editor", !.profile = p, !.row = row, !.draft = row.draft]
    BY <1>1, <1>2, <1>3 DEF Editor
<1>5. list \in PageStates /\ list.form = "none" /\ list.preview = 0 /\ ~list.waiting
    BY <1>1, ListFields
<1>6. row.draft \in SUBSET Nodes
    BY <1>3 DEF SeenRows
<1>7. page \in PageStates
    BY <1>3, <1>4, <1>5, <1>6 DEF PageStates
<1>8. /\ page.at = "editor" /\ page.form = "none" /\ page.preview = 0 /\ ~page.waiting
      /\ page.profile = p /\ page.row = row
    BY <1>4, <1>5 DEF PageStates
<1> QED BY <1>3, <1>7, <1>8 DEF PageStands

--------------------------------------------------------------------------------
(***************************************************************************)
(* The steps of a page                                                     *)
(***************************************************************************)
\* A step that changes one page and leaves the store alone keeps the invariant.
LEMMA LocalInv ==
    ASSUME Inv, NEW g \in Pages, NEW page \in PageStates, PageStands(page)',
           Show(g, page), UNCHANGED <<store, stray>>,
           available' \subseteq Nodes, forms' \in Nat
    PROVE  Inv'
<1>1. StoreMoves
    BY StoreAlone DEF Inv
<1>2. StoreStands' /\ RowsMove /\ PreviewsMove /\ StoreTypes'
    BY <1>1 DEF StoreMoves, StoreStands
<1>3. pages' \in [Pages -> PageStates] /\ PagesStand'
    BY <1>2, ShowStands DEF Inv
<1>4. stray' \subseteq Requests /\ StraysStand'
    BY <1>2, StraysStay DEF Inv
<1> QED BY <1>2, <1>3, <1>4 DEF Inv, TypeOK

LEMMA OpenEditorInv ==
    ASSUME Inv, NEW g \in Pages, NEW p \in 1..Len(profiles), OpenEditor(g, p)
    PROVE  Inv'
<1>1. PICK page : page = Editor(p, profiles[p])
    OBVIOUS
<1>2. /\ Show(g, page) /\ profiles' = profiles /\ UNCHANGED <<store, stray>>
      /\ available' \subseteq Nodes /\ forms' \in Nat
    BY <1>1 DEF OpenEditor, Local, store, Inv, TypeOK
<1>3. StoreTypes'
    BY <1>2 DEF Inv, TypeOK, StoreTypes, store
<1>4. p \in 1..Len(profiles') /\ page = Editor(p, profiles'[p])
    BY <1>1, <1>2
<1>5. page \in PageStates /\ PageStands(page)'
    BY <1>3, <1>4, EditorStands
<1> QED BY <1>2, <1>5, LocalInv

\* An edit leaves what the page was opened on, and takes the preview away.
LEMMA EditedInv ==
    ASSUME Inv, NEW g \in Pages, NEW draft \in SUBSET Nodes, Editing(g),
           Edited(g, draft), Local
    PROVE  Inv'
<1>1. PICK shown : shown = pages[g]
    OBVIOUS
<1>2. shown \in PageStates /\ PageStands(shown) /\ shown.at = "editor" /\ ~shown.waiting
    BY <1>1 DEF Inv, TypeOK, PagesStand, Editing
<1>3. PICK page : page = [shown EXCEPT !.draft = draft, !.preview = 0]
    OBVIOUS
<1>4. /\ page \in PageStates /\ page.at = "editor" /\ ~page.waiting /\ page.preview = 0
      /\ page.form = shown.form /\ page.profile = shown.profile /\ page.row = shown.row
    BY <1>2, <1>3 DEF PageStates
<1>5. Show(g, page)
    BY <1>1, <1>3 DEF Edited, PreviewGone
<1>6. /\ UNCHANGED <<store, stray>> /\ available' \subseteq Nodes /\ forms' \in Nat
    BY DEF Local, Inv, TypeOK
<1>7. shown.row \in SeenRows /\ shown.form = "none" /\ SeenStands(shown.profile, shown.row)
    BY <1>2 DEF PageStates, PageStands
<1>8. StoreMoves
    BY <1>6, StoreAlone DEF Inv
<1>9. SeenStands(shown.profile, shown.row)'
    BY <1>7, <1>8, SeenStays DEF StoreMoves, StoreStands, Inv
<1>10. PageStands(page)'
    BY <1>4, <1>7, <1>9 DEF PageStands
<1> QED BY <1>4, <1>5, <1>6, <1>10, LocalInv

LEMMA StartCreateInv ==
    ASSUME Inv, NEW g \in Pages, StartCreate(g)
    PROVE  Inv'
<1>1. /\ forms' = forms + 1 /\ forms \in Nat /\ UNCHANGED <<store, stray>>
      /\ available' \subseteq Nodes
    BY DEF StartCreate, Inv, TypeOK
<1>2. PICK source \in {0} \cup Present :
          Show(g, [List EXCEPT !.form = "create", !.profile = source, !.key = forms'])
    BY DEF StartCreate
<1>3. source \in Nat
    BY <1>2, LenProperties DEF Present, Inv, TypeOK, StoreTypes
<1>4. PICK list : list = List
    OBVIOUS
<1>5. list \in PageStates /\ list.at = "list" /\ list.preview = 0 /\ ~list.waiting
    BY <1>4, ListFields
<1>6. PICK page : page = [list EXCEPT !.form = "create", !.profile = source, !.key = forms']
    OBVIOUS
<1>7. /\ page \in PageStates /\ page.at = "list" /\ page.form = "create"
      /\ page.key # 0 /\ page.preview = 0 /\ ~page.waiting
    <2>1. PICK key : key = forms'
        OBVIOUS
    <2>2. key \in Nat /\ key # 0
        BY <1>1, <2>1
    <2>3. page = [list EXCEPT !.form = "create", !.profile = source, !.key = key]
        BY <1>6, <2>1
    <2> QED BY <1>3, <1>5, <2>2, <2>3 DEF PageStates
<1>8. Show(g, page)
    BY <1>2, <1>4, <1>6
<1>9. PageStands(page)'
    BY <1>7 DEF PageStands, Actions
<1> QED BY <1>1, <1>7, <1>8, <1>9, LocalInv

LEMMA InspectInv ==
    ASSUME Inv, NEW g \in Pages, NEW p \in 1..Len(profiles), Inspect(g, p)
    PROVE  Inv'
<1>1. /\ profiles' = profiles /\ UNCHANGED <<store, stray>>
      /\ available' \subseteq Nodes /\ forms' \in Nat
    BY DEF Inspect, Local, store, Inv, TypeOK
<1>2. PICK action \in Actions :
          Show(g, [List EXCEPT !.form = action, !.profile = p, !.row = Seen(profiles[p])])
    BY DEF Inspect
<1>3. StoreTypes'
    BY <1>1 DEF Inv, TypeOK, StoreTypes, store
<1>4. PICK row : row = Seen(profiles'[p])
    OBVIOUS
<1>5. row \in SeenRows /\ p \in Nat /\ SeenStands(p, row)'
    BY <1>1, <1>3, <1>4, SeenNow
<1>6. PICK list : list = List
    OBVIOUS
<1>7. list \in PageStates /\ list.at = "list" /\ list.preview = 0 /\ ~list.waiting
    BY <1>6, ListFields
<1>8. PICK page : page = [list EXCEPT !.form = action, !.profile = p, !.row = row]
    OBVIOUS
<1>9. action # "create" /\ action # "none"
    BY <1>2 DEF Actions
<1>10. /\ page \in PageStates /\ page.at = "list" /\ page.form = action
       /\ page.profile = p /\ page.row = row /\ page.preview = 0 /\ ~page.waiting
    BY <1>2, <1>5, <1>7, <1>8 DEF PageStates
<1>11. Show(g, page)
    BY <1>1, <1>2, <1>4, <1>6, <1>8
<1>12. PageStands(page)'
    BY <1>5, <1>9, <1>10 DEF PageStands
<1> QED BY <1>1, <1>10, <1>11, <1>12, LocalInv

LEMMA LeaveInv ==
    ASSUME Inv, NEW g \in Pages, Leave(g)
    PROVE  Inv'
<1>1. /\ Show(g, List) /\ UNCHANGED <<store, stray>>
      /\ available' \subseteq Nodes /\ forms' \in Nat
    BY DEF Leave, Local, Inv, TypeOK
<1>2. PICK page : page = List
    OBVIOUS
<1>3. page \in PageStates /\ PageStands(page)' /\ Show(g, page)
    BY <1>1, <1>2, ListFields, ListStands
<1> QED BY <1>1, <1>3, LocalInv

--------------------------------------------------------------------------------
(***************************************************************************)
(* The calls                                                               *)
(***************************************************************************)
\* What a page offers, it offers on the row and the preview it shows.
LEMMA OfferStands ==
    ASSUME Inv, NEW g \in Pages, NEW op \in Offers(g), NEW r, r = Request(g, op)
    PROVE  /\ r \in Requests /\ RequestStands(r) /\ r.op = op
           /\ r.profile = pages[g].profile /\ r.row = pages[g].row
           /\ r.draft = pages[g].draft /\ r.key = pages[g].key
           /\ op \in {"save", "savePreview", "preview", "publish", "reload"} =>
                  pages[g].at = "editor"
           /\ op = "preview" => pages[g].draft = pages[g].row.draft
           /\ op = "publish" => ~pages[g].waiting
<1>1. PICK page : page = pages[g]
    OBVIOUS
<1>2. page \in PageStates /\ PageStands(page)
    BY <1>1 DEF Inv, TypeOK, PagesStand
<1>3. r = [op |-> op, profile |-> page.profile, row |-> page.row, draft |-> page.draft,
           preview |-> page.preview, key |-> page.key]
    BY <1>1 DEF Request
<1>4. CASE page.at = "editor"
    <2>1. /\ op \in {"save", "savePreview", "preview", "publish", "reload"}
          /\ op = "preview" => page.waiting \/ page.draft = page.row.draft
          /\ op = "publish" => ~page.waiting /\ page.preview # 0
        BY <1>1, <1>4 DEF Offers, EditorOffers, HeadOffers, Editing, Dirty
    <2>2. r \in Requests
        BY <1>2, <1>3, <2>1 DEF Requests, PageStates, Calls, Actions
    <2>3. RequestStands(r)
        BY <1>2, <1>3, <1>4, <2>1 DEF RequestStands, PageStands
    <2> QED BY <1>1, <1>2, <1>3, <1>4, <2>1, <2>2, <2>3 DEF PageStands
<1>5. CASE page.at # "editor"
    <2>1. op = page.form /\ op # "none"
        BY <1>1, <1>5 DEF Offers, DialogOffers
    <2>2. op \in Actions \cup {"create"}
        BY <1>2, <2>1 DEF PageStates
    <2>3. op \notin {"save", "savePreview", "preview", "publish", "reload"}
        BY <2>2 DEF Actions
    <2>4. r \in Requests
        BY <1>2, <1>3, <2>2 DEF Requests, PageStates, Calls, Actions
    <2>5. RequestStands(r)
        BY <1>2, <1>3, <2>1, <2>2, <2>3 DEF RequestStands, PageStands
    <2> QED BY <1>1, <1>3, <2>3, <2>4, <2>5
<1> QED BY <1>4, <1>5

\* The page after an error shows what it showed, on the same row.
LEMMA FailedStands ==
    ASSUME TypeOK, PagesStand, StoreTypes', RowsMove, PreviewsMove, NEW g \in Pages, NEW op,
           NEW conflict \in BOOLEAN, NEW page, page = Failed(g, op, conflict)
    PROVE  page \in PageStates /\ PageStands(page)'
<1>1. PICK shown : shown = pages[g]
    OBVIOUS
<1>2. shown \in PageStates /\ PageStands(shown)
    BY <1>1 DEF TypeOK, PagesStand
<1>3. PageStands(shown)'
    BY <1>2, PageStays DEF TypeOK
<1>4. page = [shown EXCEPT !.waiting = FALSE,
                           !.conflict = shown.conflict \/ (conflict /\ shown.at = "editor"),
                           !.preview = IF op = "reload" THEN shown.preview ELSE 0]
    BY <1>1 DEF Failed
<1>5. PICK banner \in BOOLEAN : banner = (shown.conflict \/ (conflict /\ shown.at = "editor"))
    BY <1>2 DEF PageStates
<1>6. PICK preview : preview = IF op = "reload" THEN shown.preview ELSE 0
    OBVIOUS
<1>7. page = [shown EXCEPT !.waiting = FALSE, !.conflict = banner, !.preview = preview]
    BY <1>4, <1>5, <1>6
<1>8. preview \in Nat
    BY <1>2, <1>6 DEF PageStates
<1>9. /\ page \in PageStates /\ page.at = shown.at /\ page.form = shown.form
      /\ page.profile = shown.profile /\ page.row = shown.row /\ page.draft = shown.draft
      /\ page.preview = preview /\ page.key = shown.key /\ ~page.waiting
    BY <1>2, <1>7, <1>8 DEF PageStates
<1> QED BY <1>3, <1>6, <1>9 DEF PageStands, SeenStands, PreviewStands

\* A page that takes the row it is answered with
LEMMA RowTaken ==
    ASSUME NEW shown \in PageStates, NEW row \in SeenRows, NEW page,
           page = [shown EXCEPT !.row = row, !.preview = 0]
    PROVE  /\ page \in PageStates /\ page.at = shown.at /\ page.form = shown.form
           /\ page.profile = shown.profile /\ page.row = row /\ page.draft = shown.draft
           /\ page.preview = 0
<1>1. page \in PageStates
    BY DEF PageStates
<1> QED BY <1>1 DEF PageStates

SavedPage(shown, row, asked) ==
    [shown EXCEPT !.row = row, !.preview = 0, !.conflict = FALSE, !.waiting = asked]

LEMMA RowSaved ==
    ASSUME NEW shown \in PageStates, NEW row \in SeenRows, NEW asked \in BOOLEAN,
           NEW page, page = SavedPage(shown, row, asked)
    PROVE  /\ page \in PageStates /\ page.at = shown.at /\ page.form = shown.form
           /\ page.profile = shown.profile /\ page.row = row /\ page.draft = shown.draft
           /\ page.preview = 0
<1>1. page \in PageStates
    BY DEF PageStates, SavedPage
<1> QED BY <1>1 DEF PageStates, SavedPage

\* The page after its call was carried out
LEMMA AnsweredStands ==
    ASSUME Inv, NEW g \in Pages, NEW op \in Offers(g), op \in Calls,
           Allowed(Request(g, op)), Perform(Request(g, op)),
           NEW page, page = Answered(g, op)
    PROVE  StoreMoves /\ page \in PageStates /\ PageStands(page)'
<1>1. PICK r : r = Request(g, op)
    OBVIOUS
<1>2. /\ r \in Requests /\ RequestStands(r) /\ r.op = op
      /\ r.profile = pages[g].profile /\ r.row = pages[g].row
      /\ r.draft = pages[g].draft /\ r.key = pages[g].key
      /\ op \in {"save", "savePreview", "preview", "publish", "reload"} =>
             pages[g].at = "editor"
      /\ op = "preview" => pages[g].draft = pages[g].row.draft
      /\ op = "publish" => ~pages[g].waiting
    BY <1>1, OfferStands
<1>3. /\ StoreMoves
      /\ r.op # "create" => r.profile \in 1..Len(profiles)
      /\ r.op \in {"save", "savePreview"} => profiles'[r.profile].draft = r.draft
      /\ r.op = "preview" => /\ Len(previews') \in 1..Len(previews')
                             /\ previews'[Len(previews')].profile = r.profile
      /\ r.op = "create" => \E q \in 1..Len(profiles') : profiles'[q].key = r.key
    BY <1>1, <1>2, PerformMoves DEF Inv, TypeOK
<1>4. StoreTypes' /\ RowsMove /\ PreviewsMove
    BY <1>3 DEF StoreMoves, StoreStands
<1>5. op # "create" => r.profile \in 1..Len(profiles')
    BY <1>2, <1>3, <1>4, LenProperties DEF RowsMove, StoreTypes, Inv, TypeOK
<1>6. PICK shown : shown = pages[g]
    OBVIOUS
<1>7. shown \in PageStates /\ PageStands(shown)
    BY <1>6 DEF Inv, TypeOK, PagesStand
<1>8. PageStands(shown)'
    BY <1>4, <1>7, PageStays DEF Inv, TypeOK
<1>9. PICK row : row = Seen(profiles'[r.profile])
    OBVIOUS
<1>10. op # "create" => /\ row \in SeenRows /\ SeenStands(r.profile, row)'
                        /\ row.draft = profiles'[r.profile].draft
    BY <1>4, <1>5, <1>9, SeenNow
<1>11. CASE op \in {"save", "savePreview"}
    <2>1. PICK asked : asked = (op = "savePreview")
        OBVIOUS
    <2>2. page = SavedPage(shown, row, asked)
        BY <1>2, <1>6, <1>9, <1>11, <2>1 DEF Answered, Saved, SavedPage, Actions
    <2>3. op # "create" /\ shown \in PageStates /\ row \in SeenRows
        BY <1>7, <1>10, <1>11
    <2>4. asked \in BOOLEAN
        BY <2>1
    <2>5. /\ page \in PageStates /\ page.at = shown.at /\ page.form = shown.form
          /\ page.profile = shown.profile /\ page.row = row /\ page.draft = shown.draft
          /\ page.preview = 0
        BY <2>2, <2>3, <2>4, RowSaved
    <2>6. shown.at = "editor" /\ shown.form = "none" /\ shown.draft = row.draft
        BY <1>2, <1>3, <1>6, <1>7, <1>10, <1>11, <2>3 DEF PageStands
    <2>7. PageStands(page)'
        BY <1>2, <1>6, <1>10, <2>3, <2>5, <2>6 DEF PageStands, SeenStands
    <2> QED BY <1>3, <2>5, <2>7
<1>12. CASE op = "preview"
    <2>1. PICK preview : preview = Len(previews')
        OBVIOUS
    <2>2. page = [shown EXCEPT !.preview = preview, !.waiting = FALSE]
        BY <1>6, <1>12, <2>1 DEF Answered, Previewed, Actions
    <2>3. preview \in Nat /\ preview \in 1..Len(previews') /\ previews'[preview].profile = r.profile
        BY <1>2, <1>3, <1>4, <1>12, <2>1, LenProperties DEF StoreTypes
    <2>4. /\ page \in PageStates /\ page.at = shown.at /\ page.form = shown.form
          /\ page.profile = shown.profile /\ page.row = shown.row /\ page.draft = shown.draft
          /\ page.preview = preview /\ page.key = shown.key /\ ~page.waiting
        BY <1>7, <2>2, <2>3 DEF PageStates
    <2>5. PreviewStands(preview, shown.profile, shown.row, shown.draft)'
        BY <1>2, <1>6, <1>12, <2>3 DEF PreviewStands
    <2>6. PageStands(page)'
        BY <1>8, <2>4, <2>5 DEF PageStands, SeenStands, PreviewStands
    <2> QED BY <1>3, <2>4, <2>6
<1>13. CASE op = "publish"
    <2>1. page = [shown EXCEPT !.row = row, !.preview = 0]
        BY <1>2, <1>6, <1>9, <1>13 DEF Answered, PublishedHere, Actions
    <2>2. op # "create" /\ row \in SeenRows
        BY <1>10, <1>13
    <2>3. /\ page \in PageStates /\ page.at = shown.at /\ page.form = shown.form
          /\ page.profile = shown.profile /\ page.row = row /\ page.preview = 0
          /\ page.waiting => shown.waiting
        BY <1>7, <2>1, <2>2, RowTaken DEF PageStates
    <2>4. shown.at = "editor" /\ shown.form = "none" /\ ~shown.waiting
        BY <1>2, <1>6, <1>7, <1>13 DEF PageStands
    <2>5. PageStands(page)'
        BY <1>2, <1>6, <1>10, <2>2, <2>3, <2>4 DEF PageStands, SeenStands
    <2> QED BY <1>3, <2>3, <2>5
<1>14. CASE op = "reload"
    <2>1. page = Editor(r.profile, profiles'[r.profile])
        BY <1>2, <1>14 DEF Answered, Reloaded, Actions
    <2> QED BY <1>3, <1>4, <1>5, <1>14, <2>1, EditorStands
<1>15. CASE op = "create"
    <2>1. PICK made : made = CHOOSE q \in 1..Len(profiles') : profiles'[q].key = r.key
        OBVIOUS
    <2>2. made \in 1..Len(profiles')
        BY <1>2, <1>3, <1>15, <2>1
    <2>3. page = Editor(made, profiles'[made])
        BY <1>2, <1>15, <2>1 DEF Answered, Created, Actions
    <2> QED BY <1>3, <1>4, <2>2, <2>3, EditorStands
<1>16. CASE op \in Actions
    <2>1. page = List
        BY <1>16 DEF Answered, Done, Actions
    <2> QED BY <1>3, <2>1, ListFields, ListStands
<1> QED BY <1>11, <1>12, <1>13, <1>14, <1>15, <1>16 DEF Calls

\* A step that moves the store, with the pages and the calls it leaves standing.
LEMMA StoreStepInv ==
    ASSUME Inv, StoreMoves, available' \subseteq Nodes, forms' \in Nat,
           pages' \in [Pages -> PageStates] /\ PagesStand', stray' \subseteq stray
    PROVE  Inv'
<1>1. StoreStands' /\ RowsMove /\ PreviewsMove /\ StoreTypes'
    BY DEF StoreMoves, StoreStands
<1>2. stray' \subseteq Requests /\ StraysStand'
    BY <1>1, StraysStay DEF Inv
<1> QED BY <1>1, <1>2 DEF Inv, TypeOK

LEMMA CarriedOutInv ==
    ASSUME Inv, NEW g \in Pages, NEW op \in Offers(g), op \in Calls, CarriedOut(g, op)
    PROVE  Inv'
<1>1. PICK page : page = Answered(g, op)
    OBVIOUS
<1>2. /\ Allowed(Request(g, op)) /\ Perform(Request(g, op)) /\ Show(g, page)
      /\ stray' \subseteq stray /\ UNCHANGED <<available, forms>>
    BY <1>1 DEF CarriedOut, StillLive
<1>3. StoreMoves /\ page \in PageStates /\ PageStands(page)'
    BY <1>1, <1>2, AnsweredStands
<1>4. pages' \in [Pages -> PageStates] /\ PagesStand'
    BY <1>2, <1>3, ShowStands DEF StoreMoves, StoreStands, Inv
<1>5. available' \subseteq Nodes /\ forms' \in Nat
    BY <1>2 DEF Inv, TypeOK
<1> QED BY <1>2, <1>3, <1>4, <1>5, StoreStepInv

LEMMA RefusedInv ==
    ASSUME Inv, NEW g \in Pages, NEW op, Refused(g, op)
    PROVE  Inv'
<1>1. PICK conflict \in BOOLEAN : conflict = Conflicts(Request(g, op))
    BY DEF Conflicts
<1>2. PICK page : page = Failed(g, op, conflict)
    OBVIOUS
<1>3. /\ Show(g, page) /\ UNCHANGED <<store, stray>>
      /\ available' \subseteq Nodes /\ forms' \in Nat
    BY <1>1, <1>2 DEF Refused, Local, Inv, TypeOK
<1>4. StoreTypes' /\ RowsMove /\ PreviewsMove
    BY <1>3, StoreAlone DEF StoreMoves, StoreStands, Inv
<1>5. page \in PageStates /\ PageStands(page)'
    BY <1>2, <1>4, FailedStands DEF Inv
<1> QED BY <1>3, <1>5, LocalInv

\* The call the page gave up is one it may still make: what it saw was true.
LEMMA GivenUpInv ==
    ASSUME Inv, NEW g \in Pages, NEW op \in Offers(g), GivenUp(g, op)
    PROVE  Inv'
<1>1. PICK page : page = Failed(g, op, FALSE)
    OBVIOUS
<1>2. PICK r : r = Request(g, op)
    OBVIOUS
<1>3. /\ Show(g, page) /\ UNCHANGED store /\ stray' \subseteq stray \cup {r}
      /\ available' \subseteq Nodes /\ forms' \in Nat
    BY <1>1, <1>2 DEF GivenUp, Inv, TypeOK
<1>4. StoreMoves
    BY <1>3, StoreAlone DEF Inv
<1>5. StoreStands' /\ StoreTypes' /\ RowsMove /\ PreviewsMove
    BY <1>4 DEF StoreMoves, StoreStands
<1>6. page \in PageStates /\ PageStands(page)'
    BY <1>1, <1>5, FailedStands DEF Inv
<1>7. pages' \in [Pages -> PageStates] /\ PagesStand'
    BY <1>3, <1>5, <1>6, ShowStands DEF Inv
<1>8. r \in Requests /\ RequestStands(r)
    BY <1>2, OfferStands
<1>9. \A q \in stray \cup {r} : q \in Requests /\ RequestStands(q)
    BY <1>8 DEF Inv, TypeOK, StraysStand
<1>10. \A q \in stray' : q \in Requests /\ RequestStands(q)'
    BY <1>3, <1>5, <1>9, RequestStays DEF Inv, TypeOK
<1>11. stray' \subseteq Requests /\ StraysStand'
    BY <1>10 DEF StraysStand
<1> QED BY <1>3, <1>5, <1>7, <1>11 DEF Inv, TypeOK

LEMMA CarryOutLateInv ==
    ASSUME Inv, NEW r \in stray, CarryOutLate(r)
    PROVE  Inv'
<1>1. r \in Requests /\ RequestStands(r)
    BY DEF Inv, TypeOK, StraysStand
<1>2. /\ Allowed(r) /\ Perform(r) /\ stray' \subseteq stray
      /\ UNCHANGED <<available, pages, forms>>
    BY DEF CarryOutLate, StillLive
<1>3. StoreMoves
    BY <1>1, <1>2, PerformMoves DEF Inv, TypeOK
<1>4. pages' \in [Pages -> PageStates] /\ PagesStand'
    BY <1>2, <1>3, PagesAlone DEF StoreMoves, StoreStands, Inv
<1>5. available' \subseteq Nodes /\ forms' \in Nat
    BY <1>2 DEF Inv, TypeOK
<1> QED BY <1>2, <1>3, <1>4, <1>5, StoreStepInv

\* What happens around the store leaves the pages as they are.
LEMMA AroundInv ==
    ASSUME Inv, StoreMoves, UNCHANGED <<pages, forms, stray>>, available' \subseteq Nodes
    PROVE  Inv'
<1>1. pages' \in [Pages -> PageStates] /\ PagesStand'
    BY PagesAlone DEF StoreMoves, StoreStands, Inv
<1>2. forms' \in Nat /\ stray' \subseteq stray
    BY DEF Inv, TypeOK
<1> QED BY <1>1, <1>2, StoreStepInv

LEMMA EnvironmentInv ==
    ASSUME Inv, Environment
    PROVE  Inv'
<1>1. CASE Adopt
    BY <1>1, AdoptMoves, AroundInv DEF Adopt, browser, Inv, TypeOK
<1>2. CASE ResetToken
    BY <1>2, ResetTokenMoves, AroundInv DEF ResetToken, browser, Inv, TypeOK
<1>3. CASE ResetInterrupted
    BY <1>3, ResetInterruptedMoves, AroundInv DEF ResetInterrupted, Inv, TypeOK
<1>4. CASE SnapshotChanges
    BY <1>4, StoreAlone, AroundInv DEF SnapshotChanges, browser, Inv
<1>5. CASE \E r \in stray : CarryOutLate(r)
    BY <1>5, CarryOutLateInv
<1> QED BY <1>1, <1>2, <1>3, <1>4, <1>5 DEF Environment

LEMMA UseInv ==
    ASSUME Inv, NEW g \in Pages, Use(g)
    PROVE  Inv'
<1>1. CASE Edit(g)
    <2>1. PICK draft \in Drafts : Edited(g, draft)
        BY <1>1 DEF Edit
    <2>2. draft \in SUBSET Nodes
        BY SubscriptionsAssumption
    <2> QED BY <1>1, <2>1, <2>2, EditedInv DEF Edit
<1>2. CASE ApplySelection(g)
    <2>1. PICK chosen \in SUBSET available : Edited(g, chosen)
        BY <1>2 DEF ApplySelection
    <2>2. chosen \in SUBSET Nodes
        BY DEF Inv, TypeOK
    <2> QED BY <1>2, <2>1, <2>2, EditedInv DEF ApplySelection
<1>3. CASE StartCreate(g)
    BY <1>3, StartCreateInv
<1>4. CASE Leave(g)
    BY <1>4, LeaveInv
<1>5. CASE \E p \in 1..Len(profiles) : OpenEditor(g, p) \/ Inspect(g, p)
    BY <1>5, OpenEditorInv, InspectInv
<1>6. CASE \E op \in Calls : Call(g, op)
    <2>1. PICK op \in Calls : Call(g, op)
        BY <1>6
    <2>2. op \in Offers(g)
        BY <2>1 DEF Call
    <2>3. CASE CarriedOut(g, op)
        BY <2>2, <2>3, CarriedOutInv
    <2>4. CASE Refused(g, op)
        BY <2>4, RefusedInv
    <2>5. CASE GivenUp(g, op)
        BY <2>2, <2>5, GivenUpInv
    <2> QED BY <2>1, <2>3, <2>4, <2>5 DEF Call
<1> QED BY <1>1, <1>2, <1>3, <1>4, <1>5, <1>6 DEF Use

LEMMA StutterInv ==
    ASSUME Inv, UNCHANGED vars
    PROVE  Inv'
<1>1. /\ UNCHANGED store /\ UNCHANGED <<pages, forms, stray>> /\ available' \subseteq Nodes
    BY DEF vars, store, Inv, TypeOK
<1> QED BY <1>1, StoreAlone, AroundInv DEF Inv

LEMMA StepInv ==
    ASSUME Inv, [Next]_vars
    PROVE  Inv'
BY EnvironmentInv, UseInv, StutterInv DEF Next

LEMMA InitInv ==
    ASSUME Init
    PROVE  Inv
<1>1. PICK list : list = List
    OBVIOUS
<1>2. pages = [g \in Pages |-> list]
    BY <1>1 DEF Init
<1>3. /\ list \in PageStates /\ list.at = "list" /\ list.form = "none" /\ list.preview = 0
      /\ ~list.waiting
    BY <1>1, ListFields
<1>4. PageStands(list)
    BY <1>3 DEF PageStands, Actions
<1>5. pages \in [Pages -> PageStates] /\ PagesStand
    BY <1>2, <1>3, <1>4 DEF PagesStand
<1>6. StoreTypes
    BY DEF Init, StoreTypes
<1>7. LinksStand /\ KeysUnique /\ RevokedLinksAreDead
    <2>1. profiles = <<>> /\ Len(profiles) = 0
        BY DEF Init
    <2> QED BY <2>1 DEF Init, LinksStand, KeysUnique, RevokedLinksAreDead
<1> QED BY <1>5, <1>6, <1>7 DEF Init, Inv, TypeOK, StoreStands, StraysStand

LEMMA SpecInv == Spec => []Inv
<1>1. Init => Inv
    BY InitInv
<1>2. Inv /\ [Next]_vars => Inv'
    BY StepInv
<1> QED BY <1>1, <1>2, PTL DEF Spec

\* A link that was rotated, reset or deleted never answers again, in the table of
\* subscriptions or in that of old clients, whatever was interrupted or came late.
THEOREM DeadForGood == Spec => []RevokedLinksAreDead
<1>1. Inv => RevokedLinksAreDead
    BY DEF Inv, StoreStands
<1> QED BY <1>1, SpecInv, PTL

\* Rows are typed, and every call on its way was true of the row it names when its
\* page made it.
THEOREM CallsSawTheirRow == Spec => [](TypeOK /\ StraysStand /\ PagesStand)
<1>1. Inv => TypeOK /\ StraysStand /\ PagesStand
    BY DEF Inv
<1> QED BY <1>1, SpecInv, PTL

--------------------------------------------------------------------------------
(***************************************************************************)
(* Who changes a row                                                       *)
(***************************************************************************)
RowKept(p) == /\ profiles'[p].version = profiles[p].version
              /\ profiles'[p].published = profiles[p].published

ChangedBySeen(p, r) ==
    /\ profiles'[p].version # profiles[p].version => r.profile = p /\ r.row = Seen(profiles[p])
    /\ profiles'[p].published # profiles[p].published =>
           /\ r.op = "publish" /\ profiles'[p].published = <<r.draft>>
           /\ previews[r.preview].rendering = Rendering(r.draft)

LEMMA ReviseOnly ==
    ASSUME StoreTypes, NEW q \in 1..Len(profiles), NEW row, Revise(q, row),
           NEW p \in 1..Len(profiles)
    PROVE  /\ p # q => profiles'[p] = profiles[p]
           /\ profiles'[q] = [row EXCEPT !.version = @ + 1]
<1>1. PICK made : made = [row EXCEPT !.version = @ + 1]
    OBVIOUS
<1>2. profiles' = [profiles EXCEPT ![q] = made]
    BY <1>1 DEF Revise
<1>3. profiles \in [1..Len(profiles) -> Rows]
    BY LenProperties DEF StoreTypes
<1> QED BY <1>1, <1>2, <1>3

\* A change other than a publication leaves what is published.
LEMMA RevisionSeen ==
    ASSUME StoreTypes, NEW r \in Requests, r.profile \in 1..Len(profiles),
           SeenStands(r.profile, r.row), SameVersion(r), NEW row \in Rows,
           Revise(r.profile, row), row.published = profiles[r.profile].published,
           NEW p \in 1..Len(profiles)
    PROVE  ChangedBySeen(p, r)
<1>1. r.row = Seen(profiles[r.profile])
    BY DEF SeenStands, SameVersion
<1>2. /\ p # r.profile => profiles'[p] = profiles[p]
      /\ profiles'[r.profile] = [row EXCEPT !.version = @ + 1]
    BY ReviseOnly
<1>3. profiles'[r.profile].published = row.published
    BY <1>2 DEF Rows
<1> QED BY <1>1, <1>2, <1>3 DEF ChangedBySeen

LEMMA PublishSeen ==
    ASSUME StoreStands, NEW r \in Requests, RequestStands(r), Allowed(r), Publish(r),
           NEW p \in 1..Len(profiles)
    PROVE  ChangedBySeen(p, r)
<1>1. /\ r.profile \in 1..Len(profiles) /\ SameVersion(r)
      /\ Publishable(previews[r.preview]) /\ r.op = "publish"
    BY AllowedFinds DEF Publish
<1>2. SeenStands(r.profile, r.row) /\ PreviewStands(r.preview, r.profile, r.row, r.draft)
    BY <1>1 DEF RequestStands
<1>3. r.row = Seen(profiles[r.profile])
    BY <1>1, <1>2 DEF SeenStands, SameVersion
<1>4. r.draft = profiles[r.profile].draft
    BY <1>2, <1>3 DEF PreviewStands, Seen
<1>5. previews[r.preview].rendering = Rendering(r.draft)
    BY <1>1, <1>2, <1>4 DEF PreviewStands, Publishable, SameRendering
<1>6. PICK row : row = [profiles[r.profile] EXCEPT !.published = <<profiles[r.profile].draft>>]
    OBVIOUS
<1>7. Revise(r.profile, row)
    BY <1>6 DEF Publish
<1>8. /\ p # r.profile => profiles'[p] = profiles[p]
      /\ profiles'[r.profile] = [row EXCEPT !.version = @ + 1]
    BY <1>1, <1>7, ReviseOnly DEF StoreStands
<1>9. profiles[r.profile] \in Rows
    BY <1>1, RowTyped DEF StoreStands
<1>10. profiles'[r.profile].published = <<r.draft>>
    BY <1>4, <1>6, <1>8, <1>9 DEF Rows
<1> QED BY <1>1, <1>3, <1>5, <1>8, <1>10 DEF ChangedBySeen

\* The other operations that change a row are let in by its version.
LEMMA ChangeSeen ==
    ASSUME StoreStands, NEW r \in Requests, RequestStands(r), Allowed(r),
           Save(r) \/ PauseOrResume(r) \/ Delete(r) \/ Rotate(r), NEW p \in 1..Len(profiles)
    PROVE  ChangedBySeen(p, r)
<1>1. r.op \in {"save", "savePreview", "pause", "resume", "delete", "rotate"}
    BY DEF Save, PauseOrResume, Delete, Rotate
<1>2. r.profile \in 1..Len(profiles) /\ SameVersion(r) /\ SeenStands(r.profile, r.row)
    BY <1>1, AllowedFinds DEF Repeated, RequestStands
<1>3. profiles[r.profile] \in Rows /\ r.draft \in SUBSET Nodes
    BY <1>2, RowTyped DEF StoreStands, Requests
<1>4. \E row \in Rows : /\ Revise(r.profile, row)
                        /\ row.published = profiles[r.profile].published
    <2>1. CASE Save(r)
        <3>1. PICK row : row = [profiles[r.profile] EXCEPT !.draft = r.draft]
            OBVIOUS
        <3>2. row \in Rows /\ row.published = profiles[r.profile].published
            BY <1>3, <3>1 DEF Rows
        <3>3. Revise(r.profile, row)
            BY <2>1, <3>1 DEF Save
        <3> QED BY <3>2, <3>3
    <2>2. CASE PauseOrResume(r)
        <3>1. PICK row : row = [profiles[r.profile] EXCEPT !.enabled = r.op = "resume"]
            OBVIOUS
        <3>2. row \in Rows /\ row.published = profiles[r.profile].published
            BY <1>3, <3>1 DEF Rows
        <3>3. Revise(r.profile, row)
            BY <2>2, <3>1 DEF PauseOrResume
        <3> QED BY <3>2, <3>3
    <2>3. CASE Delete(r)
        <3>1. PICK row : row = [profiles[r.profile] EXCEPT !.enabled = FALSE, !.deleted = TRUE]
            OBVIOUS
        <3>2. row \in Rows /\ row.published = profiles[r.profile].published
            BY <1>3, <3>1 DEF Rows
        <3>3. Revise(r.profile, row)
            BY <2>3, <3>1 DEF Delete
        <3> QED BY <3>2, <3>3
    <2>4. CASE Rotate(r)
        <3>1. PICK link \in Nat : link = links'
            BY <2>4, LinksAreBelow DEF Rotate
        <3>2. PICK row : row = [profiles[r.profile] EXCEPT !.link = link]
            OBVIOUS
        <3>3. row \in Rows /\ row.published = profiles[r.profile].published
            BY <1>3, <3>2 DEF Rows
        <3>4. Revise(r.profile, row)
            BY <2>4, <3>1, <3>2 DEF Rotate
        <3> QED BY <3>3, <3>4
    <2> QED BY <2>1, <2>2, <2>3, <2>4
<1> QED BY <1>2, <1>4, RevisionSeen DEF StoreStands

\* A new subscription, and the link of old clients, leave the rows there are.
LEMMA RowsKept ==
    ASSUME StoreStands, NEW p \in 1..Len(profiles),
           \/ \E row : profiles' = Append(Adopted, row)
           \/ profiles' = Adopted
           \/ \E link \in Nat : profiles' = Synced(Adopted, link)
    PROVE  RowKept(p)
<1>1. PICK rows : rows = Adopted
    OBVIOUS
<1>2. /\ rows \in Seq(Rows) /\ Len(profiles) <= Len(rows) /\ Len(rows) \in Nat
      /\ Default \in 1..Len(rows)
      /\ rows[p] = profiles[p] /\ \A q \in 1..Len(rows) : rows[q] \in Rows
    BY <1>1, AdoptedRows
<1>3. p \in 1..Len(rows) /\ Len(profiles) \in Nat
    BY <1>2, LenProperties DEF StoreStands, StoreTypes
<1>4. CASE \E row : profiles' = Append(Adopted, row)
    <2>1. PICK row : profiles' = Append(rows, row)
        BY <1>1, <1>4
    <2>2. profiles'[p] = rows[p]
        BY <1>2, <1>3, <2>1
    <2> QED BY <1>2, <2>2 DEF RowKept
<1>5. CASE profiles' = Adopted
    BY <1>1, <1>2, <1>5 DEF RowKept
<1>6. CASE \E link \in Nat : profiles' = Synced(Adopted, link)
    <2>1. PICK link \in Nat : profiles' = Synced(rows, link)
        BY <1>1, <1>6
    <2>2. PICK row : row = [rows[Default] EXCEPT !.link = link]
        OBVIOUS
    <2>3. profiles' = [rows EXCEPT ![Default] = row]
        BY <2>1, <2>2 DEF Synced
    <2>4. rows[Default] \in Rows
        BY <1>2
    <2>5. /\ row \in Rows /\ row.version = rows[Default].version
          /\ row.published = rows[Default].published
        BY <2>2, <2>4 DEF Rows
    <2>6. profiles'[p] = IF p = Default THEN row ELSE rows[p]
        BY <1>2, <1>3, <2>3, <2>5, ExceptSeq
    <2> QED BY <1>2, <2>5, <2>6 DEF RowKept
<1> QED BY <1>4, <1>5, <1>6

LEMMA PerformSeen ==
    ASSUME StoreStands, NEW r \in Requests, RequestStands(r), Allowed(r), Perform(r),
           NEW p \in 1..Len(profiles)
    PROVE  ChangedBySeen(p, r)
<1>1. CASE Save(r) \/ PauseOrResume(r) \/ Delete(r) \/ Rotate(r)
    BY <1>1, ChangeSeen
<1>2. CASE Publish(r)
    BY <1>2, PublishSeen
<1>3. CASE UNCHANGED profiles
    BY <1>3 DEF ChangedBySeen
<1>4. CASE Create(r) /\ profiles' # profiles
    <2>1. \E row : profiles' = Append(Adopted, row)
        BY <1>4 DEF Create, store
    <2> QED BY <2>1, RowsKept DEF RowKept, ChangedBySeen
<1> QED BY <1>1, <1>2, <1>3, <1>4 DEF Perform, Preview, Read, store

\* A step that changes a row is a call on its way, made by a page that showed it so.
LEMMA StepSeen ==
    ASSUME Inv, Next, NEW p \in 1..Len(profiles)
    PROVE  RowKept(p) \/ \E r \in InFlight : ChangedBySeen(p, r)
<1>1. CASE UNCHANGED profiles
    BY <1>1 DEF RowKept
<1>2. CASE profiles' = Adopted
    BY <1>2, RowsKept DEF Inv
<1>3. CASE ResetToken
    <2>1. links' \in Nat /\ profiles' = Synced(Adopted, links')
        BY <1>3, LinksAreBelow DEF ResetToken, Inv
    <2> QED BY <2>1, RowsKept DEF Inv
<1>4. ASSUME NEW r \in stray, CarryOutLate(r)
      PROVE  \E q \in InFlight : ChangedBySeen(p, q)
    <2>1. r \in Requests /\ RequestStands(r) /\ r \in InFlight
        BY DEF Inv, TypeOK, StraysStand, InFlight
    <2>2. ChangedBySeen(p, r)
        BY <1>4, <2>1, PerformSeen DEF CarryOutLate, Inv
    <2> QED BY <2>1, <2>2
<1>5. ASSUME NEW g \in Pages, NEW op \in Offers(g), CarriedOut(g, op)
      PROVE  \E q \in InFlight : ChangedBySeen(p, q)
    <2>1. PICK r : r = Request(g, op)
        OBVIOUS
    <2>2. r \in Requests /\ RequestStands(r)
        BY <2>1, OfferStands
    <2>3. r \in InFlight
        BY <2>1 DEF InFlight, Offered
    <2>4. ChangedBySeen(p, r)
        BY <1>5, <2>1, <2>2, PerformSeen DEF CarriedOut, Inv
    <2> QED BY <2>3, <2>4
<1>6. CASE Environment
    BY <1>1, <1>2, <1>3, <1>4, <1>6
    DEF Environment, Adopt, ResetInterrupted, SnapshotChanges, store
<1>7. ASSUME NEW g \in Pages, Use(g)
      PROVE  RowKept(p) \/ \E r \in InFlight : ChangedBySeen(p, r)
    <2>1. CASE \E op \in Calls : Call(g, op)
        <3>1. PICK op \in Calls : Call(g, op)
            BY <2>1
        <3>2. UNCHANGED profiles \/ (op \in Offers(g) /\ CarriedOut(g, op))
            BY <3>1 DEF Call, Refused, GivenUp, Local, store
        <3> QED BY <1>1, <1>5, <3>2
    <2>2. CASE ~\E op \in Calls : Call(g, op)
        <3>1. UNCHANGED profiles
            BY <1>7, <2>2 DEF Use, Edit, ApplySelection, StartCreate, Leave, OpenEditor,
                              Inspect, Local, store
        <3> QED BY <1>1, <3>1
    <2> QED BY <2>1, <2>2
<1> QED BY <1>6, <1>7 DEF Next

\* A subscription changes only by a call whose page showed it as it was, and what
\* is published is what that page had in its editor and clients get then.
THEOREM SeenBeforeAnyChange == Spec => SeenBeforeChanged
<1> DEFINE Changes ==
      /\ \A p \in 1..Len(profiles) :
           /\ profiles'[p].version # profiles[p].version =>
                  \E r \in InFlight : /\ r.profile = p
                                      /\ r.row = Seen(profiles[p])
           /\ profiles'[p].published # profiles[p].published =>
                  \E r \in InFlight :
                      /\ r.op = "publish" /\ profiles'[p].published = <<r.draft>>
                      /\ previews[r.preview].rendering = Rendering(r.draft)
      /\ \A p, q \in 1..Len(profiles') : profiles'[p].key = profiles'[q].key => p = q
<1>1. Inv /\ Inv' /\ [Next]_vars => [Changes]_profiles
    <2> SUFFICES ASSUME Inv, Inv', Next PROVE Changes
        BY DEF vars
    <2>1. \A p \in 1..Len(profiles) : RowKept(p) \/ \E r \in InFlight : ChangedBySeen(p, r)
        BY StepSeen
    <2>2. \A p, q \in 1..Len(profiles') : profiles'[p].key = profiles'[q].key => p = q
        BY DEF Inv, StoreStands, KeysUnique
    <2> QED BY <2>1, <2>2 DEF RowKept, ChangedBySeen
<1> QED BY <1>1, SpecInv, PTL DEF Spec, SeenBeforeChanged
--------------------------------------------------------------------------------
(***************************************************************************)
(* The other screens: a form that is sent again is done once               *)
(***************************************************************************)
PanelRows == [machine : Nat, configuration : Nat, user : Nat, release : Nat, made : Nat,
              status : {"pending", "active", "disabled"},
              bound : BOOLEAN, uninstalled : BOOLEAN, removed : BOOLEAN,
              names : SUBSET Nat, passkeys : SUBSET Nat, apiKeys : SUBSET Nat]

TaskRows == [kind : Web!Keyed, key : Nat,
             state : {"queued", "accepted", "succeeded", "stopped"}]

ShownRows == [version : Nat, status : {"pending", "active", "disabled"},
              bound : BOOLEAN, uninstalled : BOOLEAN, active : SUBSET Web!Keyed,
              held : BOOLEAN, stopped : SUBSET Nat, passkeys : SUBSET Nat, apiKeys : SUBSET Nat]

Locations == Web!Places \cup UNION Starts

ScreenRows == [at : Locations, shown : ShownRows, form : Web!Forms \cup {"none"}, id : Nat,
               row : Nat, preview : Nat, stale : BOOLEAN, verify : BOOLEAN, recent : BOOLEAN]

CallRows == [op : Web!Calls, form : Nat, row : Nat, key : Nat, expected : Nat]

Effects == [form : Nat, seen : Nat, found : Nat]

ScreensTypeOK ==
    /\ panel \in PanelRows
    /\ tasks \in SUBSET TaskRows
    /\ screens \in [Tabs -> ScreenRows]
    /\ uuids \in Nat
    /\ late \in SUBSET CallRows
    /\ effects \in Seq(Effects)

\* The screen of a tab asks for a change that must happen once.
Asks(screen, op) ==
    /\ op \in Web!ActsOnce
    /\ screen.form = op \/ (op = "publish" /\ screen.preview # 0)

\* A call that may still be made, or may still arrive
Pending(form, op, row) ==
    \/ \E r \in late : r.op \in Web!ActsOnce /\ r.form = form /\ r.op = op /\ r.row = row
    \/ \E t \in Tabs : Asks(screens[t], op) /\ screens[t].id = form /\ screens[t].row = row

\* A form has a number, and a preview is of the version the editor holds.
ScreenStands(screen, last) ==
    /\ screen.id <= last
    /\ screen.form # "none" => screen.id # 0 /\ screen.at \notin {"editor", "progress"}
    /\ screen.preview # 0 => screen.id # 0 /\ screen.preview = screen.row /\ screen.at = "editor"

\* A call names the version and carries the key of the form it was sent from.
CallStands(r) ==
    /\ r.form <= uuids
    /\ r.op \in Web!Versioned => r.expected = r.row
    /\ r.op \in Web!Keyed \ {"inspect"} => r.key = r.form
    /\ r.op \in Web!ActsOnce => r.form # 0

\* The panel refuses the call from now on, because it has done it before.
Spent(form, op, row) ==
    CASE op \in {"edit", "rebind"} -> row < panel.machine
      [] op \in {"profile", "disable", "enable"} -> row < panel.user
      [] op = "publish" -> row < panel.configuration
      [] op \in Web!Maintenance -> Web!KnownKey(form)
      [] op = "remove" -> panel.removed
      [] op = "remove-passkey" -> row \notin panel.passkeys /\ row <= panel.made
      [] op = "createUser" -> form \in panel.names

\* Numbers that were given out are below the next ones.
NumbersStand ==
    /\ \A k \in panel.passkeys : k <= panel.made
    /\ \A t \in Tabs : ScreenStands(screens[t], uuids)
    /\ \A r \in late : CallStands(r)
    /\ \A i \in 1..Len(effects) : effects[i].form <= uuids

\* A form is about one thing.
OneErrand ==
    \A form, row1, row2 \in Nat, op1, op2 \in Web!ActsOnce :
        Pending(form, op1, row1) /\ Pending(form, op2, row2) => op1 = op2 /\ row1 = row2

\* What was done for a form is not done for it again.
DoneIsSpent ==
    \A i \in 1..Len(effects) : \A row \in Nat, op \in Web!ActsOnce :
        Pending(effects[i].form, op, row) => Spent(effects[i].form, op, row)

ScreensInv == ScreensTypeOK /\ NumbersStand /\ OneErrand /\ DoneIsSpent /\ DoneOnceAsConfirmed

--------------------------------------------------------------------------------
\* What the panel has done stays done.
Grows ==
    /\ panel' \in PanelRows /\ tasks' \in SUBSET TaskRows
    /\ panel.machine <= panel'.machine /\ panel.user <= panel'.user
    /\ panel.configuration <= panel'.configuration /\ panel.made <= panel'.made
    /\ panel.removed => panel'.removed
    /\ panel.names \subseteq panel'.names
    /\ \A k \in panel'.passkeys : k <= panel'.made /\ (k \in panel.passkeys \/ k > panel.made)
    /\ \A key \in Nat : Web!KnownKey(key) => Web!KnownKey(key)'
    /\ \A t1, t2 \in tasks' : t1.key = t2.key => t1 = t2

\* Nothing is asked for but what was before, and what a form with a fresh number
\* asks for.
Asked ==
    \E op \in Web!ActsOnce, row \in Nat : \A form1, row1 \in Nat, op1 \in Web!ActsOnce :
        Pending(form1, op1, row1)' =>
            \/ Pending(form1, op1, row1)
            \/ form1 = uuids + 1 /\ uuids' = uuids + 1 /\ op1 = op /\ row1 = row

LEMMA Ops ==
    /\ Web!ActsOnce = {"edit", "rebind", "profile", "disable", "enable", "upgrade", "publish",
                     "uninstall", "remove", "remove-passkey", "createUser"}
    /\ Web!ActsOnce \subseteq Web!Calls /\ "none" \notin Web!ActsOnce
BY DEF Web!ActsOnce, Web!Versioned, Web!Calls, Web!Forms, Web!MachineForms, Web!UserForms,
       Web!AccountForms

LEMMA SpentStays ==
  ASSUME ScreensTypeOK, Grows, NEW form \in Nat, NEW row \in Nat, NEW op \in Web!ActsOnce,
         Spent(form, op, row)
  PROVE  Spent(form, op, row)'
<1>1. /\ panel \in PanelRows /\ panel' \in PanelRows
      /\ panel.machine <= panel'.machine /\ panel.user <= panel'.user
      /\ panel.configuration <= panel'.configuration /\ panel.made <= panel'.made
      /\ panel.removed => panel'.removed
      /\ panel.names \subseteq panel'.names
      /\ \A k \in panel'.passkeys : k \in panel.passkeys \/ k > panel.made
      /\ \A key \in Nat : Web!KnownKey(key) => Web!KnownKey(key)'
  BY DEF Grows, ScreensTypeOK
<1>2. /\ panel.machine \in Nat /\ panel.user \in Nat /\ panel.configuration \in Nat
      /\ panel'.machine \in Nat /\ panel'.user \in Nat /\ panel'.configuration \in Nat
      /\ panel.made \in Nat /\ panel'.made \in Nat
  BY <1>1 DEF PanelRows
<1>3. CASE op \in {"edit", "rebind"}
  <2>1. row < panel.machine
    BY <1>3 DEF Spent, Web!Maintenance
  <2>2. row < panel'.machine
    BY <1>1, <1>2, <2>1
  <2> QED  BY <1>3, <2>2 DEF Spent, Web!Maintenance
<1>4. CASE op \in {"profile", "disable", "enable"}
  <2>1. row < panel.user
    BY <1>4 DEF Spent, Web!Maintenance
  <2>2. row < panel'.user
    BY <1>1, <1>2, <2>1
  <2> QED  BY <1>4, <2>2 DEF Spent, Web!Maintenance
<1>5. CASE op = "publish"
  BY <1>1, <1>2, <1>5 DEF Spent, Web!Maintenance
<1>6. CASE op \in Web!Maintenance
  BY <1>1, <1>6 DEF Spent, Web!Maintenance
<1>7. CASE op = "remove"
  BY <1>1, <1>7 DEF Spent, Web!Maintenance
<1>8. CASE op = "remove-passkey"
  BY <1>1, <1>2, <1>8 DEF Spent, Web!Maintenance
<1>9. CASE op = "createUser"
  BY <1>1, <1>9 DEF Spent, Web!Maintenance
<1> QED  BY <1>3, <1>4, <1>5, <1>6, <1>7, <1>8, <1>9, Ops DEF Web!Maintenance

LEMMA PendingBelow ==
  ASSUME ScreensInv, NEW form \in Nat, NEW row \in Nat, NEW op \in Web!ActsOnce,
         Pending(form, op, row)
  PROVE  form <= uuids
BY DEF ScreensInv, Pending, NumbersStand, ScreenStands, CallStands

\* A step keeps the invariant when it asks for nothing old in a new way, undoes
\* nothing, and does nothing that has been done.
LEMMA StepKeeps ==
  ASSUME ScreensInv, ScreensTypeOK', Grows, Asked, uuids' \in {uuids, uuids + 1},
         \A t \in Tabs : ScreenStands(screens'[t], uuids'),
         \A r \in late' : CallStands(r)',
         \/ effects' = effects
         \/ \E form, row \in Nat, op \in Web!ActsOnce :
               /\ Pending(form, op, row) /\ ~Spent(form, op, row) /\ Spent(form, op, row)'
               /\ effects' = Append(effects, [form |-> form, seen |-> row, found |-> row])
  PROVE  ScreensInv'
<1>1. uuids \in Nat /\ uuids <= uuids' /\ effects \in Seq(Effects) /\ effects' \in Seq(Effects)
  BY DEF ScreensInv, ScreensTypeOK
<1>2. OneErrand'
  <2>1. PICK op \in Web!ActsOnce, row \in Nat : \A form1, row1 \in Nat, op1 \in Web!ActsOnce :
          Pending(form1, op1, row1)' =>
            \/ Pending(form1, op1, row1)
            \/ form1 = uuids + 1 /\ uuids' = uuids + 1 /\ op1 = op /\ row1 = row
    BY DEF Asked
  <2>2. SUFFICES ASSUME NEW form \in Nat, NEW row1 \in Nat, NEW row2 \in Nat,
                        NEW op1 \in Web!ActsOnce, NEW op2 \in Web!ActsOnce,
                        Pending(form, op1, row1)', Pending(form, op2, row2)'
                 PROVE  op1 = op2 /\ row1 = row2
    BY DEF OneErrand
  <2>3. CASE Pending(form, op1, row1) /\ Pending(form, op2, row2)
    BY <2>3 DEF ScreensInv, OneErrand
  <2>4. CASE ~Pending(form, op1, row1)
    <3>1. form = uuids + 1 /\ op1 = op /\ row1 = row
      BY <2>1, <2>2, <2>4
    <3>2. ~Pending(form, op2, row2)
      BY <1>1, <3>1, PendingBelow
    <3> QED  BY <2>1, <2>2, <3>1, <3>2
  <2>5. CASE ~Pending(form, op2, row2)
    <3>1. form = uuids + 1 /\ op2 = op /\ row2 = row
      BY <2>1, <2>2, <2>5
    <3>2. ~Pending(form, op1, row1)
      BY <1>1, <3>1, PendingBelow
    <3> QED  BY <2>1, <2>2, <3>1, <3>2
  <2> QED  BY <2>3, <2>4, <2>5
<1>3. ASSUME NEW form \in Nat, NEW row \in Nat, NEW op \in Web!ActsOnce, form <= uuids,
             Pending(form, op, row)'
      PROVE  Pending(form, op, row)
  BY <1>1, <1>3 DEF Asked
<1>4. ASSUME NEW i \in 1..Len(effects)
      PROVE  /\ effects[i] \in Effects /\ effects[i].form \in Nat /\ effects[i].form <= uuids
             /\ effects[i].seen = effects[i].found
  <2>1. effects[i] \in Effects
    BY <1>1
  <2>2. effects[i].form \in Nat
    BY <2>1 DEF Effects
  <2> QED  BY <2>1, <2>2 DEF ScreensInv, NumbersStand, DoneOnceAsConfirmed
<1>5. ASSUME NEW i \in 1..Len(effects), NEW form \in Nat, form = effects[i].form,
             NEW row \in Nat, NEW op \in Web!ActsOnce, Pending(form, op, row)'
      PROVE  Spent(form, op, row)'
  <2>1. Pending(form, op, row)
    BY <1>3, <1>4, <1>5
  <2>2. Spent(form, op, row)
    BY <1>5, <2>1 DEF ScreensInv, DoneIsSpent
  <2>3. ScreensTypeOK
    BY DEF ScreensInv
  <2> QED  BY <2>2, <2>3, SpentStays
<1>6. NumbersStand' /\ DoneIsSpent' /\ DoneOnceAsConfirmed'
  <2>1. CASE effects' = effects
    <3>1. NumbersStand'
      BY <1>1, <1>4, <2>1 DEF NumbersStand, Grows
    <3>2. DoneIsSpent'
      BY <1>4, <1>5, <2>1 DEF DoneIsSpent
    <3>3. DoneOnceAsConfirmed'
      BY <2>1 DEF ScreensInv, DoneOnceAsConfirmed, Grows
    <3> QED  BY <3>1, <3>2, <3>3
  <2>2. CASE effects' # effects
    <3>1. PICK form \in Nat, row \in Nat, op \in Web!ActsOnce :
            /\ Pending(form, op, row) /\ ~Spent(form, op, row) /\ Spent(form, op, row)'
            /\ effects' = Append(effects, [form |-> form, seen |-> row, found |-> row])
      BY <2>2
    <3>2. PICK n, new : n = Len(effects) /\ new = [form |-> form, seen |-> row, found |-> row]
      OBVIOUS
    <3>3. /\ Len(effects') = n + 1 /\ n \in Nat /\ effects'[n + 1] = new
          /\ \A i \in 1..n : effects'[i] = effects[i]
      BY <1>1, <3>1, <3>2, AppendProperties DEF Effects
    <3>4. new.form = form /\ new.seen = row /\ new.found = row
      BY <3>2
    <3>5. form <= uuids
      BY <3>1, PendingBelow
    <3>6. \A i \in 1..n : effects[i].form # form
      <4>1. SUFFICES ASSUME NEW i \in 1..n, effects[i].form = form PROVE FALSE
        OBVIOUS
      <4>2. Spent(form, op, row)
        BY <3>1, <3>2, <4>1 DEF ScreensInv, DoneIsSpent
      <4> QED  BY <3>1, <4>2
    <3>7. ASSUME NEW i \in 1..n + 1
          PROVE  i \in 1..n \/ (i = n + 1 /\ effects'[i] = new)
      BY <3>3
    <3>8. \A i \in 1..n + 1 : effects'[i].form <= uuids'
      BY <1>1, <1>4, <3>2, <3>3, <3>4, <3>5, <3>7
    <3>9. NumbersStand'
      BY <3>3, <3>8 DEF NumbersStand, Grows
    <3>10. DoneIsSpent'
      <4>1. SUFFICES ASSUME NEW i \in 1..n + 1, NEW form1 \in Nat, form1 = effects'[i].form,
                            NEW row1 \in Nat, NEW op1 \in Web!ActsOnce,
                            Pending(form1, op1, row1)'
                     PROVE  Spent(form1, op1, row1)'
        BY <1>4, <3>2, <3>3, <3>4, <3>7 DEF DoneIsSpent
      <4>2. CASE i \in 1..n
        BY <1>5, <3>2, <3>3, <4>1, <4>2
      <4>3. CASE i = n + 1
        <5>1. form1 = form
          BY <3>3, <3>4, <4>1, <4>3
        <5>2. Pending(form1, op1, row1)
          BY <1>3, <3>5, <4>1, <5>1
        <5>3. op1 = op /\ row1 = row
          BY <3>1, <5>1, <5>2 DEF ScreensInv, OneErrand
        <5> QED  BY <3>1, <5>1, <5>3
      <4> QED  BY <3>7, <4>2, <4>3
    <3>11. DoneOnceAsConfirmed'
      <4>1. \A i \in 1..n + 1 : effects'[i].seen = effects'[i].found
        BY <1>4, <3>2, <3>3, <3>4, <3>7
      <4>2. \A i, j \in 1..n + 1 : effects'[i].form = effects'[j].form => i = j
        <5>1. \A i, j \in 1..n : effects'[i].form = effects'[j].form => i = j
          BY <3>2, <3>3 DEF ScreensInv, DoneOnceAsConfirmed
        <5>2. \A i \in 1..n : effects'[i].form # effects'[n + 1].form
          BY <3>3, <3>4, <3>6
        <5> QED  BY <3>7, <5>1, <5>2
      <4> QED  BY <3>3, <4>1, <4>2 DEF DoneOnceAsConfirmed, Grows
    <3> QED  BY <3>9, <3>10, <3>11
  <2> QED  BY <2>1, <2>2
<1> QED  BY <1>2, <1>6 DEF ScreensInv
--------------------------------------------------------------------------------
LEMMA TasksGrow ==
  ASSUME ScreensInv, NEW r \in CallRows, tasks' = Web!TasksAfter(r),
         r.op \in Web!Keyed => ~Web!KnownKey(r.key)
  PROVE  /\ tasks' \in SUBSET TaskRows
         /\ \A key \in Nat : Web!KnownKey(key) => Web!KnownKey(key)'
         /\ r.op \in Web!Keyed => Web!KnownKey(r.key)'
         /\ \A t1, t2 \in tasks' : t1.key = t2.key => t1 = t2
<1> DEFINE After(t) == IF Web!Ends(r, t) THEN [t EXCEPT !.state = "stopped"] ELSE t
           new == [kind |-> r.op, key |-> r.key, state |-> "queued"]
<1>1. /\ tasks \in SUBSET TaskRows
      /\ \A t1, t2 \in tasks : t1.key = t2.key => t1 = t2
  BY DEF ScreensInv, ScreensTypeOK, DoneOnceAsConfirmed
<1>2. \A t \in tasks : After(t) \in TaskRows /\ After(t).key = t.key
  BY <1>1 DEF TaskRows
<1>3. r.op \in Web!Keyed => new \in TaskRows /\ new.key = r.key
  BY DEF CallRows, TaskRows
<1>4. tasks' = {After(t) : t \in tasks} \cup (IF r.op \in Web!Keyed THEN {new} ELSE {})
  BY DEF Web!TasksAfter
<1> HIDE DEF After, new
<1>5. \A x \in tasks' : \/ \E t \in tasks : x = After(t)
                        \/ r.op \in Web!Keyed /\ x = new
  BY <1>4
<1>6. tasks' \in SUBSET TaskRows
  BY <1>2, <1>3, <1>5
<1>7. \A key \in Nat : Web!KnownKey(key) => Web!KnownKey(key)'
  BY <1>2, <1>4 DEF Web!KnownKey
<1>8. r.op \in Web!Keyed => Web!KnownKey(r.key)'
  BY <1>3, <1>4 DEF Web!KnownKey
<1>9. ASSUME NEW x \in tasks', NEW y \in tasks', x.key = y.key PROVE x = y
  <2>1. CASE (\E t \in tasks : x = After(t)) /\ (\E t \in tasks : y = After(t))
    BY <1>1, <1>2, <1>9, <2>1
  <2>2. CASE r.op \in Web!Keyed /\ x = new /\ y = new
    BY <2>2
  <2>3. CASE r.op \in Web!Keyed /\ (\E t \in tasks : x = After(t)) /\ y = new
    BY <1>2, <1>3, <1>9, <2>3 DEF Web!KnownKey
  <2>4. CASE r.op \in Web!Keyed /\ (\E t \in tasks : y = After(t)) /\ x = new
    BY <1>2, <1>3, <1>9, <2>4 DEF Web!KnownKey
  <2> QED  BY <1>5, <2>1, <2>2, <2>3, <2>4
<1> QED  BY <1>6, <1>7, <1>8, <1>9

Numbers == {"machine", "configuration", "user", "made"}

\* Nothing else that a screen relies on has changed.
SameBut(row, field) ==
    /\ \A other \in Numbers \ {field} : row[other] = panel[other]
    /\ row.removed = panel.removed /\ row.names = panel.names
    /\ row.passkeys = panel.passkeys /\ row.apiKeys = panel.apiKeys

\* One number of the rows rises.
LEMMA RowBumped ==
  ASSUME panel \in PanelRows, NEW field \in Numbers \cup {"release"}
  PROVE  /\ Web!Bumped(field) \in PanelRows
         /\ Web!Bumped(field)[field] = panel[field] + 1
         /\ SameBut(Web!Bumped(field), field)
BY DEF Web!Bumped, PanelRows, Numbers, SameBut

\* How a call leaves the rows
RowsGrow ==
    /\ panel' \in PanelRows
    /\ panel.machine <= panel'.machine /\ panel.user <= panel'.user
    /\ panel.configuration <= panel'.configuration /\ panel.made <= panel'.made
    /\ panel.removed => panel'.removed
    /\ panel.names \subseteq panel'.names
    /\ \A k \in panel'.passkeys : k <= panel'.made /\ (k \in panel.passkeys \/ k > panel.made)

LEMMA PerformRows ==
  ASSUME ScreensInv, NEW r \in CallRows, panel' = Web!RowsAfter(r)
  PROVE  RowsGrow
<1>1. panel \in PanelRows /\ \A k \in panel.passkeys : k <= panel.made
  BY DEF ScreensInv, ScreensTypeOK, NumbersStand
<1>2. /\ panel.machine \in Nat /\ panel.user \in Nat /\ panel.configuration \in Nat
      /\ panel.made \in Nat /\ panel.passkeys \subseteq Nat /\ panel.apiKeys \subseteq Nat
      /\ panel.names \subseteq Nat
  BY <1>1 DEF PanelRows
<1>3. CASE r.op \in {"edit", "token"}
  <2>1. panel' = Web!Bumped("machine")
    BY <1>3 DEF Web!RowsAfter, Web!MachineAfter, Web!UserForms, Web!AccountForms
  <2> QED  BY <1>1, <1>2, <2>1 DEF RowsGrow, Web!Bumped, PanelRows
<1>4. CASE r.op = "rebind"
  <2>1. panel' = Web!MachineAfter(r)
    BY <1>4 DEF Web!RowsAfter, Web!UserForms, Web!AccountForms
  <2>2. panel' = [Web!Bumped("machine") EXCEPT !.bound = FALSE, !.uninstalled = FALSE]
    BY <1>4, <2>1 DEF Web!MachineAfter
  <2>3. PICK row, off : row = Web!Bumped("machine") /\ off = FALSE
    OBVIOUS
  <2>4. row \in PanelRows /\ row.machine = panel.machine + 1 /\ SameBut(row, "machine")
    BY <1>1, <2>3, RowBumped DEF Numbers
  <2>5. off \in BOOLEAN /\ panel' = [row EXCEPT !.bound = off, !.uninstalled = off]
    BY <2>2, <2>3
  <2>6. panel' \in PanelRows
    BY <2>4, <2>5 DEF PanelRows
  <2>7. /\ panel'.machine = row.machine /\ panel'.user = row.user /\ panel'.made = row.made
        /\ panel'.configuration = row.configuration /\ panel'.removed = row.removed
        /\ panel'.names = row.names /\ panel'.passkeys = row.passkeys
    BY <2>4, <2>5 DEF PanelRows
  <2> QED  BY <1>1, <1>2, <2>4, <2>6, <2>7 DEF RowsGrow, SameBut, Numbers
<1>5. CASE r.op = "remove"
  <2>1. panel' = Web!MachineAfter(r)
    BY <1>5 DEF Web!RowsAfter, Web!UserForms, Web!AccountForms
  <2>2. panel' = [panel EXCEPT !.removed = TRUE]
    BY <1>5, <2>1 DEF Web!MachineAfter
  <2>3. PICK on : on = TRUE
    OBVIOUS
  <2>4. on \in BOOLEAN /\ panel' = [panel EXCEPT !.removed = on]
    BY <2>2, <2>3
  <2>5. panel' \in PanelRows
    BY <1>1, <2>4 DEF PanelRows
  <2>6. /\ panel'.machine = panel.machine /\ panel'.user = panel.user /\ panel'.made = panel.made
        /\ panel'.configuration = panel.configuration /\ panel'.removed = on
        /\ panel'.names = panel.names /\ panel'.passkeys = panel.passkeys
    BY <1>1, <2>4 DEF PanelRows
  <2> QED  BY <1>1, <1>2, <2>3, <2>5, <2>6 DEF RowsGrow
<1>6. CASE r.op = "profile"
  <2>1. panel' = Web!Bumped("user")
    BY <1>6 DEF Web!RowsAfter, Web!UserAfter, Web!UserForms, Web!AccountForms
  <2> QED  BY <1>1, <1>2, <2>1 DEF RowsGrow, Web!Bumped, PanelRows
<1>7. CASE r.op \in {"disable", "enable"}
  <2>1. panel' = Web!UserAfter(r)
    BY <1>7 DEF Web!RowsAfter, Web!UserForms, Web!AccountForms
  <2>2. PICK row : row = Web!Bumped("user")
    OBVIOUS
  <2>3. row \in PanelRows /\ row.user = panel.user + 1 /\ SameBut(row, "user")
    BY <1>1, <2>2, RowBumped DEF Numbers
  <2>4. PICK status \in {"active", "disabled"} : panel' = [row EXCEPT !.status = status]
    BY <1>7, <2>1, <2>2 DEF Web!UserAfter
  <2> QED  BY <1>1, <1>2, <2>3, <2>4 DEF RowsGrow, PanelRows, SameBut, Numbers
<1>8. CASE r.op = "createUser"
  <2>1. panel' = [panel EXCEPT !.names = @ \cup {r.form}] /\ r.form \in Nat
    BY <1>8 DEF Web!RowsAfter, Web!UserAfter, Web!UserForms, Web!AccountForms, CallRows
  <2> QED  BY <1>1, <1>2, <2>1 DEF RowsGrow, PanelRows
<1>9. CASE r.op = "passkey"
  <2>1. panel' = Web!AccountAfter(r)
    BY <1>9 DEF Web!RowsAfter, Web!UserForms, Web!AccountForms
  <2>2. PICK row : row = Web!Bumped("made")
    OBVIOUS
  <2>3. row \in PanelRows /\ row.made = panel.made + 1 /\ SameBut(row, "made")
    BY <1>1, <2>2, RowBumped DEF Numbers
  <2>4. panel' = [row EXCEPT !.passkeys = @ \cup {panel.made + 1}]
    BY <1>9, <2>1, <2>2 DEF Web!AccountAfter
  <2> QED  BY <1>1, <1>2, <2>3, <2>4 DEF RowsGrow, PanelRows, SameBut, Numbers
<1>10. CASE r.op = "key"
  <2>1. panel' = Web!AccountAfter(r)
    BY <1>10 DEF Web!RowsAfter, Web!UserForms, Web!AccountForms
  <2>2. PICK row : row = Web!Bumped("made")
    OBVIOUS
  <2>3. row \in PanelRows /\ row.made = panel.made + 1 /\ SameBut(row, "made")
    BY <1>1, <2>2, RowBumped DEF Numbers
  <2>4. panel' = [row EXCEPT !.apiKeys = @ \cup {panel.made + 1}]
    BY <1>10, <2>1, <2>2 DEF Web!AccountAfter
  <2> QED  BY <1>1, <1>2, <2>3, <2>4 DEF RowsGrow, PanelRows, SameBut, Numbers
<1>11. CASE r.op = "remove-passkey"
  <2>1. panel' = [panel EXCEPT !.passkeys = @ \ {r.row}]
    BY <1>11 DEF Web!RowsAfter, Web!AccountAfter, Web!UserForms, Web!AccountForms
  <2> QED  BY <1>1, <1>2, <2>1 DEF RowsGrow, PanelRows
<1>12. CASE r.op = "revoke-key"
  <2>1. panel' = [panel EXCEPT !.apiKeys = @ \ {r.row}]
    BY <1>12 DEF Web!RowsAfter, Web!AccountAfter, Web!UserForms, Web!AccountForms
  <2> QED  BY <1>1, <1>2, <2>1 DEF RowsGrow, PanelRows
<1>13. CASE r.op = "publish"
  <2>1. panel' = Web!Bumped("configuration")
    BY <1>13 DEF Web!RowsAfter, Web!UserForms, Web!AccountForms
  <2> QED  BY <1>1, <1>2, <2>1 DEF RowsGrow, Web!Bumped, PanelRows
<1>14. CASE r.op \in {"link", "password"}
  <2>1. panel' = panel
    BY <1>14 DEF Web!RowsAfter, Web!UserAfter, Web!AccountAfter, Web!UserForms,
                 Web!AccountForms
  <2> QED  BY <1>1, <1>2, <2>1 DEF RowsGrow
<1>15. CASE r.op \in {"createMachine", "inspect", "preview", "upgrade", "uninstall"}
  <2>1. panel' = panel
    BY <1>15 DEF Web!RowsAfter, Web!UserForms, Web!AccountForms
  <2> QED  BY <1>1, <1>2, <2>1 DEF RowsGrow
<1>16. r.op \in Web!Calls
  BY DEF CallRows
<1> QED
  BY <1>3, <1>4, <1>5, <1>6, <1>7, <1>8, <1>9, <1>10, <1>11, <1>12, <1>13, <1>14, <1>15,
     <1>16
  DEF Web!Calls, Web!Forms, Web!MachineForms, Web!UserForms, Web!AccountForms

\* A call that acts once is refused when it has been carried out, and has been
\* carried out when it is.
LEMMA PerformSpends ==
  ASSUME ScreensInv, NEW r \in CallRows, CallStands(r), Web!Allowed(r), Web!Perform(r)
  PROVE  /\ Grows
         /\ effects' \in Seq(Effects)
         /\ \/ r.op \notin Web!ActsOnce /\ effects' = effects
            \/ /\ r.op \in Web!ActsOnce
               /\ ~Spent(r.form, r.op, r.row) /\ Spent(r.form, r.op, r.row)'
               /\ effects' = Append(effects, [form |-> r.form, seen |-> r.row, found |-> r.row])
<1>1. /\ r.op \in Web!Calls /\ r.form \in Nat /\ r.row \in Nat /\ r.key \in Nat
      /\ panel \in PanelRows
  BY DEF ScreensInv, ScreensTypeOK, CallRows
<1>2. panel' = Web!RowsAfter(r) /\ tasks' = Web!TasksAfter(r)
  BY DEF Web!Perform
<1>3. r.op \in Web!Keyed => ~Web!KnownKey(r.key) /\ ~panel.removed
  BY DEF Web!Allowed, Web!MachineAllows, Web!Keyed, Web!Maintenance, Web!MachineForms
<1>4. /\ tasks' \in SUBSET TaskRows
      /\ \A key \in Nat : Web!KnownKey(key) => Web!KnownKey(key)'
      /\ r.op \in Web!Keyed => Web!KnownKey(r.key)'
      /\ \A t1, t2 \in tasks' : t1.key = t2.key => t1 = t2
  BY <1>2, <1>3, TasksGrow
<1>5. RowsGrow
  BY <1>2, PerformRows
<1>6. Grows
  BY <1>4, <1>5 DEF Grows, RowsGrow
<1>7. /\ r.op \in Web!Versioned => r.row = panel[Web!Subject(r.op)]
      /\ r.op \in Web!Keyed \ {"inspect"} => r.key = r.form
  BY DEF Web!Allowed, Web!Current, CallStands
<1>8. r.op \in Web!ActsOnce =>
        effects' = Append(effects, [form |-> r.form, seen |-> r.row, found |-> r.row])
  BY <1>7 DEF Web!Perform
<1>9. r.op \notin Web!ActsOnce => effects' = effects
  BY DEF Web!Perform
<1>10. effects' \in Seq(Effects)
  <2>1. effects \in Seq(Effects)
    BY DEF ScreensInv, ScreensTypeOK
  <2>2. [form |-> r.form, seen |-> r.row, found |-> r.row] \in Effects
    BY <1>1 DEF Effects
  <2> QED  BY <1>8, <1>9, <2>1, <2>2, AppendProperties
<1>11. ASSUME r.op \in Web!ActsOnce
       PROVE  ~Spent(r.form, r.op, r.row) /\ Spent(r.form, r.op, r.row)'
  <2>1. /\ panel.machine \in Nat /\ panel.user \in Nat /\ panel.configuration \in Nat
        /\ panel.made \in Nat
    BY <1>1 DEF PanelRows
  <2>2. CASE r.op \in {"edit", "rebind"}
    <3>1. r.row = panel.machine
      BY <1>7, <2>2 DEF Web!Versioned, Web!Subject
    <3>2. panel' = Web!MachineAfter(r)
      BY <1>2, <2>2 DEF Web!RowsAfter, Web!UserForms, Web!AccountForms
    <3>3. PICK row, off : row = Web!Bumped("machine") /\ off = FALSE
      OBVIOUS
    <3>4. row \in PanelRows /\ row.machine = panel.machine + 1
      BY <1>1, <3>3, RowBumped DEF Numbers
    <3>5. panel' = row \/ panel' = [row EXCEPT !.bound = off, !.uninstalled = off]
      BY <2>2, <3>2, <3>3 DEF Web!MachineAfter
    <3>6. panel'.machine = panel.machine + 1
      <4>1. "machine" \in DOMAIN row
        BY <3>4 DEF PanelRows
      <4>2. CASE panel' = row
        BY <3>4, <4>2
      <4>3. CASE panel' = [row EXCEPT !.bound = off, !.uninstalled = off]
        BY <3>4, <4>1, <4>3
      <4> QED  BY <3>5, <4>2, <4>3
    <3>7. ~(r.row < panel.machine) /\ r.row < panel'.machine
      BY <2>1, <3>1, <3>6
    <3> QED  BY <2>2, <3>7 DEF Spent, Web!Maintenance
  <2>3. CASE r.op \in {"profile", "disable", "enable"}
    <3>1. r.row = panel.user
      BY <1>7, <2>3 DEF Web!Versioned, Web!Subject
    <3>2. panel' = Web!UserAfter(r)
      BY <1>2, <2>3 DEF Web!RowsAfter, Web!UserForms, Web!AccountForms
    <3>3. PICK row : row = Web!Bumped("user")
      OBVIOUS
    <3>4. row \in PanelRows /\ row.user = panel.user + 1
      BY <1>1, <3>3, RowBumped DEF Numbers
    <3>5. panel' = row \/ \E status : panel' = [row EXCEPT !.status = status]
      BY <2>3, <3>2, <3>3 DEF Web!UserAfter
    <3>6. panel'.user = panel.user + 1
      <4>1. "user" \in DOMAIN row
        BY <3>4 DEF PanelRows
      <4>2. CASE panel' = row
        BY <3>4, <4>2
      <4>3. CASE \E status : panel' = [row EXCEPT !.status = status]
        BY <3>4, <4>1, <4>3
      <4> QED  BY <3>5, <4>2, <4>3
    <3>7. ~(r.row < panel.user) /\ r.row < panel'.user
      BY <2>1, <3>1, <3>6
    <3> QED  BY <2>3, <3>7 DEF Spent, Web!Maintenance
  <2>4. CASE r.op = "publish"
    <3>1. r.row = panel.configuration
      BY <1>7, <2>4 DEF Web!Versioned, Web!Subject
    <3>2. panel' = Web!Bumped("configuration")
      BY <1>2, <2>4 DEF Web!RowsAfter, Web!UserForms, Web!AccountForms
    <3>3. PICK row : row = Web!Bumped("configuration")
      OBVIOUS
    <3>4. row.configuration = panel.configuration + 1
      BY <1>1, <3>3, RowBumped DEF Numbers
    <3>5. panel'.configuration = panel.configuration + 1
      BY <3>2, <3>3, <3>4
    <3>7. ~(r.row < panel.configuration) /\ r.row < panel'.configuration
      BY <2>1, <3>1, <3>5
    <3> QED  BY <2>4, <3>7 DEF Spent, Web!Maintenance
  <2>5. CASE r.op \in Web!Maintenance
    <3>1. r.op \in Web!Keyed \ {"inspect"}
      BY <2>5 DEF Web!Keyed, Web!Maintenance
    <3>2. ~Web!KnownKey(r.form) /\ Web!KnownKey(r.form)'
      BY <1>3, <1>4, <1>7, <3>1
    <3> QED  BY <2>5, <3>2 DEF Spent, Web!Maintenance
  <2>6. CASE r.op = "remove"
    <3>1. ~panel.removed
      BY <2>6 DEF Web!Allowed, Web!MachineAllows, Web!MachineForms
    <3>2. panel' = Web!MachineAfter(r)
      BY <1>2, <2>6 DEF Web!RowsAfter, Web!UserForms, Web!AccountForms
    <3>3. panel' = [panel EXCEPT !.removed = TRUE]
      BY <2>6, <3>2 DEF Web!MachineAfter
    <3>4. "removed" \in DOMAIN panel
      BY <1>1 DEF PanelRows
    <3>5. panel'.removed
      BY <3>3, <3>4
    <3> QED  BY <2>6, <3>1, <3>5 DEF Spent, Web!Maintenance
  <2>7. CASE r.op = "remove-passkey"
    <3>1. r.row \in panel.passkeys
      BY <2>7 DEF Web!Allowed, Web!AccountAllows, Web!AccountForms
    <3>2. panel' = Web!AccountAfter(r)
      BY <1>2, <2>7 DEF Web!RowsAfter, Web!UserForms, Web!AccountForms
    <3>3. panel' = [panel EXCEPT !.passkeys = @ \ {r.row}]
      BY <2>7, <3>2 DEF Web!AccountAfter
    <3>4. r.row \notin panel'.passkeys /\ panel'.made = panel.made
      BY <1>1, <3>3 DEF PanelRows
    <3>5. r.row <= panel.made
      BY <3>1 DEF ScreensInv, NumbersStand
    <3> QED  BY <2>7, <3>1, <3>4, <3>5 DEF Spent, Web!Maintenance
  <2>8. CASE r.op = "createUser"
    <3>1. r.form \notin panel.names
      BY <2>8 DEF Web!Allowed, Web!UserAllows, Web!UserForms
    <3>2. panel' = Web!UserAfter(r)
      BY <1>2, <2>8 DEF Web!RowsAfter, Web!UserForms, Web!AccountForms
    <3>3. panel' = [panel EXCEPT !.names = @ \cup {r.form}]
      BY <2>8, <3>2 DEF Web!UserAfter
    <3>4. r.form \in panel'.names
      BY <1>1, <3>3 DEF PanelRows
    <3> QED  BY <2>8, <3>1, <3>4 DEF Spent, Web!Maintenance
  <2> QED  BY <1>11, <2>2, <2>3, <2>4, <2>5, <2>6, <2>7, <2>8, Ops DEF Web!Maintenance
<1> QED  BY <1>6, <1>8, <1>9, <1>10, <1>11

--------------------------------------------------------------------------------
\* Nothing is asked for that was not before.
LEMMA StillAsked ==
  ASSUME ScreensInv, UNCHANGED <<screens, uuids>>, late' \subseteq late
  PROVE  /\ Asked /\ uuids' \in {uuids, uuids + 1}
         /\ \A t \in Tabs : ScreenStands(screens'[t], uuids')
         /\ \A r \in late' : CallStands(r)'
<1>1. \A form, row \in Nat, op \in Web!ActsOnce :
        Pending(form, op, row)' => Pending(form, op, row)
  BY DEF Pending
<1>2. Asked
  <2>1. 0 \in Nat /\ "edit" \in Web!ActsOnce
    BY Ops
  <2> QED  BY <1>1, <2>1 DEF Asked
<1> QED  BY <1>2 DEF ScreensInv, NumbersStand, CallStands

LEMMA OneTask ==
  ASSUME ScreensInv, NEW t \in tasks, NEW new \in TaskRows, new.key = t.key,
         tasks' = (tasks \ {t}) \cup {new}
  PROVE  /\ tasks' \in SUBSET TaskRows
         /\ \A key \in Nat : Web!KnownKey(key) => Web!KnownKey(key)'
         /\ \A t1, t2 \in tasks' : t1.key = t2.key => t1 = t2
<1>1. /\ tasks \in SUBSET TaskRows
      /\ \A t1, t2 \in tasks : t1.key = t2.key => t1 = t2
  BY DEF ScreensInv, ScreensTypeOK, DoneOnceAsConfirmed
<1>2. \A key \in Nat : Web!KnownKey(key) => Web!KnownKey(key)'
  <2>1. SUFFICES ASSUME NEW key \in Nat, NEW u \in tasks, u.key = key
                 PROVE  \E v \in tasks' : v.key = key
    BY DEF Web!KnownKey
  <2>2. CASE u = t
    BY <2>1, <2>2
  <2>3. CASE u # t
    BY <2>1, <2>3
  <2> QED  BY <2>2, <2>3
<1>3. \A t1, t2 \in tasks' : t1.key = t2.key => t1 = t2
  BY <1>1
<1> QED  BY <1>1, <1>2, <1>3

\* The same rows
LEMMA RowsStay ==
  ASSUME ScreensInv, panel' = panel
  PROVE  RowsGrow
<1>1. panel \in PanelRows /\ \A k \in panel.passkeys : k <= panel.made
  BY DEF ScreensInv, ScreensTypeOK, NumbersStand
<1>2. /\ panel.machine \in Nat /\ panel.user \in Nat /\ panel.configuration \in Nat
      /\ panel.made \in Nat
  BY <1>1 DEF PanelRows
<1> QED  BY <1>1, <1>2 DEF RowsGrow

\* The same tasks
LEMMA TasksStay ==
  ASSUME ScreensInv, tasks' = tasks
  PROVE  /\ tasks' \in SUBSET TaskRows
         /\ \A key \in Nat : Web!KnownKey(key) => Web!KnownKey(key)'
         /\ \A t1, t2 \in tasks' : t1.key = t2.key => t1 = t2
BY DEF ScreensInv, ScreensTypeOK, DoneOnceAsConfirmed, Web!KnownKey

\* What the panel does by itself
LEMMA ElsewhereKeeps ==
  ASSUME ScreensInv, Web!Elsewhere, Grows
  PROVE  ScreensInv'
<1>1. ScreensTypeOK'
  BY DEF ScreensInv, ScreensTypeOK, Web!Elsewhere, Grows
<1>2. UNCHANGED <<screens, uuids, effects>> /\ late' \subseteq late
  BY DEF Web!Elsewhere
<1> QED  BY <1>1, <1>2, StillAsked, StepKeeps

LEMMA NodeAcceptsKeeps == ASSUME ScreensInv, Web!NodeAccepts PROVE ScreensInv'
<1>1. PICK t \in tasks : tasks' = (tasks \ {t}) \cup {[t EXCEPT !.state = "accepted"]}
  BY DEF Web!NodeAccepts
<1>2. PICK new : new = [t EXCEPT !.state = "accepted"]
  OBVIOUS
<1>3. new \in TaskRows /\ new.key = t.key
  BY <1>2 DEF ScreensInv, ScreensTypeOK, TaskRows
<1>4. RowsGrow
  BY RowsStay DEF Web!NodeAccepts
<1>5. Grows
  BY <1>1, <1>2, <1>3, <1>4, OneTask DEF Grows, RowsGrow
<1> QED  BY <1>5, ElsewhereKeeps DEF Web!NodeAccepts

LEMMA NodeReportsKeeps == ASSUME ScreensInv, Web!NodeReports PROVE ScreensInv'
<1>1. PICK t \in tasks, result \in {"succeeded", "stopped"} :
        /\ tasks' = (tasks \ {t}) \cup {[t EXCEPT !.state = result]}
        /\ panel' = [panel EXCEPT !.uninstalled =
                       @ \/ (result = "succeeded" /\ t.kind = "uninstall")]
  BY DEF Web!NodeReports
<1>2. PICK new : new = [t EXCEPT !.state = result]
  OBVIOUS
<1>3. new \in TaskRows /\ new.key = t.key
  BY <1>2 DEF ScreensInv, ScreensTypeOK, TaskRows
<1>4. PICK gone \in BOOLEAN : panel' = [panel EXCEPT !.uninstalled = gone]
  BY <1>1
<1>5. panel \in PanelRows /\ \A k \in panel.passkeys : k <= panel.made
  BY DEF ScreensInv, ScreensTypeOK, NumbersStand
<1>6. panel' \in PanelRows
  BY <1>4, <1>5 DEF PanelRows
<1>7. /\ panel'.machine = panel.machine /\ panel'.user = panel.user /\ panel'.made = panel.made
      /\ panel'.configuration = panel.configuration /\ panel'.removed = panel.removed
      /\ panel'.names = panel.names /\ panel'.passkeys = panel.passkeys
  BY <1>4, <1>5 DEF PanelRows
<1>8. /\ panel.machine \in Nat /\ panel.user \in Nat /\ panel.configuration \in Nat
      /\ panel.made \in Nat
  BY <1>5 DEF PanelRows
<1>9. tasks' = (tasks \ {t}) \cup {new}
  BY <1>1, <1>2
<1>10. Grows
  BY <1>3, <1>5, <1>6, <1>7, <1>8, <1>9, OneTask DEF Grows
<1> QED  BY <1>10, ElsewhereKeeps DEF Web!NodeReports

LEMMA NodeEnrollsKeeps == ASSUME ScreensInv, Web!NodeEnrolls PROVE ScreensInv'
<1>1. PICK bound \in BOOLEAN : panel' = [panel EXCEPT !.bound = bound]
  BY DEF Web!NodeEnrolls
<1>2. panel \in PanelRows /\ \A k \in panel.passkeys : k <= panel.made
  BY DEF ScreensInv, ScreensTypeOK, NumbersStand
<1>3. panel' \in PanelRows
  BY <1>1, <1>2 DEF PanelRows
<1>4. /\ panel'.machine = panel.machine /\ panel'.user = panel.user /\ panel'.made = panel.made
      /\ panel'.configuration = panel.configuration /\ panel'.removed = panel.removed
      /\ panel'.names = panel.names /\ panel'.passkeys = panel.passkeys
  BY <1>1, <1>2 DEF PanelRows
<1>5. /\ panel.machine \in Nat /\ panel.user \in Nat /\ panel.configuration \in Nat
      /\ panel.made \in Nat
  BY <1>2 DEF PanelRows
<1>6. tasks' = tasks
  BY DEF Web!NodeEnrolls
<1>7. Grows
  BY <1>2, <1>3, <1>4, <1>5, <1>6, TasksStay DEF Grows
<1> QED  BY <1>7, ElsewhereKeeps DEF Web!NodeEnrolls

\* A release, a revision and an activation raise a number.
LEMMA BumpKeeps ==
  ASSUME ScreensInv, NEW field \in Numbers \cup {"release"}, field # "made", Web!Elsewhere,
         tasks' = tasks,
         \/ panel' = Web!Bumped(field)
         \/ \E status \in {"active", "disabled"} :
                panel' = [Web!Bumped(field) EXCEPT !.status = status]
  PROVE  ScreensInv'
<1>1. PICK row : row = Web!Bumped(field)
  OBVIOUS
<1>2. panel \in PanelRows /\ \A k \in panel.passkeys : k <= panel.made
  BY DEF ScreensInv, ScreensTypeOK, NumbersStand
<1>3. row \in PanelRows /\ row[field] = panel[field] + 1 /\ SameBut(row, field)
  BY <1>1, <1>2, RowBumped
<1>4. panel' \in PanelRows
  BY <1>1, <1>3 DEF PanelRows
<1>5. /\ \A other \in Numbers : panel'[other] = row[other]
      /\ panel'.removed = row.removed /\ panel'.names = row.names /\ panel'.passkeys = row.passkeys
  <2>1. CASE panel' = row
    BY <2>1
  <2>2. CASE \E status : panel' = [row EXCEPT !.status = status]
    BY <1>3, <2>2 DEF PanelRows, Numbers
  <2> QED  BY <1>1, <2>1, <2>2
<1>6. /\ panel.machine \in Nat /\ panel.user \in Nat /\ panel.configuration \in Nat
      /\ panel.made \in Nat
  BY <1>2 DEF PanelRows
<1>7. \A other \in Numbers : panel[other] <= panel'[other]
  BY <1>3, <1>5, <1>6 DEF SameBut, Numbers
<1>8. panel'.made = panel.made
  BY <1>3, <1>5 DEF SameBut, Numbers
<1>9. Grows
  BY <1>2, <1>3, <1>4, <1>5, <1>7, <1>8, TasksStay DEF Grows, SameBut, Numbers
<1> QED  BY <1>9, ElsewhereKeeps

LEMMA PanelAloneKeeps ==
  ASSUME ScreensInv, Web!NewRelease \/ Web!Reconcile \/ Web!Activate
  PROVE  ScreensInv'
<1>1. CASE Web!NewRelease
  BY <1>1, BumpKeeps DEF Web!NewRelease
<1>2. CASE Web!Reconcile
  BY <1>2, BumpKeeps DEF Web!Reconcile, Numbers
<1>3. CASE Web!Activate
  BY <1>3, BumpKeeps DEF Web!Activate, Numbers
<1> QED  BY <1>1, <1>2, <1>3

LEMMA ArriveLateKeeps ==
  ASSUME ScreensInv, NEW r \in late, Web!ArriveLate(r)
  PROVE  ScreensInv'
<1>1. UNCHANGED <<screens, uuids>> /\ late' \subseteq late
  BY DEF Web!ArriveLate
<1>2. r \in CallRows /\ CallStands(r) /\ r.form \in Nat /\ r.row \in Nat
  BY DEF ScreensInv, ScreensTypeOK, NumbersStand, CallRows
<1>3. CASE Web!Allowed(r) /\ Web!Perform(r)
  <2>1. /\ Grows /\ effects' \in Seq(Effects)
        /\ \/ r.op \notin Web!ActsOnce /\ effects' = effects
           \/ /\ r.op \in Web!ActsOnce
              /\ ~Spent(r.form, r.op, r.row) /\ Spent(r.form, r.op, r.row)'
              /\ effects' = Append(effects, [form |-> r.form, seen |-> r.row, found |-> r.row])
    BY <1>2, <1>3, PerformSpends
  <2>2. ScreensTypeOK'
    BY <1>1, <2>1 DEF ScreensInv, ScreensTypeOK, Grows
  <2>3. r.op \in Web!ActsOnce => Pending(r.form, r.op, r.row)
    BY DEF Pending
  <2> QED  BY <1>1, <1>2, <2>1, <2>2, <2>3, StillAsked, StepKeeps
<1>4. CASE UNCHANGED Web!store
  <2>1. panel' = panel /\ tasks' = tasks /\ effects' = effects
    BY <1>4 DEF Web!store
  <2>2. Grows
    BY <2>1, RowsStay, TasksStay DEF Grows, RowsGrow
  <2>3. ScreensTypeOK'
    BY <1>1, <2>1 DEF ScreensInv, ScreensTypeOK
  <2> QED  BY <1>1, <2>1, <2>2, <2>3, StillAsked, StepKeeps
<1> QED  BY <1>3, <1>4 DEF Web!ArriveLate

--------------------------------------------------------------------------------
\* What a screen shows is made of rows and tasks.
LEMMA ViewsTyped ==
  ASSUME panel \in PanelRows, tasks \in SUBSET TaskRows, NEW place
  PROVE  Web!View(place) \in ShownRows
<1>1. /\ panel.machine \in Nat /\ panel.configuration \in Nat /\ panel.user \in Nat
      /\ panel.status \in {"pending", "active", "disabled"} /\ panel.bound \in BOOLEAN
      /\ panel.uninstalled \in BOOLEAN /\ panel.passkeys \in SUBSET Nat
      /\ panel.apiKeys \in SUBSET Nat
  BY DEF PanelRows
<1>2. \A t \in tasks : t.kind \in Web!Keyed /\ t.key \in Nat
  BY DEF TaskRows
<1>3. Web!Nothing \in ShownRows
  BY DEF Web!Nothing, ShownRows
<1>4. Web!MachineShown \in ShownRows
  <2>1. PICK held, active : /\ held = (\E t \in tasks : t.state = "accepted")
                             /\ active = {t.kind : t \in Web!Unfinished}
    OBVIOUS
  <2>2. held \in BOOLEAN /\ active \in SUBSET Web!Keyed
    BY <1>2, <2>1 DEF Web!Unfinished
  <2>3. Web!MachineShown = [Web!Nothing EXCEPT
                               !.version = panel.machine, !.bound = panel.bound,
                               !.uninstalled = panel.uninstalled,
                               !.active = active, !.held = held]
    BY <2>1 DEF Web!MachineShown
  <2> QED  BY <1>1, <1>3, <2>2, <2>3 DEF ShownRows
<1>5. Web!EditorShown \in ShownRows
  BY <1>1, <1>3 DEF Web!EditorShown, ShownRows
<1>6. Web!ProgressShown \in ShownRows
  <2>1. PICK stopped \in SUBSET Nat :
          Web!ProgressShown = [Web!Nothing EXCEPT !.version = panel.configuration,
                                                  !.stopped = stopped]
    BY <1>2 DEF Web!ProgressShown
  <2> QED  BY <1>1, <1>3, <2>1 DEF ShownRows
<1>7. Web!UserShown \in ShownRows
  BY <1>1, <1>3 DEF Web!UserShown, ShownRows
<1>8. Web!AccountShown \in ShownRows
  BY <1>1, <1>3 DEF Web!AccountShown, ShownRows
<1> QED  BY <1>3, <1>4, <1>5, <1>6, <1>7, <1>8 DEF Web!View

LEMMA ViewsTypedAfter ==
  ASSUME panel' \in PanelRows, tasks' \in SUBSET TaskRows
  PROVE  Web!MachineShown' \in ShownRows /\ Web!ProgressShown' \in ShownRows
<1>1. panel'.machine \in Nat /\ panel'.configuration \in Nat /\ panel'.bound \in BOOLEAN
      /\ panel'.uninstalled \in BOOLEAN
  BY DEF PanelRows
<1>2. \A t \in tasks' : t.kind \in Web!Keyed /\ t.key \in Nat
  BY DEF TaskRows
<1>3. Web!Nothing \in ShownRows
  BY DEF Web!Nothing, ShownRows
<1>4. Web!MachineShown' \in ShownRows
  <2>1. PICK held, active : /\ held = (\E t \in tasks' : t.state = "accepted")
                             /\ active = {t.kind : t \in Web!Unfinished'}
    OBVIOUS
  <2>2. held \in BOOLEAN /\ active \in SUBSET Web!Keyed
    BY <1>2, <2>1 DEF Web!Unfinished
  <2>3. Web!MachineShown' = [Web!Nothing EXCEPT
                                !.version = panel'.machine, !.bound = panel'.bound,
                                !.uninstalled = panel'.uninstalled,
                                !.active = active, !.held = held]
    BY <2>1 DEF Web!MachineShown, Web!Nothing
  <2> QED  BY <1>1, <1>3, <2>2, <2>3 DEF ShownRows
<1>5. Web!ProgressShown' \in ShownRows
  <2>1. PICK stopped \in SUBSET Nat :
          Web!ProgressShown' = [Web!Nothing EXCEPT !.version = panel'.configuration,
                                                   !.stopped = stopped]
    BY <1>2 DEF Web!ProgressShown, Web!Nothing
  <2> QED  BY <1>1, <1>3, <2>1 DEF ShownRows
<1> QED  BY <1>4, <1>5

\* The screen asks for no more than before.
Continues(old, new) ==
    /\ new.form # "none" => new.form = old.form /\ new.id = old.id /\ new.row = old.row
    /\ new.preview # 0 => new.preview = old.preview /\ new.id = old.id /\ new.row = old.row

\* One tab's screen changes: it asks for no more, or has a number of its own.
LEMMA OneScreen ==
  ASSUME ScreensInv, NEW t \in Tabs, NEW new \in ScreenRows,
         screens' = [screens EXCEPT ![t] = new],
         uuids' \in {uuids, uuids + 1}, ScreenStands(new, uuids'),
         Continues(screens[t], new) \/ (uuids' = uuids + 1 /\ new.id = uuids'),
         \A r \in late' : r \in late \/ (r \in CallRows /\ CallStands(r)'),
         \A r \in late' \ late : r.op \in Web!ActsOnce =>
            Asks(screens[t], r.op) /\ r.form = screens[t].id /\ r.row = screens[t].row
  PROVE  /\ screens' \in [Tabs -> ScreenRows] /\ uuids' \in Nat /\ late' \in SUBSET CallRows
         /\ Asked
         /\ \A u \in Tabs : ScreenStands(screens'[u], uuids')
         /\ \A r \in late' : CallStands(r)'
<1>1. /\ screens \in [Tabs -> ScreenRows] /\ uuids \in Nat /\ late \in SUBSET CallRows
      /\ \A u \in Tabs : ScreenStands(screens[u], uuids)
      /\ \A r \in late : CallStands(r)
  BY DEF ScreensInv, ScreensTypeOK, NumbersStand
<1>2. /\ screens' \in [Tabs -> ScreenRows] /\ screens'[t] = new
      /\ \A u \in Tabs \ {t} : screens'[u] = screens[u]
  BY <1>1
<1>3. late' \in SUBSET CallRows
  BY <1>1
<1>4. ASSUME NEW u \in Tabs PROVE ScreenStands(screens'[u], uuids')
  <2>1. screens[u].id \in Nat
    BY <1>1 DEF ScreenRows
  <2>2. CASE u = t
    BY <1>2, <2>2
  <2>3. CASE u # t
    BY <1>1, <1>2, <2>1, <2>3 DEF ScreenStands
  <2> QED  BY <2>2, <2>3
<1>5. ASSUME NEW r \in late' PROVE CallStands(r)'
  <2>1. CASE r \in late
    BY <1>1, <2>1 DEF CallStands, CallRows
  <2> QED  BY <2>1
<1>6. PICK op \in Web!ActsOnce :
        \A op1 \in Web!ActsOnce : new.id # 0 /\ Asks(new, op1) => op1 = op
  <2>1. CASE new.preview # 0
    <3>1. new.form = "none"
      BY <2>1 DEF ScreenStands
    <3>2. "publish" \in Web!ActsOnce
      BY Ops
    <3> QED  BY <3>1, <3>2, Ops DEF Asks
  <2>2. CASE new.preview = 0 /\ new.form \in Web!ActsOnce
    BY <2>2 DEF Asks
  <2>3. CASE new.preview = 0 /\ new.form \notin Web!ActsOnce
    BY <2>3, Ops DEF Asks
  <2> QED  BY <2>1, <2>2, <2>3
<1>7. new.row \in Nat /\ new.id \in Nat /\ new.preview \in Nat
  BY DEF ScreenRows
<1>8. ASSUME NEW form1 \in Nat, NEW row1 \in Nat, NEW op1 \in Web!ActsOnce,
             Pending(form1, op1, row1)'
      PROVE  \/ Pending(form1, op1, row1)
             \/ form1 = uuids + 1 /\ uuids' = uuids + 1 /\ op1 = op /\ row1 = new.row
  <2>1. ASSUME NEW r \in late', r.op \in Web!ActsOnce, r.form = form1, r.op = op1, r.row = row1
        PROVE  Pending(form1, op1, row1)
    BY <2>1 DEF Pending
  <2>2. ASSUME NEW u \in Tabs, u # t, Asks(screens'[u], op1), screens'[u].id = form1,
               screens'[u].row = row1
        PROVE  Pending(form1, op1, row1)
    BY <1>2, <2>2 DEF Pending
  <2>3. ASSUME Asks(new, op1), new.id = form1, new.row = row1
        PROVE  \/ Pending(form1, op1, row1)
               \/ form1 = uuids + 1 /\ uuids' = uuids + 1 /\ op1 = op /\ row1 = new.row
    <3>1. new.id # 0
      BY <2>3, Ops DEF Asks, ScreenStands
    <3>2. op1 = op
      BY <1>6, <2>3, <3>1
    <3>3. CASE Continues(screens[t], new)
      <4>1. /\ new.form = op1 => new.form # "none"
            /\ op1 \in Web!ActsOnce
        BY Ops
      <4>2. Asks(screens[t], op1) /\ new.id = screens[t].id /\ new.row = screens[t].row
        BY <2>3, <3>3, <4>1 DEF Continues, Asks
      <4> QED  BY <2>3, <4>2 DEF Pending
    <3>4. CASE uuids' = uuids + 1 /\ new.id = uuids'
      BY <2>3, <3>2, <3>4
    <3> QED  BY <3>3, <3>4
  <2>4. \/ \E r \in late' : r.op \in Web!ActsOnce /\ r.form = form1 /\ r.op = op1 /\ r.row = row1
        \/ \E u \in Tabs : Asks(screens'[u], op1) /\ screens'[u].id = form1
                           /\ screens'[u].row = row1
    BY <1>8 DEF Pending, Asks
  <2> QED  BY <1>2, <2>1, <2>2, <2>3, <2>4
<1>9. Asked
  BY <1>7, <1>8 DEF Asked
<1> QED  BY <1>1, <1>2, <1>3, <1>4, <1>5, <1>9

\* The panel's state stays.
LEMMA LocalKeeps ==
  ASSUME ScreensInv, NEW t \in Tabs, NEW new \in ScreenRows,
         screens' = [screens EXCEPT ![t] = new],
         uuids' \in {uuids, uuids + 1}, ScreenStands(new, uuids'),
         Continues(screens[t], new) \/ (uuids' = uuids + 1 /\ new.id = uuids'),
         \A r \in late' : r \in late \/ (r \in CallRows /\ CallStands(r)'),
         \A r \in late' \ late : r.op \in Web!ActsOnce =>
            Asks(screens[t], r.op) /\ r.form = screens[t].id /\ r.row = screens[t].row,
         UNCHANGED Web!store
  PROVE  ScreensInv'
<1>1. /\ screens' \in [Tabs -> ScreenRows] /\ uuids' \in Nat /\ late' \in SUBSET CallRows
      /\ Asked
      /\ \A u \in Tabs : ScreenStands(screens'[u], uuids')
      /\ \A r \in late' : CallStands(r)'
  BY OneScreen
<1>2. panel' = panel /\ tasks' = tasks /\ effects' = effects
  BY DEF Web!store
<1>3. Grows
  BY <1>2, RowsStay, TasksStay DEF Grows, RowsGrow
<1>4. ScreensTypeOK'
  BY <1>1, <1>2 DEF ScreensInv, ScreensTypeOK
<1> QED  BY <1>1, <1>2, <1>3, <1>4, StepKeeps

--------------------------------------------------------------------------------
LEMMA ScreenTyped ==
  ASSUME ScreensInv, NEW t \in Tabs
  PROVE  /\ screens[t] \in ScreenRows /\ ScreenStands(screens[t], uuids) /\ uuids \in Nat
         /\ panel \in PanelRows /\ tasks \in SUBSET TaskRows
BY DEF ScreensInv, ScreensTypeOK, NumbersStand

LEMMA ShowKeeps ==
  ASSUME ScreensInv, NEW t \in Tabs, NEW new \in ScreenRows, Web!Show(t, new), Web!Local,
         ScreenStands(new, uuids), Continues(screens[t], new)
  PROVE  ScreensInv'
<1>1. /\ screens' = [screens EXCEPT ![t] = new] /\ uuids' = uuids /\ late' = late
      /\ UNCHANGED Web!store
  BY DEF Web!Show, Web!Local
<1>2. \A r \in late' : r \in late
  BY <1>1
<1>3. \A r \in late' \ late : FALSE
  BY <1>1
<1> QED  BY <1>1, <1>2, <1>3, LocalKeeps

\* A closed form asks for nothing.
LEMMA ClosedStands ==
  ASSUME NEW screen \in ScreenRows, NEW last \in Nat, ScreenStands(screen, last),
         screen.preview = 0
  PROVE  /\ Web!Closed(screen) \in ScreenRows /\ ScreenStands(Web!Closed(screen), last)
         /\ Web!Closed(screen).form = "none" /\ Web!Closed(screen).preview = 0
         /\ Continues(screen, Web!Closed(screen))
<1>1. PICK new : new = Web!Closed(screen)
  OBVIOUS
<1>2. PICK off \in BOOLEAN :
        new = [screen EXCEPT !.form = "none", !.id = 0, !.row = 0, !.stale = off,
                             !.verify = off]
  BY <1>1 DEF Web!Closed
<1>3. new \in ScreenRows /\ new.form = "none" /\ new.preview = 0 /\ new.id = 0
  BY <1>2 DEF ScreenRows
<1> QED  BY <1>1, <1>3 DEF ScreenStands, Continues

\* A page that was just opened asks for nothing.
LEMMA OpenedStands ==
  ASSUME NEW place \in Locations, NEW last \in Nat, panel \in PanelRows,
         tasks \in SUBSET TaskRows
  PROVE  /\ Web!Screen(place) \in ScreenRows /\ ScreenStands(Web!Screen(place), last)
         /\ Web!Screen(place).form = "none" /\ Web!Screen(place).preview = 0
         /\ Web!Screen(place).id = 0
         /\ Web!Screen(place).at = place
<1>1. PICK shown : shown = Web!View(place) /\ shown \in ShownRows
  BY ViewsTyped
<1>2. Web!Screen(place) = [at |-> place, shown |-> shown, form |-> "none", id |-> 0, row |-> 0,
                       preview |-> 0, stale |-> FALSE, verify |-> FALSE, recent |-> TRUE]
  BY <1>1 DEF Web!Screen
<1> QED  BY <1>1, <1>2 DEF ScreenRows, ScreenStands

LEMMA PollKeeps == ASSUME ScreensInv, NEW t \in Tabs, Web!Poll(t) PROVE ScreensInv'
<1>1. /\ screens[t] \in ScreenRows /\ ScreenStands(screens[t], uuids) /\ uuids \in Nat
      /\ Web!View(screens[t].at) \in ShownRows
  BY ScreenTyped, ViewsTyped
<1>2. PICK old, shown, screen : /\ old = screens[t] /\ shown = Web!View(screens[t].at)
                                /\ screen = [old EXCEPT !.shown = shown]
  OBVIOUS
<1>3. /\ screen \in ScreenRows /\ screen.form = old.form /\ screen.id = old.id
      /\ screen.row = old.row /\ screen.preview = old.preview /\ screen.at = old.at
  BY <1>1, <1>2 DEF ScreenRows
<1>4. ScreenStands(screen, uuids) /\ Continues(old, screen)
  BY <1>1, <1>2, <1>3 DEF ScreenStands, Continues
<1>5. Web!Show(t, screen) \/ (screen.form = "upgrade" /\ Web!Show(t, Web!Closed(screen)))
  BY <1>2 DEF Web!Poll
<1>6. Web!Local
  BY DEF Web!Poll
<1>7. CASE Web!Show(t, screen)
  BY <1>2, <1>3, <1>4, <1>6, <1>7, ShowKeeps
<1>8. CASE screen.form = "upgrade" /\ Web!Show(t, Web!Closed(screen))
  <2>1. screen.preview = 0
    BY <1>4, <1>8 DEF ScreenStands
  <2>2. /\ Web!Closed(screen) \in ScreenRows /\ ScreenStands(Web!Closed(screen), uuids)
        /\ Continues(screen, Web!Closed(screen))
    BY <1>1, <1>3, <1>4, <2>1, ClosedStands
  <2>3. Continues(old, Web!Closed(screen))
    BY <1>3, <2>2 DEF Continues
  <2> QED  BY <1>2, <1>6, <1>8, <2>2, <2>3, ShowKeeps
<1> QED  BY <1>5, <1>7, <1>8

LEMMA ReloadKeeps == ASSUME ScreensInv, NEW t \in Tabs, Web!Reload(t) PROVE ScreensInv'
<1>1. /\ screens[t] \in ScreenRows /\ ScreenStands(screens[t], uuids)
      /\ Web!View(screens[t].at) \in ShownRows
  BY ScreenTyped, ViewsTyped
<1>2. PICK old, shown, screen : /\ old = screens[t] /\ shown = Web!View(screens[t].at)
                                /\ screen = [old EXCEPT !.shown = shown]
  OBVIOUS
<1>3. /\ screen \in ScreenRows /\ screen.form = old.form /\ screen.id = old.id
      /\ screen.row = old.row /\ screen.preview = old.preview /\ screen.at = old.at
  BY <1>1, <1>2 DEF ScreenRows
<1>4. ScreenStands(screen, uuids) /\ Continues(old, screen)
  BY <1>1, <1>2, <1>3 DEF ScreenStands, Continues
<1> QED  BY <1>2, <1>3, <1>4, ShowKeeps DEF Web!Reload

LEMMA CloseKeeps == ASSUME ScreensInv, NEW t \in Tabs, Web!Close(t) PROVE ScreensInv'
<1>1. screens[t] \in ScreenRows /\ ScreenStands(screens[t], uuids) /\ uuids \in Nat
  BY ScreenTyped
<1>2. screens[t].preview = 0
  BY <1>1 DEF Web!Close, ScreenStands
<1>3. /\ Web!Closed(screens[t]) \in ScreenRows /\ ScreenStands(Web!Closed(screens[t]), uuids)
      /\ Continues(screens[t], Web!Closed(screens[t]))
  BY <1>1, <1>2, ClosedStands
<1>4. Web!Show(t, Web!Closed(screens[t])) /\ Web!Local
  BY DEF Web!Close
<1> QED  BY <1>3, <1>4, ShowKeeps

\* The editor with a version and no preview
LEMMA EditorOpened ==
  ASSUME ScreensInv, NEW version \in Nat
  PROVE  LET new == [Web!Screen("editor") EXCEPT !.row = version]
         IN  new \in ScreenRows /\ ScreenStands(new, uuids) /\ \A old : Continues(old, new)
<1>1. panel \in PanelRows /\ tasks \in SUBSET TaskRows /\ uuids \in Nat /\ "editor" \in Locations
  BY DEF ScreensInv, ScreensTypeOK, Web!Places, Locations
<1>2. PICK screen, new : screen = Web!Screen("editor") /\ new = [screen EXCEPT !.row = version]
  OBVIOUS
<1>3. /\ screen \in ScreenRows /\ screen.form = "none" /\ screen.preview = 0 /\ screen.id = 0
  BY <1>1, <1>2, OpenedStands
<1>4. /\ new \in ScreenRows /\ new.form = "none" /\ new.preview = 0 /\ new.id = 0
  BY <1>2, <1>3 DEF ScreenRows
<1> QED  BY <1>1, <1>2, <1>4 DEF ScreenStands, Continues

LEMMA EditorKeeps ==
  ASSUME ScreensInv, NEW t \in Tabs, Web!OpenEditor(t) \/ Web!EditAgain(t)
  PROVE  ScreensInv'
<1>1. PICK version \in Nat :
        Web!Show(t, [Web!Screen("editor") EXCEPT !.row = version]) /\ Web!Local
  <2>1. screens[t] \in ScreenRows /\ panel \in PanelRows
    BY ScreenTyped
  <2>2. /\ screens[t].row \in Nat /\ screens[t].shown.version \in Nat
        /\ panel.configuration \in Nat
    BY <2>1 DEF ScreenRows, ShownRows, PanelRows
  <2>3. CASE Web!OpenEditor(t)
    BY <2>2, <2>3 DEF Web!OpenEditor
  <2>4. CASE Web!EditAgain(t)
    BY <2>2, <2>4 DEF Web!EditAgain
  <2> QED  BY <2>3, <2>4
<1>2. PICK new : new = [Web!Screen("editor") EXCEPT !.row = version]
  OBVIOUS
<1>3. new \in ScreenRows /\ ScreenStands(new, uuids) /\ Continues(screens[t], new)
  BY <1>2, EditorOpened
<1> QED  BY <1>1, <1>2, <1>3, ShowKeeps

LEMMA EditKeeps == ASSUME ScreensInv, NEW t \in Tabs, Web!Edit(t) PROVE ScreensInv'
<1>1. screens[t] \in ScreenRows /\ ScreenStands(screens[t], uuids) /\ uuids \in Nat
  BY ScreenTyped
<1>2. PICK old, new : old = screens[t] /\ new = [old EXCEPT !.preview = 0, !.id = 0]
  OBVIOUS
<1>3. /\ new \in ScreenRows /\ new.form = old.form /\ new.preview = 0 /\ new.id = 0
  BY <1>1, <1>2 DEF ScreenRows
<1>4. new.form = "none"
  BY <1>1, <1>2, <1>3 DEF Web!Edit, ScreenStands
<1>5. ScreenStands(new, uuids) /\ Continues(old, new)
  BY <1>1, <1>3, <1>4 DEF ScreenStands, Continues
<1> QED  BY <1>2, <1>3, <1>5, ShowKeeps DEF Web!Edit

LEMMA SignInKeeps ==
  ASSUME ScreensInv, NEW t \in Tabs, NEW op,
         Web!Ages(t) \/ Web!Verify(t) \/ Web!MustVerify(t, op)
  PROVE  ScreensInv'
<1>1. screens[t] \in ScreenRows /\ ScreenStands(screens[t], uuids)
  BY ScreenTyped
<1>2. PICK old : old = screens[t]
  OBVIOUS
<1>3. PICK new : /\ Web!Show(t, new) /\ Web!Local
                 /\ new \in ScreenRows /\ new.form = old.form /\ new.id = old.id
                 /\ new.row = old.row /\ new.preview = old.preview /\ new.at = old.at
  <2>1. CASE Web!Ages(t)
    <3>1. PICK recent \in BOOLEAN : Web!Show(t, [old EXCEPT !.recent = recent]) /\ Web!Local
      BY <1>2, <2>1 DEF Web!Ages
    <3>2. PICK new : new = [old EXCEPT !.recent = recent]
      OBVIOUS
    <3> QED  BY <1>1, <1>2, <3>1, <3>2 DEF ScreenRows
  <2>2. CASE Web!Verify(t)
    <3>1. PICK off \in BOOLEAN, recent \in BOOLEAN :
            Web!Show(t, [old EXCEPT !.verify = off, !.recent = recent]) /\ Web!Local
      BY <1>2, <2>2 DEF Web!Verify
    <3>2. PICK new : new = [old EXCEPT !.verify = off, !.recent = recent]
      OBVIOUS
    <3>3. new \in ScreenRows
      BY <1>1, <1>2, <3>2 DEF ScreenRows
    <3>4. /\ new.form = old.form /\ new.id = old.id
          /\ new.row = old.row /\ new.preview = old.preview /\ new.at = old.at
      BY <1>1, <1>2, <3>2 DEF ScreenRows
    <3> QED  BY <3>1, <3>2, <3>3, <3>4
  <2>3. CASE Web!MustVerify(t, op)
    <3>1. PICK on \in BOOLEAN : Web!Show(t, [old EXCEPT !.verify = on]) /\ Web!Local
      BY <1>2, <2>3 DEF Web!MustVerify
    <3>2. PICK new : new = [old EXCEPT !.verify = on]
      OBVIOUS
    <3> QED  BY <1>1, <1>2, <3>1, <3>2 DEF ScreenRows
  <2> QED  BY <2>1, <2>2, <2>3
<1>4. ScreenStands(new, uuids) /\ Continues(old, new)
  BY <1>1, <1>2, <1>3 DEF ScreenStands, Continues
<1> QED  BY <1>2, <1>3, <1>4, ShowKeeps

\* A screen with nothing to send
LEMMA QuietStands ==
  ASSUME NEW new \in ScreenRows, new.form = "none", new.preview = 0, NEW last,
         new.id <= last
  PROVE  ScreenStands(new, last) /\ \A old : Continues(old, new)
BY DEF ScreenStands, Continues

LEMMA OffersTyped ==
  ASSUME NEW screen \in ScreenRows, NEW offer \in Web!Offers(screen)
  PROVE  /\ offer[1] \in Web!Forms /\ offer[2] \in Nat
         /\ screen.at \notin {"editor", "progress"}
<1>1. PICK shown \in ShownRows : shown = screen.shown
  BY DEF ScreenRows
<1>2. /\ shown.version \in Nat /\ shown.passkeys \subseteq Nat /\ shown.apiKeys \subseteq Nat
      /\ shown.status \in {"pending", "active", "disabled"}
  BY <1>1 DEF ShownRows
<1>3. CASE screen.at = "machines"
  BY <1>3 DEF Web!Offers, Web!Forms
<1>4. CASE screen.at = "machine"
  <2>1. offer \in Web!HeadingOffers(shown) \cup Web!MaintenanceOffers(shown)
    BY <1>1, <1>4 DEF Web!Offers
  <2>2. \/ offer = <<"edit", shown.version>> \/ offer = <<"rebind", shown.version>>
        \/ offer = <<"remove", 0>> \/ offer = <<"token", 0>> \/ offer = <<"uninstall", 0>>
    BY <2>1 DEF Web!HeadingOffers, Web!MaintenanceOffers, Web!InformationOffers
  <2> QED  BY <1>2, <1>4, <2>2 DEF Web!Forms, Web!MachineForms
<1>5. CASE screen.at = "users"
  <2>1. offer \in Web!UserOffers(shown)
    BY <1>1, <1>5 DEF Web!Offers
  <2>2. \/ offer = <<"createUser", 0>> \/ offer = <<"profile", shown.version>>
        \/ offer = <<"link", 0>> \/ offer = <<"disable", shown.version>>
        \/ offer = <<"enable", shown.version>>
    BY <1>2, <2>1 DEF Web!UserOffers
  <2> QED  BY <1>2, <1>5, <2>2 DEF Web!Forms, Web!UserForms
<1>6. CASE screen.at = "account"
  <2>1. offer \in Web!SignInOffers(shown) \cup Web!KeyOffers(shown)
    BY <1>1, <1>6 DEF Web!Offers
  <2>2. \/ offer = <<"passkey", 0>> \/ offer = <<"password", 0>> \/ offer = <<"key", 0>>
        \/ \E k \in Nat : offer = <<"remove-passkey", k>> \/ offer = <<"revoke-key", k>>
    BY <1>2, <2>1 DEF Web!SignInOffers, Web!KeyOffers
  <2> QED  BY <1>6, <2>2 DEF Web!Forms, Web!AccountForms
<1>7. screen.at \in {"machines", "machine", "users", "account"}
  BY DEF Web!Offers
<1> QED  BY <1>3, <1>4, <1>5, <1>6, <1>7

\* A form that is opened has a number of its own.
LEMMA FormOpens ==
  ASSUME ScreensInv, NEW t \in Tabs, NEW form \in Web!Forms, NEW row \in Nat,
         NEW stale \in BOOLEAN,
         screens[t].at \notin {"editor", "progress"}, uuids' = uuids + 1,
         Web!Show(t, [screens[t] EXCEPT !.form = form, !.row = row, !.id = uuids',
                                        !.stale = stale])
         \/ Web!Show(t, [screens[t] EXCEPT !.form = form, !.row = row, !.id = uuids']),
         UNCHANGED <<Web!store, late>>
  PROVE  ScreensInv'
<1>1. screens[t] \in ScreenRows /\ ScreenStands(screens[t], uuids) /\ uuids \in Nat
  BY ScreenTyped
<1>2. PICK old, id, new : /\ old = screens[t] /\ id = uuids' /\ Web!Show(t, new)
                          /\ \/ new = [old EXCEPT !.form = form, !.row = row, !.id = id,
                                                  !.stale = stale]
                             \/ new = [old EXCEPT !.form = form, !.row = row, !.id = id]
  OBVIOUS
<1>3. id \in Nat /\ id # 0
  BY <1>1, <1>2
<1>4. new \in ScreenRows /\ new.id = id /\ new.at = old.at /\ new.preview = old.preview
  <2>1. CASE new = [old EXCEPT !.form = form, !.row = row, !.id = id, !.stale = stale]
    BY <1>1, <1>2, <1>3, <2>1 DEF ScreenRows
  <2>2. CASE new = [old EXCEPT !.form = form, !.row = row, !.id = id]
    BY <1>1, <1>2, <1>3, <2>2 DEF ScreenRows
  <2> QED  BY <1>2, <2>1, <2>2
<1>5. ScreenStands(new, uuids')
  BY <1>1, <1>2, <1>3, <1>4 DEF ScreenStands
<1>6. screens' = [screens EXCEPT ![t] = new]
  BY <1>2 DEF Web!Show
<1>7. late' = late
  OBVIOUS
<1>8. /\ \A r \in late' : r \in late
      /\ \A r \in late' \ late : FALSE
  BY <1>7
<1> QED  BY <1>2, <1>4, <1>5, <1>6, <1>8, LocalKeeps

LEMMA OpenKeeps == ASSUME ScreensInv, NEW t \in Tabs, Web!Open(t) PROVE ScreensInv'
<1>1. screens[t] \in ScreenRows
  BY ScreenTyped
<1>2. PICK offer \in Web!Offers(screens[t]) :
        Web!Show(t, [screens[t] EXCEPT !.form = offer[1], !.row = offer[2], !.id = uuids'])
  BY DEF Web!Open
<1>3. offer[1] \in Web!Forms /\ offer[2] \in Nat /\ screens[t].at \notin {"editor", "progress"}
  BY <1>1, OffersTyped
<1>4. uuids' = uuids + 1 /\ UNCHANGED <<Web!store, late>>
  BY DEF Web!Open, Web!NewUuid
<1>5. TRUE \in BOOLEAN
  OBVIOUS
<1> QED  BY <1>2, <1>3, <1>4, <1>5, FormOpens

LEMMA OpenUpgradeKeeps ==
  ASSUME ScreensInv, NEW t \in Tabs, Web!OpenUpgrade(t)
  PROVE  ScreensInv'
<1>1. panel.release \in Nat /\ "upgrade" \in Web!Forms
  BY ScreenTyped DEF PanelRows, Web!Forms, Web!MachineForms
<1>2. PICK off \in BOOLEAN :
        Web!Show(t, [screens[t] EXCEPT !.form = "upgrade", !.row = panel.release, !.id = uuids',
                                   !.stale = off])
  BY DEF Web!OpenUpgrade
<1>3. /\ uuids' = uuids + 1 /\ UNCHANGED <<Web!store, late>>
      /\ screens[t].at \notin {"editor", "progress"}
  BY DEF Web!OpenUpgrade, Web!NewUuid
<1> QED  BY <1>1, <1>2, <1>3, FormOpens

--------------------------------------------------------------------------------
\* Which button sends a call
LEMMA SendsFrom ==
  ASSUME NEW screen, NEW op, Web!Sends(screen, op)
  PROVE  \/ op \in Web!Forms /\ screen.form = op
         \/ op = "inspect" /\ screen.at = "machine" /\ screen.form = "none"
         \/ op = "preview" /\ screen.at = "editor"
         \/ op = "publish" /\ screen.preview # 0
BY DEF Web!Sends, Web!CreateSends, Web!InspectSends, Web!InformationSends,
       Web!MachineSends, Web!UpgradeSends,
       Web!PreviewSends, Web!PublishSends, Web!UserSends, Web!AccountSends, Web!Forms,
       Web!MachineForms, Web!UserForms, Web!AccountForms

\* What is sent is what the screen asks for.
LEMMA RequestSent ==
  ASSUME ScreensInv, NEW t \in Tabs, NEW op, Web!Sends(screens[t], op), Web!Uuids(op),
         NEW r, r = Web!Request(t, op)
  PROVE  /\ r \in CallRows /\ CallStands(r) /\ CallStands(r)' /\ r.op = op
         /\ r.form = screens[t].id /\ r.row = screens[t].row
         /\ op \in Web!Versioned => r.expected = r.row
         /\ op \in Web!ActsOnce => Asks(screens[t], op) /\ Pending(r.form, op, r.row)
         /\ uuids' \in {uuids, uuids + 1} /\ (op = "preview" => uuids' = uuids + 1)
<1>1. screens[t] \in ScreenRows /\ ScreenStands(screens[t], uuids) /\ uuids \in Nat
  BY ScreenTyped
<1>2. PICK screen : screen = screens[t]
  OBVIOUS
<1>3. /\ screen.id \in Nat /\ screen.row \in Nat /\ screen.preview \in Nat
      /\ screen.form \in Web!Forms \cup {"none"} /\ "none" \notin Web!Forms
  BY <1>1, <1>2 DEF ScreenRows, Web!Forms, Web!MachineForms, Web!UserForms, Web!AccountForms
<1>4. \/ op \in Web!Forms /\ screen.form = op
      \/ op = "inspect" /\ screen.at = "machine" /\ screen.form = "none"
      \/ op = "preview" /\ screen.at = "editor"
      \/ op = "publish" /\ screen.preview # 0
  BY <1>2, SendsFrom
<1>5. op \in Web!Calls
  BY <1>4 DEF Web!Calls
<1>6. uuids' \in {uuids, uuids + 1} /\ (op = "preview" => uuids' = uuids + 1)
  BY DEF Web!Uuids, Web!NewUuid
<1>7. PICK key, expected :
        /\ key = CASE op = "inspect" -> uuids'
                   [] op \in Web!Keyed \ {"inspect"} -> screen.id
                   [] OTHER -> 0
        /\ expected = IF op \in Web!Versioned THEN Web!ShownVersion(screen, op) ELSE 0
  OBVIOUS
<1>8. key \in Nat /\ (op \in Web!Keyed \ {"inspect"} => key = screen.id)
  BY <1>1, <1>3, <1>6, <1>7
<1>9. expected \in Nat /\ (op \in Web!Versioned => expected = screen.row)
  <2>1. op = "publish" => screen.preview = screen.row
    BY <1>1, <1>2, <1>4 DEF ScreenStands, Web!Forms, Web!MachineForms, Web!UserForms,
                            Web!AccountForms
  <2> QED  BY <1>3, <1>7, <2>1 DEF Web!ShownVersion
<1>10. r = [op |-> op, form |-> screen.id, row |-> screen.row, key |-> key,
            expected |-> expected]
  BY <1>2, <1>7 DEF Web!Request, Web!KeyOfForm
<1>11. /\ r \in CallRows /\ r.op = op /\ r.form = screen.id /\ r.row = screen.row
       /\ r.key = key /\ r.expected = expected
  BY <1>3, <1>5, <1>8, <1>9, <1>10 DEF CallRows
<1>12. op \in Web!ActsOnce => Asks(screen, op) /\ screen.id # 0
  BY <1>1, <1>2, <1>3, <1>4, Ops DEF Asks, ScreenStands
<1>13. r.form <= uuids /\ r.form <= uuids'
  BY <1>1, <1>2, <1>3, <1>6, <1>11 DEF ScreenStands
<1>14. CallStands(r) /\ CallStands(r)'
  BY <1>8, <1>9, <1>11, <1>12, <1>13 DEF CallStands
<1>15. op \in Web!ActsOnce => Pending(r.form, op, r.row)
  BY <1>2, <1>11, <1>12 DEF Pending
<1> QED  BY <1>2, <1>6, <1>9, <1>11, <1>12, <1>14, <1>15

\* The copy of the machine on a closed form
LEMMA ClosedShows ==
  ASSUME NEW screen \in ScreenRows, NEW last \in Nat, ScreenStands(screen, last),
         screen.preview = 0, NEW shown \in ShownRows
  PROVE  LET new == [Web!Closed(screen) EXCEPT !.shown = shown]
         IN  new \in ScreenRows /\ ScreenStands(new, last) /\ \A old : Continues(old, new)
<1>1. PICK closed, new : closed = Web!Closed(screen) /\ new = [closed EXCEPT !.shown = shown]
  OBVIOUS
<1>2. /\ closed \in ScreenRows /\ closed.form = "none" /\ closed.preview = 0
      /\ ScreenStands(closed, last)
  BY <1>1, ClosedStands
<1>3. /\ new \in ScreenRows /\ new.form = "none" /\ new.preview = 0 /\ new.id = closed.id
  BY <1>1, <1>2 DEF ScreenRows
<1>4. new.id <= last
  BY <1>2, <1>3 DEF ScreenStands
<1> QED  BY <1>1, <1>3, <1>4, QuietStands

\* The screen after its call was carried out
LEMMA AnswerStands ==
  ASSUME ScreensInv, NEW t \in Tabs, NEW op, Web!Sends(screens[t], op),
         panel' \in PanelRows,
         tasks' \in SUBSET TaskRows, uuids' \in {uuids, uuids + 1},
         op = "preview" => uuids' = uuids + 1, NEW new, new = Web!Answered(screens[t], op)
  PROVE  /\ new \in ScreenRows /\ ScreenStands(new, uuids')
         /\ Continues(screens[t], new) \/ (uuids' = uuids + 1 /\ new.id = uuids')
<1>1. /\ screens[t] \in ScreenRows /\ ScreenStands(screens[t], uuids) /\ uuids \in Nat
      /\ panel \in PanelRows /\ tasks \in SUBSET TaskRows /\ uuids' \in Nat
  BY ScreenTyped
<1>2. PICK screen, last : screen = screens[t] /\ last = uuids'
  OBVIOUS
<1>3. /\ screen \in ScreenRows /\ last \in Nat /\ screen.id \in Nat /\ screen.row \in Nat
      /\ screen.preview \in Nat /\ screen.id <= last
  BY <1>1, <1>2 DEF ScreenRows, ScreenStands
<1>4. ScreenStands(screen, last)
  BY <1>1, <1>2, <1>3 DEF ScreenStands
<1>5. \/ op \in Web!Forms /\ screen.form = op
      \/ op = "inspect" /\ screen.at = "machine" /\ screen.form = "none"
      \/ op = "preview" /\ screen.at = "editor"
      \/ op = "publish" /\ screen.preview # 0
  BY <1>2, SendsFrom
<1>6. op \notin {"preview", "publish"} => screen.preview = 0
  BY <1>4, <1>5 DEF ScreenStands, Web!Forms, Web!MachineForms, Web!UserForms,
                    Web!AccountForms
<1>7. PICK machine, progress : /\ machine = Web!MachineShown' /\ machine \in ShownRows
                               /\ progress = Web!ProgressShown' /\ progress \in ShownRows
  BY ViewsTypedAfter
<1>8. \A place \in Locations :
        /\ Web!Screen(place) \in ScreenRows /\ ScreenStands(Web!Screen(place), last)
        /\ Web!Screen(place).form = "none" /\ Web!Screen(place).preview = 0
        /\ Web!Screen(place).id = 0
  BY <1>1, <1>3, OpenedStands
<1>9. \A place \in Locations : \A old : Continues(old, Web!Screen(place))
  BY <1>3, <1>8, QuietStands
<1>10. CASE op = "createMachine" \/ op = "remove" \/ op = "password"
  <2>1. new = Web!Screen("elsewhere") \/ new = Web!Screen("machines")
    BY <1>2, <1>10 DEF Web!Answered, Web!CreateAnswered, Web!MachineAnswered,
                       Web!AccountAnswered, Web!UserForms,
                       Web!AccountForms
  <2> QED  BY <1>2, <1>8, <1>9, <2>1 DEF Web!Places, Locations
<1>11. CASE op \in {"edit", "rebind", "inspect", "token", "uninstall", "upgrade"}
  <2>1. \/ new = Web!InformationAnswered(screen)
        \/ new = Web!MachineAnswered(screen, op) /\ op # "remove"
        \/ new = Web!UpgradeAnswered(screen)
    BY <1>2, <1>11 DEF Web!Answered, Web!UserForms, Web!AccountForms
  <2>2. new = [Web!Closed(screen) EXCEPT !.shown = machine]
    BY <1>7, <2>1 DEF Web!InformationAnswered, Web!MachineAnswered, Web!UpgradeAnswered
  <2> QED  BY <1>2, <1>3, <1>4, <1>6, <1>7, <1>11, <2>2, ClosedShows
<1>12. CASE op \in Web!UserForms \cup (Web!AccountForms \ {"password"})
  <2>1. new = Web!Closed(screen)
    BY <1>2, <1>12 DEF Web!Answered, Web!UserAnswered, Web!AccountAnswered, Web!UserForms,
                       Web!AccountForms
  <2>2. screen.preview = 0
    BY <1>6, <1>12 DEF Web!UserForms, Web!AccountForms
  <2> QED  BY <1>2, <1>3, <1>4, <2>1, <2>2, ClosedStands
<1>13. CASE op = "preview"
  <2>1. new = [screen EXCEPT !.preview = screen.row, !.id = last]
    <3>1. new = Web!PreviewAnswered(screen)
      BY <1>2, <1>13 DEF Web!Answered, Web!UserForms, Web!AccountForms
    <3> QED  BY <1>2, <3>1 DEF Web!PreviewAnswered
  <2>2. /\ new \in ScreenRows /\ new.preview = new.row /\ new.id = last /\ new.form = screen.form
        /\ new.at = screen.at
    BY <1>3, <2>1 DEF ScreenRows
  <2>3. screen.form = "none" /\ screen.at = "editor" /\ last # 0
    BY <1>1, <1>2, <1>4, <1>5, <1>13 DEF ScreenStands, Web!Forms, Web!MachineForms,
                                         Web!UserForms, Web!AccountForms
  <2>4. ScreenStands(new, last)
    BY <1>3, <2>2, <2>3 DEF ScreenStands
  <2> QED  BY <1>2, <1>13, <2>2, <2>4
<1>14. CASE op = "publish"
  <2>1. PICK page : page = Web!Screen("progress")
    OBVIOUS
  <2>2. page \in ScreenRows /\ page.form = "none" /\ page.preview = 0
    BY <1>8, <2>1 DEF Web!Places, Locations
  <2>3. PICK number, id : number = screen.preview + 1 /\ id = screen.id
    OBVIOUS
  <2>4. new = [page EXCEPT !.row = number, !.id = id, !.shown = progress]
    <3>1. new = Web!PublishAnswered(screen)
      BY <1>2, <1>14 DEF Web!Answered, Web!UserForms, Web!AccountForms
    <3> QED  BY <1>7, <2>1, <2>3, <3>1 DEF Web!PublishAnswered
  <2>5. number \in Nat /\ id \in Nat
    BY <1>3, <2>3
  <2>6. new \in ScreenRows /\ new.form = "none" /\ new.preview = 0 /\ new.id = id
    BY <1>7, <2>2, <2>4, <2>5 DEF ScreenRows
  <2> QED  BY <1>2, <1>3, <2>3, <2>6, QuietStands
<1> QED
  BY <1>5, <1>10, <1>11, <1>12, <1>13, <1>14 DEF Web!Forms, Web!MachineForms

LEMMA CarriedOutKeeps ==
  ASSUME ScreensInv, NEW t \in Tabs, NEW op, Web!Sends(screens[t], op), Web!Uuids(op),
         Web!CarriedOut(t, op)
  PROVE  ScreensInv'
<1>1. PICK r : r = Web!Request(t, op)
  OBVIOUS
<1>2. /\ r \in CallRows /\ CallStands(r) /\ r.op = op
      /\ r.form = screens[t].id /\ r.row = screens[t].row
      /\ op \in Web!ActsOnce => Pending(r.form, op, r.row)
      /\ uuids' \in {uuids, uuids + 1} /\ (op = "preview" => uuids' = uuids + 1)
  BY <1>1, RequestSent
<1>3. PICK new : new = Web!Answered(screens[t], op)
  OBVIOUS
<1>4. screens' = [screens EXCEPT ![t] = new] /\ late' = late
  BY <1>3 DEF Web!CarriedOut, Web!Show
<1>5. (Web!Allowed(r) /\ Web!Perform(r)) \/ UNCHANGED Web!store
  BY <1>1 DEF Web!CarriedOut
<1>6. CASE Web!Allowed(r) /\ Web!Perform(r)
  <2>1. /\ Grows /\ effects' \in Seq(Effects)
        /\ \/ r.op \notin Web!ActsOnce /\ effects' = effects
           \/ /\ r.op \in Web!ActsOnce
              /\ ~Spent(r.form, r.op, r.row) /\ Spent(r.form, r.op, r.row)'
              /\ effects' = Append(effects, [form |-> r.form, seen |-> r.row, found |-> r.row])
    BY <1>2, <1>6, PerformSpends
  <2>2. panel' \in PanelRows /\ tasks' \in SUBSET TaskRows
    BY <2>1 DEF Grows
  <2>3. /\ new \in ScreenRows /\ ScreenStands(new, uuids')
        /\ Continues(screens[t], new) \/ (uuids' = uuids + 1 /\ new.id = uuids')
    BY <1>2, <1>3, <2>2, AnswerStands
  <2>4. /\ screens' \in [Tabs -> ScreenRows] /\ uuids' \in Nat /\ late' \in SUBSET CallRows
        /\ Asked
        /\ \A u \in Tabs : ScreenStands(screens'[u], uuids')
        /\ \A call \in late' : CallStands(call)'
    BY <1>2, <1>4, <2>3, OneScreen
  <2>5. ScreensTypeOK'
    BY <2>1, <2>2, <2>4 DEF ScreensTypeOK
  <2>6. r.form \in Nat /\ r.row \in Nat
    BY <1>2 DEF CallRows
  <2> QED  BY <1>2, <2>1, <2>4, <2>5, <2>6, StepKeeps
<1>7. CASE UNCHANGED Web!store
  <2>1. panel' = panel /\ tasks' = tasks
    BY <1>7 DEF Web!store
  <2>2. panel' \in PanelRows /\ tasks' \in SUBSET TaskRows
    BY <2>1, ScreenTyped
  <2>3. /\ new \in ScreenRows /\ ScreenStands(new, uuids')
        /\ Continues(screens[t], new) \/ (uuids' = uuids + 1 /\ new.id = uuids')
    BY <1>2, <1>3, <2>2, AnswerStands
  <2> QED  BY <1>2, <1>4, <1>7, <2>3, LocalKeeps
<1> QED  BY <1>5, <1>6, <1>7

\* What a screen makes of a conflict asks for nothing new.
LEMMA ConflictsKeeps ==
  ASSUME ScreensInv, NEW t \in Tabs, NEW op, Web!Sends(screens[t], op), Web!Uuids(op),
         Web!Conflicts(t, op)
  PROVE  ScreensInv'
<1>1. /\ screens[t] \in ScreenRows /\ ScreenStands(screens[t], uuids) /\ uuids \in Nat
      /\ panel \in PanelRows /\ tasks \in SUBSET TaskRows
  BY ScreenTyped
<1>2. PICK screen : screen = screens[t]
  OBVIOUS
<1>3. uuids' \in {uuids, uuids + 1}
  BY DEF Web!Uuids, Web!NewUuid
<1>4. /\ screen.id \in Nat /\ screen.row \in Nat /\ screen.preview \in Nat
      /\ panel.configuration \in Nat
  BY <1>1, <1>2 DEF ScreenRows, PanelRows
<1>5. ScreenStands(screen, uuids')
  BY <1>1, <1>2, <1>3, <1>4 DEF ScreenStands
<1>6. PICK new \in Web!Conflicted(screen, op) : screens' = [screens EXCEPT ![t] = new]
  BY <1>2 DEF Web!Conflicts, Web!Show
<1>7. PICK machine, on : machine = Web!MachineShown /\ on = TRUE
  OBVIOUS
<1>8. machine \in ShownRows
  <2>1. Web!View("machine") = Web!MachineShown
    BY DEF Web!View
  <2> QED  BY <1>1, <1>7, <2>1, ViewsTyped
<1>9. \/ new = screen
      \/ new = [screen EXCEPT !.shown = machine]
      \/ new = [screen EXCEPT !.stale = on]
      \/ /\ op \in {"preview", "publish"}
         /\ \E version \in Nat : new = [screen EXCEPT !.preview = 0, !.id = 0, !.row = version]
  <2>1. CASE op \in {"edit", "rebind"}
    BY <1>6, <1>7, <2>1 DEF Web!Conflicted, Web!InformationConflicts
  <2>2. CASE op = "upgrade"
    BY <1>6, <1>7, <2>2 DEF Web!Conflicted, Web!UpgradeConflicts
  <2>3. CASE op \in {"preview", "publish"}
    BY <1>4, <1>6, <2>3 DEF Web!Conflicted, Web!EditorConflicts
  <2>4. CASE op \notin {"edit", "rebind", "upgrade", "preview", "publish"}
    BY <1>6, <2>4 DEF Web!Conflicted
  <2> QED  BY <2>1, <2>2, <2>3, <2>4
<1>10. /\ new \in ScreenRows /\ ScreenStands(new, uuids') /\ Continues(screen, new)
  <2>1. CASE new = screen \/ new = [screen EXCEPT !.shown = machine]
             \/ new = [screen EXCEPT !.stale = on]
    <3>1. /\ new \in ScreenRows /\ new.form = screen.form /\ new.id = screen.id
          /\ new.row = screen.row /\ new.preview = screen.preview /\ new.at = screen.at
      BY <1>1, <1>2, <1>7, <1>8, <2>1 DEF ScreenRows
    <3> QED  BY <1>5, <3>1 DEF ScreenStands, Continues
  <2>2. CASE /\ op \in {"preview", "publish"}
             /\ \E version \in Nat : new = [screen EXCEPT !.preview = 0, !.id = 0, !.row = version]
    <3>1. PICK version \in Nat : new = [screen EXCEPT !.preview = 0, !.id = 0, !.row = version]
      BY <2>2
    <3>2. /\ new \in ScreenRows /\ new.form = screen.form /\ new.preview = 0 /\ new.id = 0
      BY <1>1, <1>2, <3>1 DEF ScreenRows
    <3>3. screen.at = "editor" \/ screen.preview # 0
      BY <1>2, <2>2, SendsFrom DEF Web!Forms, Web!MachineForms, Web!UserForms,
                                   Web!AccountForms
    <3>4. screen.form = "none"
      BY <1>5, <3>3 DEF ScreenStands
    <3> QED  BY <1>1, <1>3, <3>2, <3>4, QuietStands
  <2> QED  BY <1>9, <2>1, <2>2
<1>11. late' = late /\ UNCHANGED Web!store
  BY DEF Web!Conflicts
<1> QED  BY <1>2, <1>3, <1>6, <1>10, <1>11, LocalKeeps

\* A call that is given up may still arrive with what the screen asks for.
LEMMA GivenUpKeeps ==
  ASSUME ScreensInv, NEW t \in Tabs, NEW op, Web!Sends(screens[t], op), Web!Uuids(op),
         Web!GivenUp(t, op)
  PROVE  ScreensInv'
<1>1. screens[t] \in ScreenRows /\ ScreenStands(screens[t], uuids) /\ uuids \in Nat
  BY ScreenTyped
<1>2. PICK screen, r : screen = screens[t] /\ r = Web!Request(t, op)
  OBVIOUS
<1>3. /\ r \in CallRows /\ CallStands(r)' /\ r.op = op
      /\ r.form = screen.id /\ r.row = screen.row
      /\ op \in Web!ActsOnce => Asks(screen, op)
      /\ uuids' \in {uuids, uuids + 1}
  BY <1>2, RequestSent
<1>4. screen.id \in Nat /\ screen.id <= uuids'
  BY <1>1, <1>2, <1>3 DEF ScreenRows, ScreenStands
<1>5. ScreenStands(screen, uuids')
  BY <1>1, <1>2, <1>4 DEF ScreenStands
<1>6. UNCHANGED Web!store /\ late' = IF op = "preview" THEN late ELSE late \cup {r}
  BY <1>2 DEF Web!GivenUp
<1>7. PICK preview, id, new :
        /\ preview = IF op = "preview" THEN 0 ELSE screen.preview
        /\ id = IF op = "preview" THEN 0 ELSE screen.id
        /\ new = [screen EXCEPT !.preview = preview, !.id = id]
  OBVIOUS
<1>8. screens' = [screens EXCEPT ![t] = new]
  BY <1>2, <1>7 DEF Web!GivenUp, Web!Show
<1>9. /\ preview \in Nat /\ id \in Nat
  BY <1>1, <1>2, <1>7 DEF ScreenRows
<1>10. /\ new \in ScreenRows /\ new.form = screen.form /\ new.row = screen.row
       /\ new.at = screen.at /\ new.preview = preview /\ new.id = id
  BY <1>1, <1>2, <1>7, <1>9 DEF ScreenRows
<1>11. ScreenStands(new, uuids') /\ Continues(screen, new)
  <2>1. CASE op = "preview"
    <3>1. screen.at = "editor"
      BY <1>2, <2>1, SendsFrom DEF Web!Forms, Web!MachineForms, Web!UserForms,
                                   Web!AccountForms
    <3>2. new.form = "none" /\ new.preview = 0 /\ new.id = 0
      BY <1>5, <1>7, <1>10, <2>1, <3>1 DEF ScreenStands
    <3> QED  BY <1>1, <1>3, <1>10, <3>2, QuietStands
  <2>2. CASE op # "preview"
    BY <1>5, <1>7, <1>10, <2>2 DEF ScreenStands, Continues
  <2> QED  BY <2>1, <2>2
<1>12. /\ \A call \in late' : call \in late \/ (call \in CallRows /\ CallStands(call)')
       /\ \A call \in late' \ late : call.op \in Web!ActsOnce =>
             Asks(screens[t], call.op) /\ call.form = screens[t].id /\ call.row = screens[t].row
  <2>1. \A call \in late' : call \in late \/ call = r
    BY <1>6
  <2> QED  BY <1>2, <1>3, <2>1
<1> QED  BY <1>2, <1>3, <1>6, <1>8, <1>10, <1>11, <1>12, LocalKeeps

LEMMA CallKeeps ==
  ASSUME ScreensInv, NEW t \in Tabs, NEW op, Web!Call(t, op)
  PROVE  ScreensInv'
BY CarriedOutKeeps, ConflictsKeeps, GivenUpKeeps DEF Web!Call

--------------------------------------------------------------------------------
LEMMA ScreensInit == Web!Init => ScreensInv
<1> SUFFICES ASSUME Web!Init PROVE ScreensInv
  OBVIOUS
<1>1. PICK status \in {"pending", "active"}, on \in BOOLEAN, off \in BOOLEAN :
        panel = [machine |-> 1, configuration |-> 1, user |-> 1, release |-> 1, made |-> 2,
                status |-> status, bound |-> on, uninstalled |-> off, removed |-> off,
                names |-> {}, passkeys |-> {1, 2}, apiKeys |-> {1}]
  BY DEF Web!Init
<1>2. panel \in PanelRows /\ panel.passkeys = {1, 2} /\ panel.made = 2
  BY <1>1 DEF PanelRows
<1>3. /\ tasks = {} /\ uuids = 0 /\ late = {} /\ effects = <<>>
  BY DEF Web!Init
<1>4. PICK start \in Starts : \E place \in [Tabs -> start] :
        screens = [t \in Tabs |-> [Web!Screen(place[t]) EXCEPT
                                      !.row = IF place[t] = "editor" THEN 1 ELSE 0]]
  BY DEF Web!Init
<1>5. PICK place \in [Tabs -> start] :
        screens = [t \in Tabs |-> [Web!Screen(place[t]) EXCEPT
                                      !.row = IF place[t] = "editor" THEN 1 ELSE 0]]
  BY <1>4
<1>6. ASSUME NEW t \in Tabs
      PROVE  /\ screens[t] \in ScreenRows /\ screens[t].form = "none"
             /\ screens[t].preview = 0 /\ screens[t].id = 0
  <2>1. PICK page, row : /\ page = Web!Screen(place[t])
                         /\ row = IF place[t] = "editor" THEN 1 ELSE 0
    OBVIOUS
  <2>2. place[t] \in Locations
    BY <1>4, <1>5 DEF Locations
  <2>3. page \in ScreenRows /\ page.form = "none" /\ page.preview = 0 /\ page.id = 0
    BY <1>2, <1>3, <2>1, <2>2, OpenedStands
  <2>4. screens[t] = [page EXCEPT !.row = row] /\ row \in Nat
    BY <1>5, <2>1
  <2> QED  BY <2>3, <2>4 DEF ScreenRows
<1>7. screens \in [Tabs -> ScreenRows]
  BY <1>5, <1>6
<1>8. ScreensTypeOK
  BY <1>2, <1>3, <1>7 DEF ScreensTypeOK
<1>9. \A form, row, op : ~Pending(form, op, row)
  BY <1>3, <1>6, Ops DEF Pending, Asks
<1>10. \A t \in Tabs : ScreenStands(screens[t], uuids)
  BY <1>3, <1>6 DEF ScreenStands
<1>11. Len(effects) = 0
  BY <1>3
<1>12. NumbersStand
  BY <1>2, <1>3, <1>10, <1>11 DEF NumbersStand
<1>13. OneErrand /\ DoneIsSpent
  BY <1>9 DEF OneErrand, DoneIsSpent
<1>14. DoneOnceAsConfirmed
  BY <1>3, <1>11 DEF DoneOnceAsConfirmed
<1> QED  BY <1>8, <1>12, <1>13, <1>14 DEF ScreensInv

LEMMA StutterKeeps == ASSUME ScreensInv, UNCHANGED Web!vars PROVE ScreensInv'
<1>1. Web!Elsewhere /\ panel' = panel /\ tasks' = tasks
  BY DEF Web!vars, Web!Elsewhere
<1>2. Grows
  BY <1>1, RowsStay, TasksStay DEF Grows, RowsGrow
<1> QED  BY <1>1, <1>2, ElsewhereKeeps

LEMMA StepHolds == ScreensInv /\ [Web!Next]_(Web!vars) => ScreensInv'
<1> SUFFICES ASSUME ScreensInv, [Web!Next]_(Web!vars) PROVE ScreensInv'
  OBVIOUS
<1>1. CASE Web!Environment
  BY <1>1, NodeAcceptsKeeps, NodeReportsKeeps, NodeEnrollsKeeps, PanelAloneKeeps,
     ArriveLateKeeps
     DEF Web!Environment
<1>2. ASSUME NEW t \in Tabs, Web!Use(t) PROVE ScreensInv'
  <2>1. ASSUME NEW op, Web!Call(t, op) \/ Web!MustVerify(t, op) PROVE ScreensInv'
    BY <2>1, CallKeeps, SignInKeeps
  <2> QED  BY <1>2, <2>1, PollKeeps, ReloadKeeps, OpenKeeps, OpenUpgradeKeeps, CloseKeeps,
              EditorKeeps, EditKeeps, SignInKeeps DEF Web!Use
<1>3. CASE UNCHANGED Web!vars
  BY <1>3, StutterKeeps
<1> QED  BY <1>1, <1>2, <1>3 DEF Web!Next

\* What was confirmed is done once and to the row that was shown, and a request
\* key makes one task, for any number of tabs, forms and lost calls.
THEOREM DoneOnce == Web!Spec => []DoneOnceAsConfirmed
<1>1. ScreensInv => DoneOnceAsConfirmed
  BY DEF ScreensInv
<1> QED  BY <1>1, ScreensInit, StepHolds, PTL DEF Web!Spec
================================================================================
