--------------------------- MODULE OverviewEditor ---------------------------
(***************************************************************************)
(* components/overview/OverviewPage.tsx: one browser editing the Overview  *)
(* pages of the server, while another one changes them too.  A handler of  *)
(* the page is an action; a request is sent by one action, carried out by  *)
(* the server in another, and its answer arrives, late or never, in a      *)
(* third.  A modal dialog blocks everything but itself and the answers.    *)
(*                                                                         *)
(* ui is the state of the React component:                                 *)
(*   page, active     the selected page ID, the page record shown          *)
(*   mode, state      VIEW or EDIT, and the state of the save pipeline     *)
(*   base, draft      the baseline of the edit session and its draft       *)
(*   history, gesture undo entries, and the resize gesture of the canvas   *)
(*   dialog, pending  the open dialog and whether its request is out       *)
(*   target           the page or element the dialog is about              *)
(*   view             the viewport of the session                          *)
(*   listed           the page list: ID -> name                             *)
(*   token, loading   runtimePageRequest and pageLoading                   *)
(* A name, a description and the dimensions of a page are one field, name. *)
(***************************************************************************)
EXTENDS OverviewElements

CONSTANTS
  PageIds,       \* IDs of pages, created ones included
  ElementIds,    \* IDs of elements (numbers: layerOrder breaks ties by ID)
  Names,         \* names a page can have
  Views,         \* viewports
  Stored,        \* the pages at the start
  Widths,        \* widths an element can be given
  MaxEdits,      \* changes of a draft
  MaxRequests,   \* requests the user makes
  MaxTimeouts,   \* requests that get no answer in time
  MaxOthers,     \* changes another browser makes
  MaxEvents      \* all of these together

VARIABLES
  pages,     \* the server: page ID -> page
  known,     \* page IDs ever used
  ui,        \* the client
  net,       \* requests in flight
  trail,     \* every list of elements of the session, and the present one
  abandoned, \* the user has confirmed that the draft may be discarded
  spent      \* uses of the bounds

(* The pages at the start are page records, each filed under its ID; null  *)
(* is not the name of a dialog.                                            *)
ASSUME EditorAssumption ==
  /\ \A p \in DOMAIN Stored :
       /\ DOMAIN Stored[p] = {"id", "name", "els", "layer", "vp", "rev"}
       /\ Stored[p].id = p /\ Stored[p].rev \in Nat
  /\ None \notin {"save", "cancel", "switch", "element", "page"}

editorVars == <<pages, known, ui, net, trail, abandoned, spent>>

Empty(id, name) ==
  [id |-> id, name |-> name, els |-> <<>>, layer |-> <<>>,
   vp |-> CHOOSE v \in Views : TRUE, rev |-> 1]

NoPages == [p \in {} |-> None]
NoTrail == [all |-> <<>>, at |-> 0]
TrailOf(page) == [all |-> <<page.els>>, at |-> 1]

EditorInit ==
  /\ pages = Stored /\ known = DOMAIN Stored
  /\ net = {} /\ trail = NoTrail /\ abandoned = FALSE
  /\ spent = [edits |-> 0, requests |-> 0, timeouts |-> 0, others |-> 0]
  /\ ui = [page |-> None, active |-> None, mode |-> "VIEW", state |-> "SAVED",
           base |-> None, draft |-> None, history |-> NoHistory, gesture |-> None,
           dialog |-> None, pending |-> FALSE, target |-> None,
           view |-> CHOOSE v \in Views : TRUE, listed |-> NoPages, token |-> 0, loading |-> FALSE]

Free == ui.dialog = None /\ ui.gesture = None
Editing == ui.mode = "EDIT" /\ ui.draft # None
isDraftDirty == ui.state \in {"UNSAVED", "ERROR", "CONFLICT"}
shouldConfirmCancel == isDraftDirty
requiresPageSwitchConfirm(next) == next # ui.page /\ ui.state # "SAVED"
pageCrudDisabledInMode == ui.mode = "EDIT"
classifySaveFailure(conflict) == IF conflict THEN "CONFLICT" ELSE "ERROR"
Shown == IF ui.draft # None THEN ui.draft ELSE ui.active
Spend(what) ==
  /\ spent.edits + spent.requests + spent.timeouts + spent.others < MaxEvents
  /\ spent' = [spent EXCEPT ![what] = @ + 1]

(* Requests. A request waits for its answer until it times out.            *)
Request(op, page, body) ==
  [op |-> op, page |-> page, body |-> body, token |-> ui.token,
   waiting |-> TRUE, answer |-> None, by |-> spent.requests]

(* A new page request makes the answers of the earlier ones stale.         *)
Fetching(u) == [u EXCEPT !.token = @ + 1, !.loading = TRUE]
FetchBefore(op, page) == Request(op, page, None)    \* Mutant: it has the token of the one before.
Fetch(op, page) == [Request(op, page, None) EXCEPT !.token = ui.token + 1]

createOverviewPage(name) == Request("create", None, name)
renameOverviewPage(id, name) == Request("rename", id, name)
duplicateOverviewPage(id, name) == Request("duplicate", id, name)
updateOverviewPage(id, base, patch) == Request("put", id, [draft |-> patch, base |-> base])
deleteOverviewPage(id) == Request("delete", id, None)

------------------------------------------------------------------------------
(* View and edit                                                           *)

(* lib/overviewState.ts: the two records of an edit session, the baseline  *)
(* and the draft, and the save state that follows from them.               *)
overviewDraftMatchesBaseline(base, draft) == base # None /\ draft # None /\ draft = base
overviewViewportsEqual(a, b) == a = b
overviewSaveNeedsViewportPut(base, draft, view) ==
  /\ base # None /\ draft # None
  /\ \/ ~overviewDraftMatchesBaseline(base, draft)
     \/ ~overviewViewportsEqual(base.vp, view)

beginOverviewEdit(u, page) ==
  [u EXCEPT !.mode = "EDIT", !.state = "SAVED", !.base = page, !.draft = page]
cancelOverviewEdit(u, base) == [u EXCEPT !.mode = "VIEW", !.state = "SAVED", !.draft = base]

(* The draft gets other elements, and the layer order that goes with them. *)
applyOverviewDraftPatch(u, els) ==
  LET draft == [u.draft EXCEPT !.els = els, !.layer = LayerOrder(els)]
  IN  [u EXCEPT !.draft = draft,
                !.state = IF overviewDraftMatchesBaseline(u.base, draft) THEN "SAVED"
                          ELSE "UNSAVED"]

EnterEdit ==
  /\ Free /\ ui.mode = "VIEW" /\ ui.active # None /\ ~ui.loading
  /\ ui' = [beginOverviewEdit(ui, ui.active) EXCEPT !.history = NoHistory]
  /\ trail' = TrailOf(ui.active) /\ abandoned' = FALSE
  /\ UNCHANGED <<pages, known, net, spent>>

(* applyElementMutation(): els replaces the elements of the draft.         *)
Mutated(els) ==
  [applyOverviewDraftPatch(ui, els) EXCEPT !.history = Pushed(@, ui.draft.els)]

Mutates(els) ==
  /\ Editing /\ els # ui.draft.els /\ spent.edits < MaxEdits
  /\ trail' = [all |-> Append(SubSeq(trail.all, 1, trail.at), els), at |-> trail.at + 1]
  /\ Spend("edits")
  /\ UNCHANGED <<pages, known, net, abandoned>>

UsedIds ==
  UNION ({IdsOf(pages[p].els) : p \in DOMAIN pages} \cup
         {IdsOf(trail.all[i]) : i \in DOMAIN trail.all} \cup
         {IF r = None THEN {} ELSE IdsOf(r.els) : r \in {ui.active, ui.base, ui.draft}})
Fresh(id) == id \in ElementIds \ UsedIds

Add == \E id \in ElementIds, x \in 0 .. CanvasWidth - 1, w \in Widths :
  /\ Free /\ Editing /\ Fresh(id)
  /\ LET els == Added(ui.draft.els, id, x, w)
     IN  Mutates(els) /\ ui' = Mutated(els)

Move == \E id \in IdsOf(ui.draft.els), x \in 0 .. CanvasWidth - 1 :
  LET els == Mapped(ui.draft.els, id, LAMBDA e : IF e.locked THEN e ELSE [e EXCEPT !.x = x])
  IN  Free /\ Mutates(els) /\ ui' = Mutated(els)

(* The inspector: a locked element is not patched, but its lock and its    *)
(* visibility can be switched.                                             *)
Patch == \E id \in IdsOf(ui.draft.els), look \in {"plain", "blank"} :
  LET els == Mapped(ui.draft.els, id, LAMBDA e : IF e.locked THEN e ELSE [e EXCEPT !.look = look])
  IN  Free /\ Mutates(els) /\ ui' = Mutated(els)

Toggle == \E id \in IdsOf(ui.draft.els) :
  \E els \in {Mapped(ui.draft.els, id, LAMBDA e : [e EXCEPT !.locked = ~@]),
              Mapped(ui.draft.els, id, LAMBDA e : [e EXCEPT !.vis = ~@])} :
     Free /\ Mutates(els) /\ ui' = Mutated(els)

Layer == \E id \in IdsOf(ui.draft.els) : \E els \in LayerOps(ui.draft.els, id) :
  Free /\ Mutates(els) /\ ui' = Mutated(els)

Duplicate == \E id \in IdsOf(ui.draft.els), new \in ElementIds :
  LET els == Duplicated(ui.draft.els, id, new)
  IN  Free /\ Fresh(new) /\ Mutates(els) /\ ui' = Mutated(els)

(* The delete dialog; an answer may have replaced the draft meanwhile.     *)
AskDelete == \E id \in IdsOf(ui.draft.els) :
  /\ Free /\ Editing /\ ~Find(ui.draft.els, id).locked
  /\ ui' = [ui EXCEPT !.dialog = "element", !.target = id]
  /\ UNCHANGED <<pages, known, net, trail, abandoned, spent>>

ConfirmDelete ==
  LET els == Without(ui.draft.els, ui.target)
      closed(u) == [u EXCEPT !.dialog = None, !.target = None]
  IN  /\ ui.dialog = "element"
      /\ \/ Mutates(els) /\ ui' = closed(Mutated(els))
         \/ ui.draft.els = els /\ ui' = closed(ui)
            /\ UNCHANGED <<pages, known, net, trail, abandoned, spent>>

(* The canvas: live geometry during the gesture, one mutation at its end.  *)
ResizeMove == \E id \in IdsOf(ui.draft.els), x \in 0 .. CanvasWidth - 1, w \in Widths :
  LET started == ResizeStarted(ui.gesture, id, ui.draft.els)
  IN  /\ ui.dialog = None /\ resizeHandlesVisible(Editing, Find(ui.draft.els, id))
      /\ ui' = [ui EXCEPT !.gesture = ResizeMoved(started, [x |-> x, w |-> w])]
      /\ ui' # ui /\ spent.edits < MaxEdits
      /\ UNCHANGED <<pages, known, net, trail, abandoned, spent>>

(* The commit makes an undo entry when it is the first since a pointerup   *)
(* reached the window; one does before each, for it ends the gesture.      *)
ResizeEnd ==
  /\ Editing /\ ui.gesture # None
  /\ LET commit == ResizeCommit(ui.gesture)
         els == IF commit = None THEN ui.draft.els
                ELSE Resized(ui.draft.els, ui.gesture.id, commit)
     IN  \/ Mutates(els) /\ ui' = [Mutated(els) EXCEPT !.gesture = None]
         \/ els = ui.draft.els /\ ui' = [ui EXCEPT !.gesture = None]
            /\ UNCHANGED <<pages, known, net, trail, abandoned, spent>>

ResizeCancel ==
  /\ ui.gesture # None
  /\ ui' = [ui EXCEPT !.gesture = resizeCancel]
  /\ UNCHANGED <<pages, known, net, trail, abandoned, spent>>

(* Mutant: a draft that is undone counts as saved. *)
RestoredClean(els, history) ==
  [ui EXCEPT !.draft.els = els, !.draft.layer = LayerOrder(els), !.history = history,
             !.state = "SAVED"]

Restored(els, history) == [applyOverviewDraftPatch(ui, els) EXCEPT !.history = history]

Undo ==
  /\ Free /\ Editing /\ canUndoOverview(ui.history)
  /\ ui' = Restored(Last(ui.history.past), Undone(ui.history, ui.draft.els))
  /\ trail' = [trail EXCEPT !.at = @ - 1]
  /\ UNCHANGED <<pages, known, net, abandoned, spent>>

Redo ==
  /\ Free /\ Editing /\ canRedoOverview(ui.history)
  /\ ui' = Restored(Head(ui.history.future), Redone(ui.history, ui.draft.els))
  /\ trail' = [trail EXCEPT !.at = @ + 1]
  /\ UNCHANGED <<pages, known, net, abandoned, spent>>

Pan == \E v \in Views \ {ui.view} :
  /\ Free /\ ui.mode = "EDIT" /\ spent.edits < MaxEdits
  /\ ui' = [ui EXCEPT !.view = v]
  /\ Spend("edits")
  /\ UNCHANGED <<pages, known, net, trail, abandoned>>
------------------------------------------------------------------------------
(* Save and cancel                                                         *)

AskSave ==
  /\ Free /\ ui.mode = "EDIT"
  /\ ui' = [ui EXCEPT !.dialog = "save"]
  /\ UNCHANGED <<pages, known, net, trail, abandoned, spent>>

(* An item of the page list follows its page.                              *)
Relisted(listed, page) == [p \in DOMAIN listed |-> IF p = page.id THEN page.name ELSE listed[p]]

(* finishOverviewSave() and what confirmSaveAndExit() does with it.        *)
Finished(u, page) ==
  [u EXCEPT !.active = page, !.base = page, !.draft = page, !.state = "SAVED",
            !.mode = "VIEW", !.dialog = None, !.pending = FALSE, !.history = NoHistory,
            !.view = page.vp]

(* An invalid draft is refused before any request; an unchanged one is not *)
(* sent; otherwise one PUT, against the revision of the baseline.          *)
ConfirmSave ==
  /\ ui.dialog = "save" /\ ~ui.pending /\ Shown # None
  /\ Valid(ui.draft.els, ui.draft.layer)
  /\ UNCHANGED <<pages, known, abandoned>>
  /\ \/ /\ ~overviewSaveNeedsViewportPut(ui.base, ui.draft, ui.view)
        /\ ui' = Finished(ui, ui.base)
        /\ trail' = TrailOf(ui.base)
        /\ UNCHANGED <<net, spent>>
     \/ /\ overviewSaveNeedsViewportPut(ui.base, ui.draft, ui.view)
        /\ spent.requests < MaxRequests /\ Spend("requests")
        /\ ui' = [ui EXCEPT !.pending = TRUE, !.state = "SAVING"]
        /\ net' = net \cup {updateOverviewPage(Shown.id, ui.base, [ui.draft EXCEPT !.vp = ui.view])}
        /\ UNCHANGED trail

CloseSave ==
  /\ ui.dialog = "save" /\ ~ui.pending
  /\ ui' = [ui EXCEPT !.dialog = None]
  /\ UNCHANGED <<pages, known, net, trail, abandoned, spent>>

Cancelled ==
  [cancelOverviewEdit(ui, ui.base) EXCEPT !.dialog = None, !.history = NoHistory,
                                          !.view = ui.base.vp]

AskCancel ==
  /\ Free /\ ui.mode = "EDIT" /\ ui.base # None
  /\ \/ ~shouldConfirmCancel /\ ui' = Cancelled /\ trail' = TrailOf(ui.base)
     \/ shouldConfirmCancel /\ ui' = [ui EXCEPT !.dialog = "cancel"] /\ UNCHANGED trail
  /\ UNCHANGED <<pages, known, net, abandoned, spent>>

ConfirmCancel ==
  /\ ui.dialog = "cancel" /\ ui.base # None
  /\ ui' = Cancelled /\ trail' = TrailOf(ui.base)
  /\ UNCHANGED <<pages, known, net, abandoned, spent>>

------------------------------------------------------------------------------
(* Pages                                                                   *)

(* handleSelectPage(): asks first unless the save state is SAVED.          *)
Select == \E p \in DOMAIN ui.listed \ {ui.page} :
  /\ Free /\ spent.requests < MaxRequests
  /\ \/ /\ ~requiresPageSwitchConfirm(p)
        /\ ui' = Fetching(ui) /\ net' = net \cup {Fetch("open", p)}
        /\ Spend("requests")
     \/ /\ requiresPageSwitchConfirm(p)
        /\ ui' = [ui EXCEPT !.dialog = "switch", !.target = p]
        /\ UNCHANGED <<net, spent>>
  /\ UNCHANGED <<pages, known, trail, abandoned>>

ConfirmSwitch ==
  /\ ui.dialog = "switch" /\ spent.requests < MaxRequests
  /\ ui' = [Fetching(ui) EXCEPT !.dialog = None, !.target = None, !.state = "SAVED"]
  /\ net' = net \cup {Fetch("switch", ui.target)}
  /\ abandoned' = TRUE /\ Spend("requests")
  /\ UNCHANGED <<pages, known, trail>>

CloseDialog ==
  /\ ui.dialog \in {"cancel", "switch", "element"} /\ ~ui.pending
  /\ ui' = [ui EXCEPT !.dialog = None, !.target = None]
  /\ UNCHANGED <<pages, known, net, trail, abandoned, spent>>

(* loadPages(preferred), when the page is mounted.                         *)
Mount ==
  /\ ui.token = 0
  /\ ui' = Fetching(ui) /\ net' = net \cup {Fetch("list", None)}
  /\ UNCHANGED <<pages, known, trail, abandoned, spent>>

(* A name is checked against the list as it was last loaded.               *)
validateOverviewPageName(name, ignoreId) ==
  \A p \in DOMAIN ui.listed \ {ignoreId} : ui.listed[p] # name

(* One dialog has its request out, in VIEW only.                           *)
Submits(request) ==
  /\ Free /\ ~pageCrudDisabledInMode /\ spent.requests < MaxRequests
  /\ ui' = [ui EXCEPT !.dialog = "page", !.pending = TRUE]
  /\ net' = net \cup {request}
  /\ Spend("requests")
  /\ UNCHANGED <<pages, known, trail, abandoned>>

submitNameDialog == \E n \in Names :
  \/ validateOverviewPageName(n, None) /\ Submits(createOverviewPage(n))
  \/ /\ Shown # None
     /\ \/ /\ validateOverviewPageName(n, Shown.id)
           /\ Submits(renameOverviewPage(Shown.id, n))
        \/ /\ validateOverviewPageName(n, None)
           /\ Submits(duplicateOverviewPage(Shown.id, n))

confirmDelete ==
  /\ Shown # None /\ Cardinality(DOMAIN ui.listed) > 1
  /\ Submits(deleteOverviewPage(Shown.id))

------------------------------------------------------------------------------
(* The server: the routes of /api/overview-pages.                          *)

Failed == [ok |-> FALSE, conflict |-> FALSE, page |-> None]
Conflict == [Failed EXCEPT !.conflict = TRUE]
Answer(page) == [ok |-> TRUE, conflict |-> FALSE, page |-> page]
Put(p, page) == [q \in DOMAIN pages \cup {p} |-> IF q = p THEN page ELSE pages[q]]
BumpedNot(page) == page    \* Mutant: a new name keeps the revision.
Bumped(page) == [page EXCEPT !.rev = @ + 1]
Taken(n, p) == \E q \in DOMAIN pages \ {p} : pages[q].name = n
NewPage(p) == p \in PageIds \ known       \* randomUUID(): never used before

Serves(m, answer, after) ==
  /\ pages' = after /\ known' = known \cup DOMAIN after
  /\ net' = (net \ {m}) \cup (IF m.waiting THEN {[m EXCEPT !.answer = answer]} ELSE {})

Accepts(m) == m.body.base.rev = pages[m.page].rev

Update(m) ==
  LET page == m.body.draft
  IN  IF m.page \notin DOMAIN pages THEN Serves(m, Failed, pages)
      ELSE IF ~Accepts(m) THEN Serves(m, Conflict, pages)
      ELSE IF page.name # pages[m.page].name /\ Taken(page.name, m.page)
           THEN Serves(m, Failed, pages)
      ELSE Serves(m, Answer([page EXCEPT !.rev = pages[m.page].rev + 1]),
                  Put(m.page, [page EXCEPT !.rev = pages[m.page].rev + 1]))

(* The elements of a copy get new IDs.                                     *)
Copies(page, id) ==
  {[page EXCEPT !.id = id, !.rev = 1, !.els = [i \in DOMAIN page.els |->
                                                 [page.els[i] EXCEPT !.id = f[@]]],
                !.layer = [i \in DOMAIN page.layer |-> f[page.layer[i]]]] :
     f \in {g \in [IdsOf(page.els) -> ElementIds \ UsedIds] :
              \A a, b \in DOMAIN g : g[a] = g[b] => a = b}}

(* create and duplicate are refused for a name that is taken or too long.  *)
Serve == \E m \in net :
  /\ m.answer = None /\ UNCHANGED <<ui, trail, abandoned, spent>>
  /\ \/ m.op = "put" /\ Update(m)
     \/ m.op = "list" /\ Serves(m, Answer([p \in DOMAIN pages |-> pages[p].name]), pages)
     \/ /\ m.op \in {"open", "switch", "load"}
        /\ Serves(m, IF m.page \in DOMAIN pages THEN Answer(pages[m.page]) ELSE Failed, pages)
     \/ /\ m.op = "create"
        /\ \/ Serves(m, Failed, pages)
           \/ \E p \in PageIds :
                /\ NewPage(p) /\ ~Taken(m.body, None)
                /\ Serves(m, Answer(Empty(p, m.body)), Put(p, Empty(p, m.body)))
     \/ /\ m.op = "rename"
        /\ IF m.page \notin DOMAIN pages \/ Taken(m.body, m.page) THEN Serves(m, Failed, pages)
           ELSE LET page == Bumped([pages[m.page] EXCEPT !.name = m.body])
                IN  Serves(m, Answer(page), Put(m.page, page))
     \/ /\ m.op = "duplicate"
        /\ \/ Serves(m, Failed, pages)
           \/ \E p \in PageIds, n \in Names :
                /\ m.page \in DOMAIN pages /\ NewPage(p) /\ ~Taken(n, None)
                /\ \E copy \in Copies([pages[m.page] EXCEPT !.name = n], p) :
                     Serves(m, Answer(copy), Put(p, copy))
     \/ /\ m.op = "delete"
        /\ IF m.page \notin DOMAIN pages \/ Cardinality(DOMAIN pages) = 1
           THEN Serves(m, Failed, pages)
           ELSE Serves(m, Answer(None), [q \in DOMAIN pages \ {m.page} |-> pages[q]])

(* Another browser saves, renames or deletes a page.                       *)
OtherClient == \E p \in DOMAIN pages :
  /\ spent.others < MaxOthers /\ Spend("others")
  /\ \/ pages' = Put(p, Bumped([pages[p] EXCEPT !.els = <<>>, !.layer = <<>>]))
     \/ \E n \in Names : ~Taken(n, p) /\ pages' = Put(p, Bumped([pages[p] EXCEPT !.name = n]))
     \/ Cardinality(DOMAIN pages) > 1 /\ pages' = [q \in DOMAIN pages \ {p} |-> pages[q]]
  /\ UNCHANGED <<known, ui, net, trail, abandoned>>

------------------------------------------------------------------------------
(* Answers                                                                 *)

Current(m) == m.token = ui.token

(* A page record arrives for the selection, a confirmed switch or a load.  *)
Opened(u, page) ==
  [u EXCEPT !.page = page.id, !.active = page, !.base = page, !.draft = page,
            !.history = NoHistory, !.loading = FALSE]

ShowPage(m) ==
  LET page == m.answer.page
      u == Opened(ui, page)
  IN  /\ ui' = CASE m.op = "open" ->
                      [u EXCEPT !.state = "SAVED", !.view = page.vp,
                                !.dialog = IF @ = "switch" THEN None ELSE @]
                 [] m.op = "switch" -> u
                 [] m.op = "load" ->
                      [u EXCEPT !.state = "SAVED", !.mode = "VIEW", !.view = page.vp]
      /\ trail' = TrailOf(page) /\ abandoned' = FALSE

(* loadPages() with the list: the preferred page, else the remembered one, *)
(* else the first; the page is fetched unless it is the one shown.         *)
ShowList(m) ==
  LET list == m.answer.page
      wanted == IF m.body \in DOMAIN list THEN {m.body}
                ELSE IF ui.page \in DOMAIN list THEN {ui.page} ELSE DOMAIN list
  IN  \E p \in wanted :
        LET u == [ui EXCEPT !.listed = list, !.page = p]
        IN  IF p = ui.page /\ ui.active # None /\ ui.active.id = p
            THEN /\ ui' = [u EXCEPT !.loading = FALSE]
                 /\ net' = net \ {m}
            ELSE /\ ui' = u
                 /\ net' = (net \ {m}) \cup {Request("load", p, None)}

(* The dialog closes; the list is loaded again, with a page preferred.     *)
Reloads(m, u, preferred) ==
  /\ ui' = Fetching([u EXCEPT !.dialog = None, !.pending = FALSE])
  /\ net' = (net \ {m}) \cup {[Fetch("list", None) EXCEPT !.body = preferred]}

Succeeds(m) ==
  /\ \/ /\ m.op = "put"
        /\ ui' = [Finished(ui, m.answer.page) EXCEPT !.listed = Relisted(@, m.answer.page)]
        /\ trail' = TrailOf(m.answer.page)
        /\ net' = net \ {m} /\ UNCHANGED abandoned
     \/ /\ m.op \in {"open", "switch", "load"} /\ Current(m)
        /\ ShowPage(m) /\ net' = net \ {m}
     \/ /\ m.op = "list" /\ Current(m) /\ ShowList(m)
        /\ UNCHANGED <<trail, abandoned>>
     \/ /\ m.op \in {"list", "open", "switch", "load"} /\ ~Current(m)
        /\ net' = net \ {m} /\ UNCHANGED <<ui, trail, abandoned>>
     \/ /\ m.op \in {"create", "duplicate"}
        /\ Reloads(m, ui, m.answer.page.id) /\ UNCHANGED <<trail, abandoned>>
     \/ /\ m.op = "delete"
        /\ Reloads(m, [ui EXCEPT !.page = None, !.active = None, !.base = None,
                                 !.draft = None, !.history = NoHistory], None)
        /\ trail' = NoTrail /\ UNCHANGED abandoned
     \/ /\ m.op = "rename"
        /\ ui' = [ui EXCEPT !.active = m.answer.page, !.base = m.answer.page,
                            !.draft = m.answer.page, !.dialog = None, !.pending = FALSE,
                            !.listed = Relisted(@, m.answer.page)]
        /\ trail' = TrailOf(m.answer.page)
        /\ net' = net \ {m} /\ UNCHANGED abandoned

(* A refusal, an error or a timeout: the save dialog stays open with the   *)
(* draft, the other dialogs are left to the user.                          *)
Fails(m, conflict) ==
  ui' = CASE m.op = "put" ->
               [ui EXCEPT !.state = classifySaveFailure(conflict),
                          !.pending = FALSE]
          [] m.op \in {"list", "open", "switch", "load"} ->
               IF Current(m) THEN [ui EXCEPT !.loading = FALSE] ELSE ui
          [] OTHER -> [ui EXCEPT !.dialog = None, !.pending = FALSE]

ReceiveAnswer == \E m \in net :
  /\ m.waiting /\ m.answer # None /\ UNCHANGED <<pages, known, spent>>
  /\ IF m.answer.ok THEN Succeeds(m)
     ELSE /\ Fails(m, m.answer.conflict) /\ net' = net \ {m}
          /\ UNCHANGED <<trail, abandoned>>

(* No answer in 10 s; what was sent may still be carried out.              *)
TimesOut == \E m \in net :
  /\ m.waiting /\ spent.timeouts < MaxTimeouts /\ Spend("timeouts")
  /\ Fails(m, FALSE)
  /\ net' = (net \ {m}) \cup
            (IF m.answer = None /\ m.op \in {"put", "create", "rename", "duplicate", "delete"}
             THEN {[m EXCEPT !.waiting = FALSE]} ELSE {})
  /\ UNCHANGED <<pages, known, trail, abandoned>>

------------------------------------------------------------------------------
Edit == Add \/ Move \/ Patch \/ Toggle \/ Layer \/ Duplicate \/ AskDelete
        \/ ResizeMove \/ Undo \/ Redo

EditorNext ==
  \/ Mount \/ EnterEdit \/ Pan
  \/ Editing /\ Edit
  \/ ConfirmDelete \/ ResizeEnd \/ ResizeCancel
  \/ AskSave \/ ConfirmSave \/ CloseSave \/ AskCancel \/ ConfirmCancel
  \/ Select \/ ConfirmSwitch \/ CloseDialog \/ submitNameDialog \/ confirmDelete
  \/ Serve \/ OtherClient \/ ReceiveAnswer \/ TimesOut

EditorSpec == EditorInit /\ [][EditorNext]_editorVars
FairEditorSpec == EditorSpec /\ WF_editorVars(Mount) /\ WF_editorVars(Serve) /\ WF_editorVars(ReceiveAnswer)

------------------------------------------------------------------------------
(* Properties                                                              *)

EditorTypeOK ==
  /\ ui.mode \in {"VIEW", "EDIT"}
  /\ ui.state \in {"SAVED", "UNSAVED", "SAVING", "ERROR", "CONFLICT"}
  /\ ui.dialog \in {None, "save", "cancel", "switch", "element", "page"}
  /\ {ui.pending, ui.loading, abandoned} \subseteq BOOLEAN
  /\ DOMAIN ui.listed \subseteq PageIds /\ ui.page \in PageIds \cup {None}
  /\ DOMAIN pages \subseteq PageIds /\ DOMAIN pages # {}
  /\ \A p \in DOMAIN pages : pages[p].id = p /\ pages[p].rev \in Nat \ {0}

(* Undo and redo walk the lists of elements the user has made in this      *)
(* session, in order, whatever was edited, saved, cancelled or answered in *)
(* between: the draft, the past and the future are one trail, of which     *)
(* only the entries beyond the limit are forgotten.                        *)
HistoryIsTrail ==
  ui.draft # None =>
    /\ ui.draft.els = trail.all[trail.at]
    /\ ui.history.future = SubSeq(trail.all, trail.at + 1, Len(trail.all))
    /\ ui.history.past = LastOf(SubSeq(trail.all, 1, trail.at - 1), Len(ui.history.past))
    /\ Len(ui.history.past) = trail.at - 1 \/ spent.edits > HistoryLimit

(* The editor calls a draft saved only when it is the baseline, after any  *)
(* order of edits, undos, failed saves and answers. (A confirmed page      *)
(* switch that fails is the exception: see README, Disagreements.)         *)
SavedMeansSaved ==
  ui.mode = "EDIT" /\ ui.state = "SAVED" /\ ~abandoned => ui.draft = ui.base

(* Every page the server holds passes the validation of the editor, and    *)
(* the layer order of a draft always lists exactly its elements: no        *)
(* sequence of edits makes a page that cannot be saved or shown.           *)
PagesValid ==
  /\ \A p \in DOMAIN pages : Valid(pages[p].els, pages[p].layer)
  /\ ui.draft # None =>
       /\ ToSet(ui.draft.layer) = IdsOf(ui.draft.els)
       /\ Len(ui.draft.layer) = Cardinality(IdsOf(ui.draft.els))
       /\ Len(ui.draft.els) = Len(ui.draft.layer)

(* A save the server carries out replaces the page its draft was made from *)
(* and nothing newer, although another browser saves and renames, and a    *)
(* save that timed out may be carried out after all and be tried again.    *)
NoLostUpdate ==
  [][pages' # pages =>
       \A m \in net :
         m.op = "put" /\ m.answer = None /\ m \notin net' => pages[m.page] = m.body.base]_editorVars

(* A dialog that waits for the server, and a page that loads, come to an   *)
(* end, in whatever order the answers arrive and whichever are stale.      *)
RequestsSettle == (ui.pending \/ ui.loading) ~> ~(ui.pending \/ ui.loading)

=============================================================================
