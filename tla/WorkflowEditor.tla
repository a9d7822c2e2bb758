---------------------------- MODULE WorkflowEditor ----------------------------
(***************************************************************************)
(* client/src/App.tsx: one browser that edits workflows and saves them by  *)
(* itself.  An edit takes a snapshot of the canvas and appends a save to   *)
(* the promise chain of its workflow (persist); a change of a parameter    *)
(* waits for a quiet moment first.  The first save of a chain talks to the *)
(* server, once more after a revision conflict; requests can be late or    *)
(* lost.  The server's broadcasts, another browser and loads of the        *)
(* workflow change the canvas in between.                                  *)
(*                                                                         *)
(* ed is the state of the React component:                                 *)
(*   active        activeWorkflowId                                        *)
(*   raw, canvas   rawNodes and rawEdges; nodes and edges as drawn         *)
(*   rev, known    workflowRevision and revisionByWorkflow                 *)
(*   mode, label   the mode shown, and the text of the save indicator      *)
(*   pending       parameterSnapshot, with its timer                       *)
(*   chains        saveChains: per workflow, the saves that have not ended *)
(*   undo, redo    the histories                                           *)
(*   leaving       the workflow selectWorkflow goes to, and the save it    *)
(*                 waits for                                               *)
(*   shows, lost   the workflow the canvas came from, and whether a save   *)
(*                 failed since it was drawn (no variables of the program) *)
(* turn counts the calls of persist, taken the snapshots taken of a        *)
(* canvas; the server remembers both of the last save of this browser.     *)
(***************************************************************************)
EXTENDS Integers, FiniteSets, Sequences, SequencesExt, FiniteSetsExt, Functions

CONSTANTS
  Nil,
  Workflow,      \* IDs of workflows
  First,         \* the workflow that is open at the start
  Stored,        \* Workflow -> what the server has at the start: [doc, rev, mode]
  Parameters,    \* values of a block's parameters
  UserModes,     \* modes the user can choose
  Kinds,         \* for each edit the user makes, the kinds it can be of
  Slots,         \* places a block can be moved to
  MaxSwitches,   \* selections of another workflow
  MaxModes,      \* changes of the mode
  MaxLoads,      \* loads that a reconnection starts
  MaxTimeouts,   \* requests that get no answer in time
  MaxOthers,     \* changes another browser makes
  MaxEvents      \* all of these together

ASSUME AutosaveAssumption ==
  /\ First \in Workflow
  /\ \A w \in Workflow : Stored[w].rev \in Nat
  /\ Nil \notin Nat

VARIABLES
  server,    \* workflow -> [doc, rev, mode, turn, taken]
  ed,        \* the client
  net,       \* requests in flight
  news,      \* broadcasts that have not arrived, in the order of the socket
  made,      \* [turn, taken, block]: the last of each
  used       \* uses of the bounds

autosaveVars == <<server, ed, net, news, made, used>>

Bounds == [edit |-> Len(Kinds), switch |-> MaxSwitches, mode |-> MaxModes,
           load |-> MaxLoads, timeout |-> MaxTimeouts, other |-> MaxOthers]
Spend(what) ==
  /\ used[what] < Bounds[what]
  /\ used.all < MaxEvents
  /\ used' = [used EXCEPT ![what] = @ + 1, !.all = @ + 1]

AutosaveInit ==
  /\ server = [w \in Workflow |-> [doc |-> Stored[w].doc, rev |-> Stored[w].rev,
                                   mode |-> Stored[w].mode, turn |-> 0, taken |-> 0]]
  /\ net = {} /\ used = [b \in DOMAIN Bounds \cup {"all"} |-> 0]
  /\ news = <<>>
  /\ made = [turn |-> 0, taken |-> 0,
             block |-> Max(UNION {DOMAIN Stored[w].doc.nodes : w \in Workflow})]
  /\ ed = [active |-> First, raw |-> Stored[First].doc, canvas |-> Stored[First].doc,
           rev |-> Stored[First].rev,
           known |-> [w \in Workflow |-> IF w = First THEN Stored[w].rev ELSE Nil],
           mode |-> Stored[First].mode, label |-> "Saved", pending |-> Nil,
           chains |-> [w \in Workflow |-> <<>>], undo |-> <<>>, redo |-> <<>>,
           leaving |-> Nil, shows |-> First, lost |-> FALSE]

------------------------------------------------------------------------------
(* Copies of blocks (lib/nodeDuplicate.ts). A name is the numbers of the   *)
(* copies that led to it, a place the number of offsets along a diagonal.  *)

uniqueNodeName(name, taken) ==
  Append(name, Min({k \in 1..(Cardinality(taken) + 1) : Append(name, k) \notin taken}))

isPositionOccupied(at, nodes, ignored) ==
  \E id \in DOMAIN nodes \ {ignored} : nodes[id].at = at

buildDuplicateNode(id, nodes) ==
  LET from == nodes[id].at + 1
  IN [name  |-> uniqueNodeName(nodes[id].name, {nodes[b].name : b \in DOMAIN nodes}),
      at    |-> Min({p \in from..(from + Cardinality(DOMAIN nodes)) :
                       ~isPositionOccupied(p, nodes, id)}),
      param |-> nodes[id].param]

duplicateNode(id, doc, newId) ==
  [doc EXCEPT !.nodes = [b \in DOMAIN @ \cup {newId} |->
                           IF b = newId THEN buildDuplicateNode(id, @) ELSE @[b]]]

(* Other changes of a document.                                            *)
withBlock(doc, id) ==
  LET free == Min({p \in 0..Cardinality(DOMAIN doc.nodes) :
                     ~isPositionOccupied(p, doc.nodes, Nil)})
      new  == [name |-> <<>>, at |-> free, param |-> CHOOSE p \in Parameters : TRUE]
  IN [doc EXCEPT !.nodes = [b \in DOMAIN @ \cup {id} |-> IF b = id THEN new ELSE @[b]]]

withoutBlock(doc, id) ==
  [nodes |-> Restrict(doc.nodes, DOMAIN doc.nodes \ {id}),
   edges |-> {e \in doc.edges : id \notin {e.source, e.target}}]

------------------------------------------------------------------------------
(* The chain of saves                                                      *)

Save(of, doc, mode, taken, edge) ==
  [turn |-> made.turn + 1, taken |-> taken, of |-> of, doc |-> doc, mode |-> mode,
   edge |-> edge, step |-> "queued"]

(* persist: it saves to the workflow that is active now.                   *)
persist(e, save) ==
  [e EXCEPT !.label = "Saving...", !.chains[e.active] = Append(@, save)]

Idle(e) == \A w \in Workflow : e.chains[w] = <<>>

Request(op, w, rev, save) ==
  [op |-> op, workflow |-> w, rev |-> rev, doc |-> save.doc, mode |-> save.mode,
   turn |-> save.turn, taken |-> save.taken, at |-> used.load + used.switch + used.mode,
   waiting |-> TRUE, answer |-> Nil]

(* The effect on workflowRevision runs when it changes, or active does.    *)
SetRevision(e, rev) ==
  [e EXCEPT !.rev = rev, !.known[e.active] = IF rev # e.rev THEN rev ELSE @]

revisionOf(w) == IF ed.known[w] # Nil THEN ed.known[w] ELSE ed.rev

(* Mutant: a save does not wait for the one before it.                     *)
ReadyAtOnce(w) == {i \in DOMAIN ed.chains[w] : ed.chains[w][i].step = "queued"}
Ready(w) == {i \in DOMAIN ed.chains[w] : i = 1 /\ ed.chains[w][i].step = "queued"}

StartSave(w) == \E i \in Ready(w) :
  /\ ed' = [ed EXCEPT !.chains[w][i].step = "saving"]
  /\ net' = net \cup {Request("put", w, revisionOf(w), ed.chains[w][i])}
  /\ UNCHANGED <<server, news, made, used>>

(* The place in its chain of the save that a request belongs to.           *)
PlaceOf(r) ==
  CHOOSE i \in DOMAIN ed.chains[r.workflow] : ed.chains[r.workflow][i].turn = r.turn
SaveOf(r) == ed.chains[r.workflow][PlaceOf(r)]

Ended(e, r) == [e EXCEPT !.chains[r.workflow] = RemoveAt(@, PlaceOf(r))]

(* Mutant: the canvas is not drawn again.                                  *)
SavedUndrawn(r) ==
  LET e == [Ended(ed, r) EXCEPT !.known[r.workflow] = r.answer.rev]
  IN IF r.workflow # e.active THEN e ELSE [SetRevision(e, r.answer.rev) EXCEPT !.label = "Saved"]
Saved(r) ==
  LET e == [Ended(ed, r) EXCEPT !.known[r.workflow] = r.answer.rev]
  IN IF r.workflow # e.active THEN e
     ELSE [SetRevision(e, r.answer.rev) EXCEPT
             !.raw = r.doc, !.canvas = r.doc, !.label = "Saved", !.shows = SaveOf(r).of,
             !.lost = FALSE]

(* Mutant: the failure is shown, and the chain waits for it for ever.      *)
FailedStuck(r) == IF r.workflow = ed.active THEN [ed EXCEPT !.label = "Save failed"] ELSE ed
(* A failed connection takes its edge off the canvas again.                *)
Failed(r) ==
  LET e == [Ended(ed, r) EXCEPT !.canvas.edges = {x \in @ : x # SaveOf(r).edge}]
  IN IF r.workflow = e.active THEN [e EXCEPT !.label = "Save failed", !.lost = TRUE] ELSE e

Stepped(r, step) == [ed EXCEPT !.chains[r.workflow][PlaceOf(r)].step = step]

PutAnswered(r) ==
  /\ r.op = "put" /\ r.waiting /\ r.answer # Nil
  /\ \/ /\ r.answer.ok
        /\ ed' = Saved(r) /\ net' = net \ {r}
     \/ /\ ~r.answer.ok /\ SaveOf(r).step = "saving"
        /\ ed' = LET e == Stepped(r, "reading")
                 IN IF r.workflow = e.active THEN [e EXCEPT !.label = "Conflict"] ELSE e
        /\ net' = (net \ {r}) \cup {[r EXCEPT !.op = "get", !.answer = Nil]}
     \/ /\ ~r.answer.ok /\ SaveOf(r).step = "retrying"
        /\ ed' = Failed(r) /\ net' = net \ {r}
  /\ UNCHANGED <<server, news, made, used>>

GetAnswered(r) ==
  /\ r.op = "get" /\ r.waiting /\ r.answer # Nil
  /\ ed' = [Stepped(r, "retrying") EXCEPT !.known[r.workflow] = r.answer.rev]
  /\ net' = (net \ {r}) \cup {[r EXCEPT !.op = "put", !.rev = r.answer.rev, !.answer = Nil]}
  /\ UNCHANGED <<server, news, made, used>>
------------------------------------------------------------------------------
(* The server (WorkflowManager.update and the handlers of index.ts)        *)

Broadcast(w, s) ==
  [type |-> "workflow", workflow |-> w, rev |-> s.rev, doc |-> s.doc, mode |-> s.mode]

update(r) ==
  IF r.rev # server[r.workflow].rev
  THEN [ok |-> FALSE, now |-> server[r.workflow]]
  ELSE [ok |-> TRUE, now |-> [doc |-> r.doc, rev |-> r.rev + 1, mode |-> r.mode,
                              turn |-> r.turn, taken |-> r.taken]]

(* A request nobody waits for is carried out without an answer.            *)
Answer(r, a) == (net \ {r}) \cup (IF r.waiting THEN {[r EXCEPT !.answer = a]} ELSE {})

ServePut(r) ==
  LET u == update(r)
  IN /\ r.op = "put" /\ r.answer = Nil
     /\ server' = [server EXCEPT ![r.workflow] = u.now]
     /\ news' = IF u.ok THEN Append(news, Broadcast(r.workflow, u.now)) ELSE news
     /\ net' = Answer(r, [ok |-> u.ok, rev |-> u.now.rev])
     /\ UNCHANGED <<ed, made, used>>

ServeGet(r) ==
  /\ r.op \in {"get", "load"} /\ r.answer = Nil
  /\ net' = Answer(r, Broadcast(r.workflow, server[r.workflow]))
  /\ UNCHANGED <<server, ed, news, made, used>>

ServeMode(r) ==
  LET s == server[r.workflow]
  IN /\ r.op = "mode" /\ r.answer = Nil
     /\ server' = [server EXCEPT ![r.workflow] = [s EXCEPT !.mode = r.mode, !.rev = @ + 1]]
     /\ news' = Append(news, [type |-> "workflow-state", workflow |-> r.workflow,
                               mode |-> r.mode])
     /\ net' = Answer(r, r.mode)
     /\ UNCHANGED <<ed, made, used>>

ServeActivate(r) ==
  /\ r.op = "activate" /\ r.answer = Nil
  /\ news' = Append(news, Broadcast(r.workflow, server[r.workflow]))
  /\ net' = Answer(r, TRUE)
  /\ UNCHANGED <<server, ed, made, used>>

Serve == \E r \in net : ServePut(r) \/ ServeGet(r) \/ ServeMode(r) \/ ServeActivate(r)

(* Another browser stores a change of a block.                             *)
OtherSaves(w) ==
  /\ Spend("other")
  /\ \E b \in DOMAIN server[w].doc.nodes : \E p \in Parameters \ {server[w].doc.nodes[b].param} :
       server' = [server EXCEPT ![w].doc.nodes[b].param = p, ![w].rev = @ + 1]
  /\ news' = Append(news, Broadcast(w, server'[w]))
  /\ UNCHANGED <<ed, net, made>>

------------------------------------------------------------------------------
(* What arrives at the client                                              *)

(* A document is drawn again in the parts that differ from the last one.   *)
Drawn(e, doc) ==
  [e EXCEPT !.raw = doc,
            !.canvas.nodes = IF doc.nodes = e.raw.nodes THEN @ ELSE doc.nodes,
            !.canvas.edges = IF doc.edges = e.raw.edges THEN @ ELSE doc.edges]

Heard(type) == news # <<>> /\ Head(news).type = type /\ news' = Tail(news)

HearWorkflow ==
  /\ Heard("workflow")
  /\ LET m == Head(news)
         w == m.workflow
         stale == w # ed.active \/ (ed.known[w] # Nil /\ m.rev < ed.known[w])
         e == [ed EXCEPT !.known[w] = m.rev, !.rev = m.rev, !.mode = m.mode, !.shows = w]
     IN ed' = IF stale THEN ed ELSE Drawn(e, m.doc)
  /\ UNCHANGED <<server, net, made, used>>

HearMode ==
  /\ Heard("workflow-state")
  /\ ed' = IF Head(news).workflow = ed.active THEN [ed EXCEPT !.mode = Head(news).mode] ELSE ed
  /\ UNCHANGED <<server, net, made, used>>

NoSave == [doc |-> Nil, mode |-> Nil, turn |-> 0, taken |-> 0]

(* load: it reads the workflow, activates it, and draws what it has read.  *)
(* After a reconnection, what the old socket had not delivered is lost.    *)
Reload ==
  /\ Spend("load")
  /\ net' = net \cup {Request("load", ed.active, 0, NoSave)}
  /\ news' \in {news, <<>>}
  /\ UNCHANGED <<server, ed, made>>

LoadRead(r) ==
  /\ r.op = "load" /\ r.waiting /\ r.answer # Nil
  /\ net' = (net \ {r}) \cup {[r EXCEPT !.op = "activate", !.rev = r.answer.rev,
                              !.doc = r.answer.doc, !.mode = r.answer.mode, !.answer = Nil]}
  /\ UNCHANGED <<server, ed, news, made, used>>

LoadDone(r) ==
  /\ r.op = "activate" /\ r.waiting /\ r.answer # Nil
  /\ ed' = [SetRevision([ed EXCEPT !.known[r.workflow] = r.rev], r.rev) EXCEPT
              !.raw = r.doc, !.canvas = r.doc, !.mode = r.mode, !.shows = r.workflow,
              !.lost = FALSE]
  /\ net' = net \ {r}
  /\ UNCHANGED <<server, news, made, used>>

ModeAnswered(r) ==
  /\ r.op = "mode" /\ r.waiting /\ r.answer # Nil
  /\ ed' = [ed EXCEPT !.mode = r.answer, !.label = "Saved"]
  /\ net' = net \ {r}
  /\ UNCHANGED <<server, news, made, used>>

(* The client gives up on a request after ten seconds. The request, or its *)
(* answer, is lost; or the request is late and will be carried out.        *)
TimeOut(r) ==
  /\ r.waiting /\ Spend("timeout")
  /\ \/ net' = net \ {r}
     \/ /\ r.op \in {"put", "mode"} /\ r.answer = Nil
        /\ net' = (net \ {r}) \cup {[r EXCEPT !.waiting = FALSE]}
  /\ ed' = CASE r.op \in {"put", "get"} -> Failed(r)
             [] r.op = "mode" -> [ed EXCEPT !.mode = r.doc.before, !.label = "Not saved"]
             [] OTHER -> ed
  /\ UNCHANGED <<server, news, made>>

------------------------------------------------------------------------------
(* Edits                                                                   *)

Snapshot(doc, of, taken) == [doc |-> doc, of |-> of, taken |-> taken]

(* An edit takes a snapshot and saves it. before: the state of the page    *)
(* when the snapshot is saved; edge: the edge to take back if that fails.  *)
SaveEdit(before, doc, edge) ==
  /\ ed' = persist(before, Save(ed.shows, doc, ed.mode, made.taken + 1, edge))
  /\ made' = [made EXCEPT !.turn = @ + 1, !.taken = @ + 1]

Remembering == [ed EXCEPT !.undo = Append(@, Snapshot(ed.canvas, ed.shows, made.taken)),
                          !.redo = <<>>]

Edit(kind) ==
  /\ Spend("edit") /\ kind \in Kinds[used.edit + 1]
  /\ UNCHANGED <<server, net, news>>

addBlock ==
  /\ Edit("add")
  /\ ed' = persist(Remembering, Save(ed.shows, withBlock(ed.canvas, made.block + 1), ed.mode,
                                     made.taken + 1, Nil))
  /\ made' = [turn |-> made.turn + 1, taken |-> made.taken + 1, block |-> made.block + 1]

duplicateNodeById(b) ==
  /\ Edit("duplicate")
  /\ ed' = persist(Remembering, Save(ed.shows, duplicateNode(b, ed.canvas, made.block + 1),
                                     ed.mode, made.taken + 1, Nil))
  /\ made' = [turn |-> made.turn + 1, taken |-> made.taken + 1, block |-> made.block + 1]

(* The dialog remembers the canvas for undo, the Delete key does not.      *)
confirmDeleteBlock(b) == Edit("delete") /\ SaveEdit(Remembering, withoutBlock(ed.canvas, b), Nil)
remove(b) == Edit("remove") /\ SaveEdit(ed, withoutBlock(ed.canvas, b), Nil)
removeEdge(x) ==
  Edit("remove") /\ SaveEdit(ed, [ed.canvas EXCEPT !.edges = @ \ {x}], Nil)

onNodeDragStop(b, at) ==
  /\ Edit("drag") /\ at # ed.canvas.nodes[b].at
  /\ LET e == [ed EXCEPT !.canvas.nodes[b].at = at] IN SaveEdit(e, e.canvas, Nil)

connect(from, to) ==
  /\ Edit("connect") /\ from # to /\ \A x \in ed.canvas.edges : x.target # to
  /\ LET x == [source |-> from, target |-> to]
         e == [ed EXCEPT !.canvas.edges = @ \cup {x}]
     IN SaveEdit(e, e.canvas, x)

(* Undo and redo: each puts the canvas on the other stack.                 *)
restoreSnapshot(source, destination) ==
  /\ Edit("history") /\ ed[source] # <<>>
  /\ LET last == Last(ed[source])
         e == [ed EXCEPT ![source] = Front(@),
                         ![destination] = Append(@, Snapshot(ed.canvas, ed.shows, made.taken))]
     IN ed' = persist(e, Save(last.of, last.doc, ed.mode, made.taken + 1, Nil))
  /\ made' = [made EXCEPT !.turn = @ + 1, !.taken = @ + 1]

updateNodeDebounced(b, param) ==
  /\ Edit("parameter") /\ param # ed.canvas.nodes[b].param
  /\ LET doc == [ed.canvas EXCEPT !.nodes[b].param = param]
     IN ed' = [ed EXCEPT !.canvas.nodes = doc.nodes, !.raw.nodes = doc.nodes,
                         !.label = "Pending changes",
                         !.pending = [workflow |-> ed.active]
                                     @@ Snapshot(doc, ed.shows, made.taken + 1)]
  /\ made' = [made EXCEPT !.taken = @ + 1]

PendingSave(taken) == Save(ed.pending.of, ed.pending.doc, ed.mode, taken, Nil)

(* The timer of a parameter change.                                        *)
ParameterTimer ==
  /\ ed.pending # Nil
  /\ ed' = persist([ed EXCEPT !.pending = Nil], PendingSave(ed.pending.taken))
  /\ made' = [made EXCEPT !.turn = @ + 1]
  /\ UNCHANGED <<server, net, news, used>>

(* An update of the runtime or a selection draws the edges from rawEdges.  *)
RedrawEdges ==
  /\ ed.canvas.edges # ed.raw.edges
  /\ ed' = [ed EXCEPT !.canvas.edges = ed.raw.edges]
  /\ UNCHANGED <<server, net, news, made, used>>

changeMode(mode) ==
  /\ Spend("mode") /\ mode # ed.mode
  /\ ed' = [ed EXCEPT !.mode = mode, !.label = "Changing mode..."]
  /\ net' = net \cup {Request("mode", ed.active, 0, [NoSave EXCEPT !.mode = mode, !.doc = [before |-> ed.mode]])}
  /\ UNCHANGED <<server, news, made>>

------------------------------------------------------------------------------
(* Another workflow is opened: the parameter change is saved first. The    *)
(* live socket is closed and opened again, for its effect depends on load. *)

Opened(e, w) ==
  /\ ed' = [e EXCEPT !.active = w, !.known[w] = e.rev, !.leaving = Nil]
  /\ net' = net \cup {Request("load", w, 0, NoSave)} /\ news' = <<>>

selectWorkflow(w) ==
  /\ Spend("switch") /\ w # ed.active /\ ed.leaving = Nil
  /\ IF ed.pending # Nil /\ ed.pending.workflow = ed.active
     THEN /\ ed' = [persist([ed EXCEPT !.pending = Nil], PendingSave(ed.pending.taken))
                     EXCEPT !.leaving = [to |-> w, turn |-> made.turn + 1]]
          /\ made' = [made EXCEPT !.turn = @ + 1]
          /\ UNCHANGED <<net, news>>
     ELSE Opened(ed, w) /\ UNCHANGED made
  /\ UNCHANGED server

Leave ==
  /\ ed.leaving # Nil
  /\ \A s \in Range(ed.chains[ed.active]) : s.turn # ed.leaving.turn
  /\ Opened(ed, ed.leaving.to)
  /\ UNCHANGED <<server, made, used>>
------------------------------------------------------------------------------

Answered(r) == PutAnswered(r) \/ GetAnswered(r) \/ LoadRead(r) \/ LoadDone(r) \/ ModeAnswered(r)

UserEdits ==
  \/ addBlock
  \/ \E b \in DOMAIN ed.canvas.nodes :
       \/ duplicateNodeById(b) \/ confirmDeleteBlock(b) \/ remove(b)
       \/ \E at \in Slots : onNodeDragStop(b, at)
       \/ \E p \in Parameters : updateNodeDebounced(b, p)
       \/ \E to \in DOMAIN ed.canvas.nodes : connect(b, to)
  \/ \E x \in ed.canvas.edges : removeEdge(x)
  \/ restoreSnapshot("undo", "redo")
  \/ restoreSnapshot("redo", "undo")

UserActs == UserEdits \/ (\E m \in UserModes : changeMode(m)) \/ (\E w \in Workflow : selectWorkflow(w))

Environment == Reload \/ RedrawEdges \/ \E w \in Workflow : OtherSaves(w)

(* What goes on without the user.                                          *)
Progress ==
  \/ Serve \/ \E r \in net : Answered(r)
  \/ HearWorkflow \/ HearMode \/ \E w \in Workflow : StartSave(w)
  \/ ParameterTimer \/ Leave

AutosaveNext == UserActs \/ Environment \/ Progress \/ \E r \in net : TimeOut(r)

AutosaveSpec == AutosaveInit /\ [][AutosaveNext]_autosaveVars
FairAutosaveSpec == AutosaveSpec /\ WF_autosaveVars(Progress)

------------------------------------------------------------------------------
(* Properties                                                              *)

(* A snapshot never overwrites a later one: the saves of a workflow reach  *)
(* the server in the order of the calls of persist, after conflicts and    *)
(* time-outs too. (A workflow that was just opened has the revision of the *)
(* one before it until it is loaded; a save that is late from then, which  *)
(* nobody waits for, may have the right number later.)                     *)
StepInOrder ==
  \A w \in Workflow : server'[w].turn < server[w].turn =>
    /\ used.switch > 0
    /\ \A r \in net : r.op = "put" /\ r.waiting => r.turn # server'[w].turn
SavesInOrder == [][StepInOrder]_autosaveVars

Settled ==
  /\ Idle(ed) /\ ed.pending = Nil /\ ed.shows = ed.active
  /\ \A r \in net : ~r.waiting

ClaimsSaved == Settled /\ ed.label = "Saved" /\ ed.known[ed.active] = server[ed.active].rev

(* "Saved" can be believed: when nothing is under way and the editor knows *)
(* the revision of the server, the canvas is the stored workflow, unless a *)
(* save has failed since it was drawn, which a change of the mode covers.  *)
SavedIsStored == ClaimsSaved => ed.canvas = server[ed.active].doc \/ ed.lost

(* The same without the exception. The code does not keep it: the answer   *)
(* to a change of the mode sets the label of the saves, see the README.    *)
LabelIsOfSaves == ClaimsSaved => ed.canvas = server[ed.active].doc

(* Every save ends, stored or failed, the parameter change that waits for  *)
(* its timer included, and an opened workflow is loaded.                   *)
EverySaveEnds ==
  (~Idle(ed) \/ ed.pending # Nil \/ ed.leaving # Nil)
    ~> (Idle(ed) /\ ed.pending = Nil /\ ed.leaving = Nil)

(* README.md:142, "Latest snapshot wins": when everything has been saved   *)
(* without a failure and nobody else has changed the workflow, it is the   *)
(* last snapshot that was taken.                                           *)
LatestSnapshotWins ==
  Settled /\ used.timeout = 0 /\ used.other = 0 /\ used.switch = 0 /\ made.taken > 0
    => server[ed.active].taken = made.taken

(* A snapshot of one workflow is not saved to another.                     *)
SavesGoHome ==
  \A r \in net : r.op = "put" => 
    \A s \in Range(ed.chains[r.workflow]) : s.turn = r.turn => s.of = r.workflow

(* A save arms a workflow only if the page shows it armed: a mode the user *)
(* has left is not brought back by a save from before.                     *)
DisarmHolds ==
  [][\A w \in Workflow :
       server'[w].turn > server[w].turn /\ server'[w].mode = "LIVE_ARMED"
         => "LIVE_ARMED" \in {server[w].mode, ed.mode}]_autosaveVars

==============================================================================
