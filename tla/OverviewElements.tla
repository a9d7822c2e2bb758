-------------------------- MODULE OverviewElements --------------------------
(* What the Overview editor does to the list of elements of a page: order  *)
(* in depth, placement of new elements, the resize gesture, the undo       *)
(* history and the validation before a save. An element is [id, x, w, z,   *)
(* locked, vis, look]: x and w are its position and width in cells of one   *)
(* row of the snap grid, look stands for the fields the inspector patches,  *)
(* "blank" for a value the validation refuses.                              *)
EXTENDS Integers, FiniteSets, Sequences, SequencesExt

CONSTANTS
  None,          \* null
  CanvasWidth,   \* width of the design canvas, in cells
  SearchLimit,   \* cells a search for a free slot visits (400)
  HistoryLimit   \* undo entries kept (100)

ASSUME ElementsAssumption ==
  /\ {CanvasWidth, SearchLimit, HistoryLimit} \subseteq Nat \ {0}

IdsOf(els) == {els[i].id : i \in DOMAIN els}
At(els, id) == CHOOSE i \in DOMAIN els : els[i].id = id
Find(els, id) == els[At(els, id)]

(* elements.map(el => el.id === id && ok ? {...el, ...} : el)              *)
Mapped(els, id, New(_)) ==
  [i \in DOMAIN els |-> IF els[i].id = id THEN New(els[i]) ELSE els[i]]

Without(els, id) == SelectSeq(els, LAMBDA e : e.id # id)

------------------------------------------------------------------------------
(* Depth. sort() is stable: elements of equal zIndex keep their order.     *)
Arranged(els, Before(_, _)) ==
  LET Rank(i) == 1 + Cardinality({j \in DOMAIN els \ {i} :
                       \/ Before(els[j], els[i])
                       \/ (~Before(els[i], els[j]) /\ j < i)})
  IN  [k \in DOMAIN els |-> els[CHOOSE i \in DOMAIN els : Rank(i) = k]]

Lower(a, b) == a.z < b.z
ByDepth(els) == Arranged(els, Lower)
Renumbered(els) == [i \in DOMAIN els |-> [els[i] EXCEPT !.z = i]]
Swapped(els, i, j) == [els EXCEPT ![i] = els[j], ![j] = els[i]]

BringForward(els, id) ==
  LET s == ByDepth(els)  i == At(s, id)
  IN  IF id \notin IdsOf(els) \/ i = Len(s) THEN els ELSE Renumbered(Swapped(s, i, i + 1))

SendBackward(els, id) ==
  LET s == ByDepth(els)  i == At(s, id)
  IN  IF id \notin IdsOf(els) \/ i = 1 THEN els ELSE Renumbered(Swapped(s, i - 1, i))

BringToFront(els, id) ==
  IF id \notin IdsOf(els) THEN els
  ELSE Renumbered(Append(ByDepth(Without(els, id)), Find(els, id)))

SendToBack(els, id) ==
  IF id \notin IdsOf(els) THEN els
  ELSE Renumbered(<<Find(els, id)>> \o ByDepth(Without(els, id)))

LayerOps(els, id) ==
  {BringForward(els, id), SendBackward(els, id), BringToFront(els, id), SendToBack(els, id)}

LowerOrSmaller(a, b) == a.z < b.z \/ (a.z = b.z /\ a.id < b.id)
LayerOrder(els) ==
  LET s == Arranged(els, LowerOrSmaller) IN [i \in DOMAIN s |-> s[i].id]

------------------------------------------------------------------------------
(* Placement                                                               *)
Overlaps(x, w, e) == x < e.x + e.w /\ x + w > e.x
Clear(x, w, els) == x >= 0 /\ \A i \in DOMAIN els : ~Overlaps(x, w, els[i])
Distance(a, b) == IF a < b THEN b - a ELSE a - b
Least(S, Key(_)) == CHOOSE x \in S : \A y \in S : Key(x) <= Key(y)

(* Inside the canvas: rings of growing radius around the start, the left   *)
(* cell of a ring first, and at most SearchLimit cells.                    *)
FreeSlotOnCanvas(x, w, els) ==
  LET last == IF w >= CanvasWidth THEN 0 ELSE CanvasWidth - w
      start == IF x < 0 THEN 0 ELSE IF x > last THEN last ELSE x
      Turn(c) == 2 * Distance(c, start) - (IF c < start THEN 1 ELSE 0)
      visited == {c \in 0 .. last :
                    Cardinality({d \in 0 .. last : Turn(d) < Turn(c)}) < SearchLimit}
      free == {c \in visited : Clear(c, w, els)}
  IN  IF free = {} THEN None ELSE Least(free, Turn)

(* Without bounds: one cell further, at most SearchLimit times.            *)
FreeSlotBeyond(x, w, els) ==
  LET free == {c \in x .. x + SearchLimit : Clear(c, w, els)}
  IN  IF free = {} THEN None ELSE Least(free, LAMBDA c : c)

NewElement(id, x, w, z) ==
  [id |-> id, x |-> x, w |-> w, z |-> z, locked |-> FALSE, vis |-> TRUE, look |-> "plain"]

(* handleAddElement: None when the canvas has no room.                     *)
Added(els, id, x, w) ==
  LET slot == FreeSlotOnCanvas(x, w, els)
  IN  IF slot = None THEN els ELSE Append(els, NewElement(id, slot, w, Len(els) + 1))

TopDepth(els) == IF els = <<>> THEN 0 ELSE LET s == ByDepth(els) IN s[Len(s)].z

Duplicated(els, id, new) ==
  LET source == Find(els, id)
      slot == FreeSlotBeyond(source.x + 1, source.w, Without(els, id))
  IN  IF id \notin IdsOf(els) \/ slot = None THEN els
      ELSE Append(els, [source EXCEPT !.id = new, !.x = slot,
                                      !.z = TopDepth(els) + 1, !.locked = FALSE])

------------------------------------------------------------------------------
(* One resize gesture: [id, from, to], the geometry at its start and now.  *)
Geometry(e) == [x |-> e.x, w |-> e.w]

ResizeStarted(gesture, id, els) ==
  IF gesture # None /\ gesture.id = id THEN gesture
  ELSE [id |-> id, from |-> Geometry(Find(els, id)), to |-> Geometry(Find(els, id))]

ResizeMoved(gesture, to) == [gesture EXCEPT !.to = to]

ResizeCommit(gesture) == IF gesture.to = gesture.from THEN None ELSE gesture.to

resizeCancel == None
resizeHandlesVisible(edit, e) == edit /\ ~e.locked

Resized(els, id, geometry) ==
  Mapped(els, id, LAMBDA e : IF e.locked THEN e
                             ELSE [e EXCEPT !.x = geometry.x, !.w = geometry.w])

------------------------------------------------------------------------------
(* Undo and redo                                                           *)
NoHistory == [past |-> <<>>, future |-> <<>>]

LastOf(s, n) == IF Len(s) > n THEN SubSeq(s, Len(s) - n + 1, Len(s)) ELSE s

(* Mutant: a new edit keeps what could be redone.                          *)
PushedOver(history, current) ==
  [past |-> LastOf(Append(history.past, current), HistoryLimit), future |-> history.future]

Pushed(history, current) ==
  [past |-> LastOf(Append(history.past, current), HistoryLimit), future |-> <<>>]

canUndoOverview(history) == history.past # <<>>
canRedoOverview(history) == history.future # <<>>

Undone(history, current) ==
  [past |-> Front(history.past), future |-> <<current>> \o history.future]

Redone(history, current) ==
  [past |-> Append(history.past, current), future |-> Tail(history.future)]

------------------------------------------------------------------------------
(* validateOverviewElements(): no errors.                                  *)
Valid(els, layer) ==
  /\ Cardinality(IdsOf(els)) = Len(els)
  /\ \A i \in DOMAIN els : els[i].look # "blank" /\ els[i].w > 0
  /\ ToSet(layer) = IdsOf(els)
  /\ Cardinality(ToSet(layer)) = Len(layer)
=============================================================================
