-------------------------- MODULE PersistenceProofs --------------------------
(* Theorems about what keeps a workflow: StudioStore, for any numbers of    *)
(* pages, workflows and tags, any number of requests, failed file           *)
(* operations and restarts; and WorkflowEditor, which saves by itself, for  *)
(* any workflows and documents and any number of edits, selections, loads,  *)
(* time-outs and changes by others.                                         *)
EXTENDS StudioStore, WorkflowEditor, FiniteSetTheorems, SequenceTheorems,
        WellFoundedInduction, TLAPS

-----------------------------------------------------------------------------
(***************************************************************************)
(* StudioStore                                                             *)
(***************************************************************************)

(* What the helpers of the stores return.                                   *)

LEMMA PutType ==
  ASSUME NEW ids, NEW T, NEW store \in Filed(ids, T),
         NEW i \in ids, NEW v \in T \cup {None}, NEW k
  PROVE  /\ Put(store, i, v, k) \in Filed(ids, T)
         /\ Put(store, i, v, k).memory = [store.memory EXCEPT ![i] = v]
         /\ Put(store, i, v, k).files =
              IF k >= 1 THEN [store.files EXCEPT ![i] = v] ELSE store.files
         /\ Put(store, i, v, k).index =
              IF k >= 2 THEN Listed(Put(store, i, v, k)) ELSE store.index
<1>1. [store.memory EXCEPT ![i] = v] \in Items(ids, T)
  BY DEF Filed, Items
<1>2. [store.files EXCEPT ![i] = v] \in Items(ids, T)
  BY DEF Filed, Items
<1>3. DOMAIN [store.memory EXCEPT ![i] = v] = ids
  BY <1>1 DEF Items
<1> QED
  BY <1>1, <1>2, <1>3 DEF Put, Filed, Listed

LEMMA LoadedType ==
  ASSUME NEW ids, NEW T, NEW store \in Filed(ids, T), NEW bad
  PROVE  Loaded(store, bad) \in Items(ids, T)
BY DEF Loaded, Filed, Items, Readable

LEMMA WithMemory ==
  ASSUME NEW ids, NEW T, NEW store \in Filed(ids, T), NEW memory \in Items(ids, T)
  PROVE  LET loaded == [store EXCEPT !.memory = memory]
         IN  /\ loaded \in Filed(ids, T)
             /\ loaded.memory = memory
             /\ loaded.files = store.files
             /\ loaded.index = store.index
             /\ Listed(loaded) = {i \in ids : memory[i] # None}
BY DEF Filed, Items, Listed

LEMMA SeededSome ==
  ASSUME NEW ids, NEW T, NEW store \in Filed(ids, T), NEW memory \in Items(ids, T),
         NEW seed, NEW id,
         \E i \in ids : memory[i] # None
  PROVE  /\ Seeded(store, memory, seed, id) \in Filed(ids, T)
         /\ Seeded(store, memory, seed, id).memory = memory
         /\ Seeded(store, memory, seed, id).files = store.files
         /\ Seeded(store, memory, seed, id).index = store.index
<1>1. Listed([store EXCEPT !.memory = memory]) # {}
  BY WithMemory
<1>2. Seeded(store, memory, seed, id) = [store EXCEPT !.memory = memory]
  BY <1>1 DEF Seeded
<1> QED
  BY <1>2, WithMemory

LEMMA SeededNone ==
  ASSUME NEW ids, NEW T, NEW store \in Filed(ids, T), NEW memory \in Items(ids, T),
         NEW seed \in T, NEW id \in ids,
         \A i \in ids : memory[i] = None
  PROVE  /\ Seeded(store, memory, seed, id) \in Filed(ids, T)
         /\ \A i \in ids :
              /\ Seeded(store, memory, seed, id).memory[i] = IF i = id THEN seed ELSE None
              /\ Seeded(store, memory, seed, id).files[i] = IF i = id THEN seed ELSE store.files[i]
         /\ Seeded(store, memory, seed, id).index = Listed(Seeded(store, memory, seed, id))
<1> DEFINE loaded == [store EXCEPT !.memory = memory]
<1>1. loaded \in Filed(ids, T) /\ Listed(loaded) = {}
      /\ loaded.memory = memory /\ loaded.files = store.files
  BY WithMemory
<1> HIDE DEF loaded
<1>2. Seeded(store, memory, seed, id) = Put(loaded, id, seed, 2)
  BY <1>1 DEF Seeded, loaded
<1> DEFINE new == Put(loaded, id, seed, 2)
<1>3. /\ new \in Filed(ids, T)
      /\ new.memory = [memory EXCEPT ![id] = seed]
      /\ new.files = [store.files EXCEPT ![id] = seed]
      /\ new.index = Listed(new)
  BY <1>1, PutType
<1>4. DOMAIN memory = ids /\ DOMAIN store.files = ids
  BY DEF Filed, Items
<1> HIDE DEF new
<1>5. \A i \in ids : /\ new.memory[i] = IF i = id THEN seed ELSE None
                     /\ new.files[i] = IF i = id THEN seed ELSE store.files[i]
  BY <1>3, <1>4
<1> QED
  BY <1>2, <1>3, <1>5 DEF new

LEMMA CommitType ==
  ASSUME NEW ids, NEW T, NEW store \in Single(ids, T),
         NEW i \in ids, NEW v \in T \cup {None}, NEW k
  PROVE  Commit(store, i, v, k) \in Single(ids, T)
<1>1. [store.memory EXCEPT ![i] = v] \in Items(ids, T)
  BY DEF Single, Items
<1> QED
  BY <1>1 DEF Commit, Single

LEMMA LockedType ==
  ASSUME NEW w \in WorkflowDefinition \cup {None}
  PROVE  /\ Locked(w) \in WorkflowDefinition \cup {None}
         /\ w = None => Locked(w) = None
         /\ w \in WorkflowDefinition => Locked(w) \in WorkflowDefinition
         /\ Locked(w) # None => Locked(w).mode # "LIVE_ARMED"
BY DEF Locked, WorkflowDefinition, Modes

(* A set of numbers that is not empty has a least one: the library's        *)
(* minimal finite set, of the intervals up to its members.                  *)
LEMMA Least ==
  ASSUME NEW S \in SUBSET Nat, S # {}
  PROVE  \E m \in S : \A n \in S : m <= n
<1> DEFINE R == StrictSubsetOrdering(Nat)
           F == FiniteSubsetsOf(Nat)
           T == {0 .. n : n \in S}
<1>1. IsWellFoundedOn(R, F)
  BY FS_StrictSubsetOrderingWellFounded
<1>2. T \subseteq F
  <2>1. \A n \in Nat : 0 .. n \in F
    BY FS_Interval DEF FiniteSubsetsOf
  <2> QED
    BY <2>1
<1>3. T # {}
  OBVIOUS
<1>4. \E x \in T : \A y \in T : <<y, x>> \notin R
  <2> HIDE DEF R, F, T
  <2> QED
    BY <1>1, <1>2, <1>3, WFMin
<1>5. PICK m \in S : \A n \in S : <<0 .. n, 0 .. m>> \notin R
  BY <1>4
<1>6. ASSUME NEW n \in S, n < m
      PROVE  <<0 .. n, 0 .. m>> \in R
  <2>1. 0 .. n \subseteq 0 .. m /\ 0 .. n # 0 .. m
    <3>1. m \in 0 .. m /\ m \notin 0 .. n
      BY <1>6
    <3>2. n \in Nat /\ m \in Nat
      OBVIOUS
    <3> QED
      BY <1>6, <3>1, <3>2
  <2>2. 0 .. n \in SUBSET Nat /\ 0 .. m \in SUBSET Nat
    OBVIOUS
  <2> QED
    BY <2>1, <2>2 DEF StrictSubsetOrdering
<1> HIDE DEF R
<1>7. \A n \in S : m \in Nat /\ n \in Nat /\ ~(n < m)
  BY <1>5, <1>6
<1> QED
  BY <1>7

(* The workflow a start, or a deletion, makes the active one.               *)
LEMMA OldestType ==
  ASSUME NEW memory \in Items(WorkflowId, WorkflowDefinition),
         \E i \in WorkflowId : memory[i] # None
  PROVE  /\ Oldest(memory) \in [id : WorkflowId, mode : Modes]
         /\ memory[Oldest(memory).id] # None
         /\ Oldest(memory).mode = memory[Oldest(memory).id].mode
<1> DEFINE S == {i \in WorkflowId : memory[i] # None}
           id == CHOOSE i \in WorkflowId :
                   memory[i] # None /\ \A j \in WorkflowId : memory[j] # None => i <= j
<1>1. S \in SUBSET Nat /\ S # {}
  BY DEF WorkflowId
<1>2. \E m \in S : \A n \in S : m <= n
  <2> HIDE DEF S
  <2> QED
    BY <1>1, Least
<1>3. id \in WorkflowId /\ memory[id] # None
  BY <1>2
<1>4. memory[id].mode \in Modes
  BY <1>3 DEF Items, WorkflowDefinition
<1>5. Oldest(memory) = [id |-> id, mode |-> memory[id].mode]
  BY DEF Oldest
<1> HIDE DEF id
<1> QED
  BY <1>3, <1>4, <1>5

-----------------------------------------------------------------------------
(* Type correctness.                                                        *)

(* The elements of a page, and the seeds of the stores.                     *)
LEMMA SeedsType ==
  /\ NoElements \in OverviewElementStub
  /\ \A held \in Held : [element \in Switch |-> held] \in OverviewElementStub
  /\ \A elements \in OverviewElementStub : DOMAIN elements \subseteq Switch
  /\ MainPage \in OverviewPageDefinition
  /\ MainWorkflow \in WorkflowDefinition
  /\ \A migrated \in Migrations :
       migrated \in WorkflowDefinition /\ migrated.mode # "LIVE_ARMED"
<1>1. NoElements \in OverviewElementStub
  <2>1. NoElements \in [{} -> Held \cup {None}]
    BY DEF NoElements
  <2> QED
    BY <2>1 DEF OverviewElementStub
<1>2. \A held \in Held : [element \in Switch |-> held] \in OverviewElementStub
  BY DEF OverviewElementStub
<1>3. \A elements \in OverviewElementStub : DOMAIN elements \subseteq Switch
  BY DEF OverviewElementStub
<1>4. MainPage \in OverviewPageDefinition /\ MainWorkflow \in WorkflowDefinition
  BY <1>1, StoreAssumption
  DEF MainPage, MainWorkflow, OverviewPageDefinition, WorkflowDefinition, Modes
<1>5. ASSUME NEW migrated \in Migrations
      PROVE  migrated \in WorkflowDefinition /\ migrated.mode # "LIVE_ARMED"
  <2>1. PICK mode \in Modes : migrated = Locked([mode |-> mode, content |-> Legacy])
    BY DEF Migrations
  <2>2. [mode |-> mode, content |-> Legacy] \in WorkflowDefinition
    BY StoreAssumption DEF WorkflowDefinition
  <2>3. migrated.mode # "LIVE_ARMED"
    BY <2>1, <2>2, LockedType, NoneAssumption
  <2> QED
    BY <2>1, <2>2, <2>3, LockedType
<1> QED
  BY <1>1, <1>2, <1>3, <1>4, <1>5

LEMMA InitType == ASSUME Init PROVE TypeOK
<1>1. {1, 2} \in SUBSET PageId /\ {1, 2} \in SUBSET WorkflowId
  BY StoreAssumption DEF PageId, WorkflowId
<1>2. MainWorkflow \in WorkflowDefinition
  BY SeedsType
<1>3. InitialPages \in Items(PageId, OverviewPageDefinition)
  <2> DEFINE held == CHOOSE held \in Held : TRUE
             elements == [element \in Switch |-> held]
  <2>1. held \in Held
    BY StoreAssumption
  <2>2. elements \in OverviewElementStub /\ NoElements \in OverviewElementStub
    <3> HIDE DEF held
    <3> QED
      BY <2>1, SeedsType
  <2>3. InitialPages = [i \in PageId |-> CASE i = 1 -> [name |-> MainName, elements |-> elements]
                                         [] i = 2 -> [name |-> OtherName, elements |-> NoElements]
                                         [] OTHER -> None]
    BY DEF InitialPages
  <2> HIDE DEF elements
  <2> QED
    BY <2>2, <2>3, StoreAssumption DEF Items, OverviewPageDefinition
<1>4. InitialWorkflows \in Items(WorkflowId, WorkflowDefinition)
  BY <1>2 DEF InitialWorkflows, Items
<1>5. InitialTags \in Items(TagId, createDefinitionSchema)
  BY DEF InitialTags, Items, createDefinitionSchema, Types
<1>6. \A ids, T : Nothing(ids) \in Single(ids, T)
  BY DEF Nothing, Single, Items
<1>7. 2 \in 0..MaxPages /\ 2 \in 0..MaxWorkflows
  BY StoreAssumption
<1>8. promised \in [pages : [PageId -> SUBSET (OverviewPageDefinition \cup {None})],
                    workflows : [WorkflowId -> SUBSET (WorkflowDefinition \cup {None})]]
  BY <1>3, <1>4 DEF Init, Items
<1>9. active \in [id : WorkflowId, mode : Modes]
  BY <1>1 DEF Init, Modes
<1> QED
  BY <1>1, <1>3, <1>4, <1>5, <1>6, <1>7, <1>8, <1>9
  DEF Init, TypeOK, Filed, Single, Items

Promises ==
  [pages : [PageId -> SUBSET (OverviewPageDefinition \cup {None})],
   workflows : [WorkflowId -> SUBSET (WorkflowDefinition \cup {None})]]

Added(of, i, v, acknowledged) ==
  [of EXCEPT ![i] = IF acknowledged THEN {v} ELSE @ \cup {v}]

LEMMA PromiseType ==
  ASSUME TypeOK, NEW acknowledged
  PROVE  /\ \A i \in PageId, v \in OverviewPageDefinition \cup {None} :
              LET new == Promise("pages", i, v, acknowledged)
              IN  /\ new \in Promises
                  /\ new.workflows = promised.workflows
                  /\ new.pages = Added(promised.pages, i, v, acknowledged)
         /\ \A i \in WorkflowId, v \in WorkflowDefinition \cup {None} :
              LET new == Promise("workflows", i, v, acknowledged)
              IN  /\ new \in Promises
                  /\ new.pages = promised.pages
                  /\ new.workflows = Added(promised.workflows, i, v, acknowledged)
<1>1. promised \in Promises
  BY DEF TypeOK, Promises
<1>2. ASSUME NEW i \in PageId, NEW v \in OverviewPageDefinition \cup {None}
      PROVE  /\ Promise("pages", i, v, acknowledged) =
                  [promised EXCEPT !.pages = Added(promised.pages, i, v, acknowledged)]
             /\ Added(promised.pages, i, v, acknowledged) \in
                  [PageId -> SUBSET (OverviewPageDefinition \cup {None})]
  BY <1>1, <1>2 DEF Promises, Promise, Added
<1>3. ASSUME NEW i \in WorkflowId, NEW v \in WorkflowDefinition \cup {None}
      PROVE  /\ Promise("workflows", i, v, acknowledged) =
                  [promised EXCEPT !.workflows = Added(promised.workflows, i, v, acknowledged)]
             /\ Added(promised.workflows, i, v, acknowledged) \in
                  [WorkflowId -> SUBSET (WorkflowDefinition \cup {None})]
  BY <1>1, <1>3 DEF Promises, Promise, Added
<1> QED
  BY <1>1, <1>2, <1>3 DEF Promises

LEMMA SpendsType ==
  ASSUME TypeOK, NEW failed, Spends(failed)
  PROVE  spent' \in [ops : Nat, faults : Nat, restarts : Nat]
<1> DEFINE ops == spent.ops + 1
           faults == IF failed THEN spent.faults + 1 ELSE spent.faults
<1>1. spent \in [ops : Nat, faults : Nat, restarts : Nat]
  BY DEF TypeOK
<1>2. ops \in Nat /\ faults \in Nat
  BY <1>1
<1>3. spent' = [spent EXCEPT !.ops = ops, !.faults = faults]
  BY Zenon DEF Spends
<1> HIDE DEF ops, faults
<1> QED
  BY <1>1, <1>2, <1>3

LEMMA PageStepsType ==
  ASSUME TypeOK, PageSteps
  PROVE  TypeOK'
<1>1. ASSUME NEW id \in PageId, NEW page \in OverviewPageDefinition, NEW k,
             StorePage(id, page, k), issued' \in [pages : 0..MaxPages, workflows : 0..MaxWorkflows, tags : Nat]
      PROVE  TypeOK'
  <2>1. pages' \in Filed(PageId, OverviewPageDefinition)
    BY <1>1, PutType DEF StorePage, TypeOK
  <2> QED
    BY <1>1, <2>1, PromiseType, SpendsType DEF StorePage, TypeOK, Promises
<1>2. ASSUME NEW page \in OverviewPageDefinition, NEW k, NewPage(page, k)
      PROVE  TypeOK'
  <2>1. issued.pages + 1 \in PageId
    BY <1>2, StoreAssumption DEF NewPage, TypeOK, PageId
  <2>2. issued' \in [pages : 0..MaxPages, workflows : 0..MaxWorkflows, tags : Nat]
    BY <1>2, StoreAssumption DEF NewPage, TypeOK
  <2> QED
    BY <1>1, <1>2, <2>1, <2>2 DEF NewPage
<1>3. ASSUME NEW id \in PageId, NEW name \in Names, NEW elements \in OverviewElementStub, NEW k,
             UpdatePage(id, name, elements, k)
      PROVE  TypeOK'
  BY <1>1, <1>3 DEF UpdatePage, TypeOK, OverviewPageDefinition
<1>4. \A id \in PageId : id \in Listed(pages) =>
        pages.memory[id] \in OverviewPageDefinition
  BY DEF Listed, TypeOK, Filed, Items
<1>5. ASSUME NEW name \in Names, NEW k, CreatePage(name, k)
      PROVE  TypeOK'
  BY <1>2, <1>5, SeedsType DEF CreatePage, OverviewPageDefinition
<1>6. ASSUME NEW id \in PageId, NEW name \in Names, NEW k,
             RenamePage(id, name, k) \/ DuplicatePage(id, name, k)
      PROVE  TypeOK'
  <2>1. id \in Listed(pages) => pages.memory[id].elements \in OverviewElementStub
    BY <1>4 DEF OverviewPageDefinition
  <2> QED
    BY <1>2, <1>3, <1>6, <2>1 DEF RenamePage, DuplicatePage, OverviewPageDefinition
<1>7. ASSUME NEW id \in PageId, NEW k, DeletePage(id, k)
      PROVE  TypeOK'
  <2>1. pages' \in Filed(PageId, OverviewPageDefinition)
    BY <1>7, PutType DEF DeletePage, TypeOK
  <2>2. withoutPage(id) \in Items(PageId \X Switch, OverviewControlState)
    BY DEF withoutPage, TypeOK, Single, Items
  <2>3. switches' \in Single(PageId \X Switch, OverviewControlState)
    BY <1>7, <2>2 DEF DeletePage, clearPage, TypeOK, Single
  <2> QED
    BY <1>7, <2>1, <2>3, PromiseType, SpendsType DEF DeletePage, TypeOK, Promises
<1>8. ASSUME NEW id \in PageId, NEW element \in Switch, NEW value \in BOOLEAN, NEW k,
             PatchSwitch(id, element, value, k)
      PROVE  TypeOK'
  <2>1. [switches.memory EXCEPT ![<<id, element>>] = value] \in Items(PageId \X Switch, OverviewControlState)
    BY DEF TypeOK, Single, Items, OverviewControlState
  <2>2. switches' \in Single(PageId \X Switch, OverviewControlState)
    BY <1>8, <2>1 DEF PatchSwitch, setSwitch, TypeOK, Single
  <2>3. told' \in Items(PageId \X Switch, OverviewControlState)
    BY <1>8 DEF PatchSwitch, TypeOK, Items, OverviewControlState
  <2> QED
    BY <1>8, <2>2, <2>3, SpendsType DEF PatchSwitch, TypeOK
<1> QED
  BY <1>3, <1>5, <1>6, <1>7, <1>8 DEF PageSteps

(* A deletion leaves a workflow; if the active one is gone, the first of    *)
(* those there are is active, in its own mode.                              *)
LEMMA DeletedLeavesOldest ==
  ASSUME TypeOK, NEW id \in WorkflowId, NEW k, DeleteWorkflow(id, k)
  PROVE  /\ active' \in [id : WorkflowId, mode : Modes]
         /\ \/ active' = active
            \/ /\ workflows.memory[active'.id] # None
               /\ active'.mode = workflows.memory[active'.id].mode
<1>1. /\ workflows \in Filed(WorkflowId, WorkflowDefinition)
      /\ workflows.memory \in Items(WorkflowId, WorkflowDefinition)
      /\ DOMAIN workflows.memory = WorkflowId
  BY DEF TypeOK, Filed, Items
<1>2. \E other \in WorkflowId : other # id /\ workflows.memory[other] # None
  <2>1. Cardinality(Listed(workflows)) > 1
    BY DEF DeleteWorkflow
  <2>2. IsFiniteSet({id}) /\ Cardinality({id}) = 1
    BY FS_Singleton
  <2>3. ASSUME Listed(workflows) \in SUBSET {id}
        PROVE  FALSE
    <3>1. Cardinality(Listed(workflows)) \in Nat /\ Cardinality(Listed(workflows)) <= 1
      BY <2>2, <2>3, FS_Subset, FS_CardinalityType
    <3> QED
      BY <2>1, <3>1
  <2> QED
    BY <1>1, <2>3 DEF Listed
<1>3. /\ workflows'.memory \in Items(WorkflowId, WorkflowDefinition)
      /\ \A i \in WorkflowId :
           workflows'.memory[i] = IF i = id THEN None ELSE workflows.memory[i]
  <2>1. workflows' = Put(workflows, id, None, k)
    BY DEF DeleteWorkflow, StoreWorkflow, SaveWorkflow
  <2>2. None \in WorkflowDefinition \cup {None}
    OBVIOUS
  <2>3. workflows'.memory = [workflows.memory EXCEPT ![id] = None]
    BY <2>1 DEF Put
  <2> QED
    BY <1>1, <2>2, <2>3 DEF Items
<1> DEFINE first == Oldest(workflows'.memory)
<1>4. /\ first \in [id : WorkflowId, mode : Modes]
      /\ workflows'.memory[first.id] # None
      /\ first.mode = workflows'.memory[first.id].mode
  BY <1>2, <1>3, OldestType
<1>5. active' = first \/ active' = active
  BY DEF DeleteWorkflow
<1>6. active \in [id : WorkflowId, mode : Modes]
  BY DEF TypeOK
<1> HIDE DEF first
<1>7. workflows'.memory[first.id] = workflows.memory[first.id]
  BY <1>3, <1>4
<1> QED
  BY <1>4, <1>5, <1>6, <1>7

LEMMA WorkflowStepsType ==
  ASSUME TypeOK, WorkflowSteps
  PROVE  TypeOK'
<1>1. ASSUME NEW id \in WorkflowId, NEW workflow \in WorkflowDefinition \cup {None}, NEW k,
             NEW acknowledged, SaveWorkflow(id, workflow, k, acknowledged),
             active' \in [id : WorkflowId, mode : Modes], armed' \subseteq WorkflowId,
             issued' \in [pages : 0..MaxPages, workflows : 0..MaxWorkflows, tags : Nat]
      PROVE  TypeOK'
  <2>1. workflows' \in Filed(WorkflowId, WorkflowDefinition)
    BY <1>1, PutType DEF SaveWorkflow, TypeOK
  <2>2. Locked(workflow) \in WorkflowDefinition \cup {None}
    BY LockedType
  <2> QED
    BY <1>1, <2>1, <2>2, PromiseType, SpendsType DEF SaveWorkflow, TypeOK, Promises
<1>2. ASSUME NEW workflow \in WorkflowDefinition, NEW k, NewWorkflow(workflow, k)
      PROVE  TypeOK'
  <2>1. issued.workflows + 1 \in WorkflowId
    BY <1>2, StoreAssumption DEF NewWorkflow, TypeOK, WorkflowId
  <2>2. issued' \in [pages : 0..MaxPages, workflows : 0..MaxWorkflows, tags : Nat]
    BY <1>2, StoreAssumption DEF NewWorkflow, TypeOK
  <2> QED
    BY <1>1, <1>2, <2>1, <2>2 DEF NewWorkflow, StoreWorkflow, TypeOK
<1>3. \A id \in WorkflowId : id \in Listed(workflows) =>
        workflows.memory[id] \in WorkflowDefinition
  BY DEF Listed, TypeOK, Filed, Items
<1>9. ASSUME NEW id, NEW mode \in Modes, NEW k
      PROVE  Refreshed(id, mode, k) \in [id : WorkflowId, mode : Modes]
  BY DEF Refreshed, TypeOK
<1>4. ASSUME NEW content \in Contents, NEW k, CreateWorkflow(content, k)
      PROVE  TypeOK'
  BY <1>2, <1>4 DEF CreateWorkflow, WorkflowDefinition, Modes
<1>5. ASSUME NEW id \in WorkflowId, NEW content \in Contents, NEW k,
             UpdateWorkflow(id, content, k)
      PROVE  TypeOK'
  <2>1. [workflows.memory[id] EXCEPT !.content = content] \in WorkflowDefinition
    BY <1>3, <1>5 DEF UpdateWorkflow, WorkflowDefinition
  <2>2. workflows.memory[id].mode \in Modes
    BY <1>3, <1>5 DEF UpdateWorkflow, WorkflowDefinition
  <2>3. active' \in [id : WorkflowId, mode : Modes]
    BY <1>5, <1>9, <2>2 DEF UpdateWorkflow
  <2> QED
    BY <1>1, <1>5, <2>1, <2>3 DEF UpdateWorkflow, StoreWorkflow, TypeOK
<1>6. ASSUME NEW id \in WorkflowId, NEW content \in Contents, NEW mode \in Modes, NEW k,
             SetMode(id, content, mode, k)
      PROVE  TypeOK'
  <2>1. armed' \subseteq WorkflowId
    BY <1>6 DEF SetMode, TypeOK
  <2> QED
    BY <1>1, <1>6, <1>9, <2>1 DEF SetMode, StoreWorkflow, TypeOK, WorkflowDefinition
<1>7. ASSUME NEW id \in WorkflowId, NEW k, DuplicateWorkflow(id, k)
      PROVE  TypeOK'
  <2>1. CopyOf(workflows.memory[id]) \in WorkflowDefinition
    BY <1>3, <1>7 DEF DuplicateWorkflow, CopyOf, WorkflowDefinition, Modes
  <2> QED
    BY <1>2, <1>7, <2>1 DEF DuplicateWorkflow
<1>8. ASSUME NEW id \in WorkflowId, NEW k, DeleteWorkflow(id, k)
      PROVE  TypeOK'
  <2>1. active' \in [id : WorkflowId, mode : Modes]
    BY <1>8, DeletedLeavesOldest
  <2> QED
    BY <1>1, <1>8, <2>1 DEF DeleteWorkflow, StoreWorkflow, TypeOK
<1>10. ASSUME NEW content \in Contents, NEW k, PutActive(content, k)
       PROVE  TypeOK'
  <2>1. /\ active.id \in WorkflowId
        /\ [mode |-> active.mode, content |-> content] \in WorkflowDefinition
    BY DEF TypeOK, WorkflowDefinition
  <2> QED
    BY <1>1, <1>10, <2>1 DEF PutActive, TypeOK
<1>11. ASSUME NEW id \in WorkflowId, Activate(id)
       PROVE  TypeOK'
  <2>1. active' \in [id : WorkflowId, mode : Modes]
    BY <1>3, <1>11 DEF Activate, WorkflowDefinition
  <2> QED
    BY <1>11, <2>1, SpendsType DEF Activate, TypeOK
<1> QED
  BY <1>4, <1>5, <1>6, <1>7, <1>8, <1>10, <1>11 DEF WorkflowSteps

LEMMA TagStepsType ==
  ASSUME TypeOK, DefinitionSteps \/ MappingSteps
  PROVE  TypeOK'
<1>1. ASSUME NEW id \in TagId, NEW definition \in createDefinitionSchema \cup {None}, NEW k,
             StoreDefinition(id, definition, k),
             issued' \in [pages : 0..MaxPages, workflows : 0..MaxWorkflows, tags : Nat]
      PROVE  TypeOK'
  <2>1. definitions' \in Single(TagId, createDefinitionSchema)
    BY <1>1, CommitType DEF StoreDefinition, TypeOK
  <2> QED
    BY <1>1, <2>1, SpendsType DEF StoreDefinition, TypeOK
<1>2. ASSUME NEW body \in createDefinitionSchema, NEW k, CreateDefinition(body, k)
      PROVE  TypeOK'
  <2>1. issued.tags + 1 \in TagId
    BY <1>2, StoreAssumption DEF CreateDefinition, TypeOK, TagId
  <2>2. issued' \in [pages : 0..MaxPages, workflows : 0..MaxWorkflows, tags : Nat]
    BY <1>2 DEF CreateDefinition, TypeOK
  <2> QED
    BY <1>1, <1>2, <2>1, <2>2 DEF CreateDefinition
<1>3. ASSUME NEW id \in TagId, NEW body \in updateDefinitionSchema, NEW k,
             UpdateDefinition(id, body, k)
      PROVE  TypeOK'
  <2>1. definitions.memory[id] \in createDefinitionSchema
    BY <1>3 DEF UpdateDefinition, Visible, TypeOK, Single, Items
  <2>2. [definitions.memory[id] EXCEPT !.type = body.type, !.monitored = body.monitored]
          \in createDefinitionSchema
    BY <2>1 DEF createDefinitionSchema, updateDefinitionSchema
  <2> QED
    BY <1>1, <1>3, <2>2 DEF UpdateDefinition, TypeOK
<1>4. ASSUME NEW id \in TagId, NEW k, DeleteDefinition(id, k)
      PROVE  TypeOK'
  BY <1>1, <1>4 DEF DeleteDefinition, TypeOK
<1>5. ASSUME NEW id \in TagId, NEW mapping \in acquisitionSchema, NEW k,
             PutMapping(id, mapping, k)
      PROVE  TypeOK'
  <2>1. mappings' \in Single(TagId, acquisitionSchema)
    BY <1>5, CommitType DEF PutMapping, TypeOK
  <2> QED
    BY <1>5, <2>1, SpendsType DEF PutMapping, TypeOK
<1>6. ASSUME NEW id \in TagId, NEW k, DeleteMapping(id, k)
      PROVE  TypeOK'
  <2>1. mappings' \in Single(TagId, acquisitionSchema)
    BY <1>6, CommitType DEF DeleteMapping, TypeOK
  <2> QED
    BY <1>6, <2>1, SpendsType DEF DeleteMapping, TypeOK
<1> QED
  BY <1>2, <1>3, <1>4, <1>5, <1>6 DEF DefinitionSteps, MappingSteps

-----------------------------------------------------------------------------
(* A restart.                                                               *)

LEMMA LoadedWorkflowsType ==
  ASSUME TypeOK, NEW bad
  PROVE  /\ LoadedWorkflows(bad) \in Items(WorkflowId, WorkflowDefinition)
         /\ \A i \in WorkflowId : LoadedWorkflows(bad)[i] # None =>
              LoadedWorkflows(bad)[i].mode # "LIVE_ARMED"
<1>1. Loaded(workflows, bad) \in Items(WorkflowId, WorkflowDefinition)
  BY LoadedType DEF TypeOK
<1>2. \A i \in WorkflowId :
        /\ Locked(Loaded(workflows, bad)[i]) \in WorkflowDefinition \cup {None}
        /\ Locked(Loaded(workflows, bad)[i]) # None =>
             Locked(Loaded(workflows, bad)[i]).mode # "LIVE_ARMED"
  BY <1>1, LockedType DEF Items
<1> QED
  BY <1>2 DEF LoadedWorkflows, Items

(* A start finds no workflow armed to lock: each was locked when loaded.    *)
LEMMA DowngradedSame ==
  ASSUME NEW store \in Filed(WorkflowId, WorkflowDefinition),
         \A i \in WorkflowId : store.memory[i] # None =>
           store.memory[i].mode # "LIVE_ARMED"
  PROVE  Downgraded(store) = store
<1>1. DOMAIN store.memory = WorkflowId
      /\ store.memory = [i \in WorkflowId |-> store.memory[i]]
  BY DEF Filed, Items
<1>2. [i \in DOMAIN store.memory |-> Locked(store.memory[i])] = store.memory
  BY <1>1 DEF Locked
<1> QED
  BY <1>2 DEF Downgraded

LEMMA RestartStores ==
  ASSUME TypeOK, NEW badWorkflow, NEW badPage, NEW migrated \in Migrations,
         Restart(badWorkflow, badPage, migrated)
  PROVE  /\ workflows' = Seeded(workflows, LoadedWorkflows(badWorkflow),
                                migrated, issued.workflows + 1)
         /\ workflows' \in Filed(WorkflowId, WorkflowDefinition)
         /\ pages' \in Filed(PageId, OverviewPageDefinition)
         /\ (\A i \in WorkflowId : LoadedWorkflows(badWorkflow)[i] = None) =>
              issued.workflows + 1 \in WorkflowId
         /\ (\A i \in PageId : Loaded(pages, badPage)[i] = None) =>
              issued.pages + 1 \in PageId
         /\ migrated \in WorkflowDefinition /\ migrated.mode # "LIVE_ARMED"
         /\ MainPage \in OverviewPageDefinition
         /\ \E i \in WorkflowId : workflows'.memory[i] # None
<1>1. MainPage \in OverviewPageDefinition /\ migrated \in WorkflowDefinition
      /\ migrated.mode # "LIVE_ARMED"
  BY SeedsType
<1>0. /\ (\A i \in WorkflowId : LoadedWorkflows(badWorkflow)[i] = None) =>
           issued.workflows < MaxWorkflows
      /\ (\A i \in PageId : Loaded(pages, badPage)[i] = None) => issued.pages < MaxPages
      /\ issued \in [pages : 0..MaxPages, workflows : 0..MaxWorkflows, tags : Nat]
  BY DEF Restart, TypeOK
<1>2. (\A i \in WorkflowId : LoadedWorkflows(badWorkflow)[i] = None) =>
        issued.workflows + 1 \in WorkflowId
  BY <1>0, StoreAssumption DEF WorkflowId
<1>3. (\A i \in PageId : Loaded(pages, badPage)[i] = None) =>
        issued.pages + 1 \in PageId
  BY <1>0, StoreAssumption DEF PageId
<1> DEFINE memory == LoadedWorkflows(badWorkflow)
           id == issued.workflows + 1
           seeded == Seeded(workflows, memory, migrated, id)
<1>4. /\ seeded \in Filed(WorkflowId, WorkflowDefinition)
      /\ \A i \in WorkflowId : seeded.memory[i] # None => seeded.memory[i].mode # "LIVE_ARMED"
      /\ \E i \in WorkflowId : seeded.memory[i] # None
  <2>1. /\ memory \in Items(WorkflowId, WorkflowDefinition)
        /\ \A i \in WorkflowId : memory[i] # None => memory[i].mode # "LIVE_ARMED"
    BY LoadedWorkflowsType
  <2>2. workflows \in Filed(WorkflowId, WorkflowDefinition)
    BY DEF TypeOK
  <2>5. (\A i \in WorkflowId : memory[i] = None) => id \in WorkflowId
    BY <1>2
  <2> HIDE DEF memory, id
  <2>3. CASE \A i \in WorkflowId : memory[i] = None
    <3>1. id \in WorkflowId
      BY <2>3, <2>5
    <3> HIDE DEF seeded
    <3>2. migrated \in WorkflowDefinition /\ memory \in Items(WorkflowId, WorkflowDefinition)
      BY <1>1, <2>1
    <3>3. /\ seeded \in Filed(WorkflowId, WorkflowDefinition)
          /\ \A i \in WorkflowId : seeded.memory[i] = IF i = id THEN migrated ELSE None
      BY <2>2, <2>3, <3>1, <3>2, SeededNone DEF seeded
    <3>4. migrated # None
      BY <1>1, NoneAssumption
    <3> QED
      BY <1>1, <3>1, <3>3, <3>4
  <2>4. CASE \E i \in WorkflowId : memory[i] # None
    <3>1. /\ seeded \in Filed(WorkflowId, WorkflowDefinition)
          /\ seeded.memory = memory
      BY <2>1, <2>2, <2>4, SeededSome
    <3> QED
      BY <2>1, <2>4, <3>1
  <2> QED
    BY <2>3, <2>4
<1>5. Downgraded(seeded) = seeded
  BY <1>4, DowngradedSame
<1>6. workflows' = seeded
  BY <1>5 DEF Restart
<1>7. pages' \in Filed(PageId, OverviewPageDefinition)
  <2>1. pages \in Filed(PageId, OverviewPageDefinition)
    BY DEF TypeOK
  <2>2. Loaded(pages, badPage) \in Items(PageId, OverviewPageDefinition)
    BY <2>1, LoadedType
  <2>3. Seeded(pages, Loaded(pages, badPage), MainPage, issued.pages + 1)
          \in Filed(PageId, OverviewPageDefinition)
    <3>1. CASE \A i \in PageId : Loaded(pages, badPage)[i] = None
      BY <1>1, <1>3, <2>1, <2>2, <3>1, SeededNone
    <3>2. CASE \E i \in PageId : Loaded(pages, badPage)[i] # None
      BY <2>1, <2>2, <3>2, SeededSome
    <3> QED
      BY <3>1, <3>2
  <2> QED
    BY <2>3 DEF Restart
<1> QED
  BY <1>1, <1>2, <1>3, <1>4, <1>6, <1>7

LEMMA RestartType ==
  ASSUME TypeOK, NEW badWorkflow, NEW badPage, NEW migrated \in Migrations,
         Restart(badWorkflow, badPage, migrated)
  PROVE  TypeOK'
<1>1. /\ workflows' \in Filed(WorkflowId, WorkflowDefinition)
      /\ pages' \in Filed(PageId, OverviewPageDefinition)
  BY RestartStores
<1>2. /\ switches' \in Single(PageId \X Switch, OverviewControlState)
      /\ definitions' \in Single(TagId, createDefinitionSchema)
      /\ mappings' \in Single(TagId, acquisitionSchema)
  BY DEF Restart, TypeOK, Single, load, loadSwitches
<1>3. issued' \in [pages : 0..MaxPages, workflows : 0..MaxWorkflows, tags : Nat]
  <2> DEFINE w == issued'.workflows  p == issued'.pages
  <2>1. issued \in [pages : 0..MaxPages, workflows : 0..MaxWorkflows, tags : Nat]
    BY DEF TypeOK
  <2>2. \A u, v : /\ [issued EXCEPT !.workflows = u, !.pages = v].workflows = u
                  /\ [issued EXCEPT !.workflows = u, !.pages = v].pages = v
    BY <2>1
  <2>3. issued' = [issued EXCEPT !.workflows = w, !.pages = p]
    BY <2>1, <2>2 DEF Restart
  <2>4. w \in 0..MaxWorkflows /\ p \in 0..MaxPages
    BY <2>1, <2>2, StoreAssumption DEF Restart
  <2> HIDE DEF w, p
  <2> QED
    BY <2>1, <2>3, <2>4
<1>4. spent' \in [ops : Nat, faults : Nat, restarts : Nat]
  <2> DEFINE restarts == spent'.restarts  faults == spent'.faults
  <2>1. spent \in [ops : Nat, faults : Nat, restarts : Nat]
    BY DEF TypeOK
  <2>2. \A u, v : /\ [spent EXCEPT !.restarts = u, !.faults = v].restarts = u
                  /\ [spent EXCEPT !.restarts = u, !.faults = v].faults = v
    BY <2>1
  <2>3. spent' = [spent EXCEPT !.restarts = restarts, !.faults = faults]
    BY <2>1, <2>2 DEF Restart
  <2>4. restarts \in Nat /\ faults \in Nat
    BY <2>1, <2>2 DEF Restart
  <2> HIDE DEF restarts, faults
  <2> QED
    BY <2>1, <2>3, <2>4
<1>5. promised' \in Promises
  <2>1. \A i \in WorkflowId :
          Reloaded(workflows, workflows', i, Locked(workflows.files[i]))
            \in SUBSET (WorkflowDefinition \cup {None})
    BY <1>1, LockedType DEF Reloaded, TypeOK, Filed, Items
  <2>2. \A i \in PageId :
          Reloaded(pages, pages', i, pages.files[i]) \in SUBSET (OverviewPageDefinition \cup {None})
    BY <1>1 DEF Reloaded, TypeOK, Filed, Items
  <2> QED
    BY <2>1, <2>2 DEF Restart, Promises
<1>6. active' \in [id : WorkflowId, mode : Modes]
  <2>1. /\ \E i \in WorkflowId : workflows'.memory[i] # None
        /\ workflows'.memory \in Items(WorkflowId, WorkflowDefinition)
    BY <1>1, RestartStores DEF Filed
  <2> QED
    BY <2>1, OldestType DEF Restart
<1> QED
  BY <1>1, <1>2, <1>3, <1>4, <1>5, <1>6 DEF Restart, TypeOK, Promises

LEMMA NextType == ASSUME TypeOK, [Next]_vars PROVE TypeOK'
<1>1. CASE Requests
  BY <1>1, PageStepsType, WorkflowStepsType, TagStepsType DEF Requests
<1>2. CASE Restarts
  BY <1>2, RestartType DEF Restarts
<1>3. CASE UNCHANGED vars
  BY <1>3 DEF TypeOK, vars
<1> QED
  BY <1>1, <1>2, <1>3 DEF Next

(* Every store has its type, whatever fails and however often it restarts. *)
THEOREM TypeCorrect == Spec => []TypeOK
<1>1. Init => TypeOK
  BY InitType
<1>2. TypeOK /\ [Next]_vars => TypeOK'
  BY NextType
<1> QED
  BY <1>1, <1>2, PTL DEF Spec

-----------------------------------------------------------------------------
(* The requests of the editors, reduced to what they do to their store: a   *)
(* new item, a new value of a listed one, or its removal.                   *)

LEMMA PageCases ==
  ASSUME TypeOK, PageSteps
  PROVE  \/ \E page \in OverviewPageDefinition, k \in Nat : NewPage(page, k)
         \/ \E id \in PageId, page \in OverviewPageDefinition, k \in Nat :
              id \in Listed(pages) /\ StorePage(id, page, k) /\ UNCHANGED issued
         \/ \E id \in PageId, k \in Nat : DeletePage(id, k)
         \/ \E id \in PageId, element \in Switch, value \in BOOLEAN, k \in Nat :
              PatchSwitch(id, element, value, k)
<1> PICK k \in 0..3 :
      \/ \E id \in PageId : DeletePage(id, k)
      \/ k <= 2 /\ \E name \in Names :
           \/ CreatePage(name, k)
           \/ \E id \in PageId :
                \/ RenamePage(id, name, k)
                \/ DuplicatePage(id, name, k)
                \/ \E elements \in OverviewElementStub : UpdatePage(id, name, elements, k)
      \/ k <= 1 /\ \E id \in PageId, element \in Switch, value \in BOOLEAN :
           PatchSwitch(id, element, value, k)
  BY DEF PageSteps
<1>1. k \in Nat
  OBVIOUS
<1>2. \A id \in PageId : id \in Listed(pages) =>
        pages.memory[id] \in OverviewPageDefinition
  BY DEF Listed, TypeOK, Filed, Items
<1>3. ASSUME NEW name \in Names, CreatePage(name, k)
      PROVE  \E page \in OverviewPageDefinition : NewPage(page, k)
  <2>1. [name |-> name, elements |-> NoElements] \in OverviewPageDefinition
    BY SeedsType DEF OverviewPageDefinition
  <2> QED
    BY <1>3, <2>1 DEF CreatePage
<1>4. ASSUME NEW id \in PageId, NEW name \in Names, NEW elements \in OverviewElementStub,
             UpdatePage(id, name, elements, k)
      PROVE  \E page \in OverviewPageDefinition :
               id \in Listed(pages) /\ StorePage(id, page, k) /\ UNCHANGED issued
  <2>1. [name |-> name, elements |-> elements] \in OverviewPageDefinition
    BY DEF OverviewPageDefinition
  <2> QED
    BY <1>4, <2>1 DEF UpdatePage
<1>5. ASSUME NEW id \in PageId, NEW name \in Names, RenamePage(id, name, k)
      PROVE  \E elements \in OverviewElementStub : UpdatePage(id, name, elements, k)
  BY <1>2, <1>5 DEF RenamePage, OverviewPageDefinition
<1>6. ASSUME NEW id \in PageId, NEW name \in Names, DuplicatePage(id, name, k)
      PROVE  \E page \in OverviewPageDefinition : NewPage(page, k)
  <2>1. [name |-> name, elements |-> pages.memory[id].elements] \in OverviewPageDefinition
    BY <1>2, <1>6 DEF DuplicatePage, OverviewPageDefinition
  <2> QED
    BY <1>6, <2>1 DEF DuplicatePage
<1> QED
  BY <1>1, <1>3, <1>4, <1>5, <1>6

(* The copy of the active workflow is armed only on request as well.        *)
ActiveArmed == active.mode = "LIVE_ARMED" => active.id \in armed

(* A request that changes one workflow, or removes it.                      *)
Changes(id, workflow, k, acknowledged) ==
  /\ id \in Listed(workflows)
  /\ SaveWorkflow(id, workflow, k, acknowledged) /\ UNCHANGED issued
  /\ acknowledged => k >= 2
  /\ armed \ {id} \subseteq armed'
  /\ workflow # None /\ workflow.mode = "LIVE_ARMED" => id \in armed'
  /\ ActiveArmed'

LEMMA WorkflowCases ==
  ASSUME TypeOK, ArmedOnRequest, ActiveArmed, WorkflowSteps
  PROVE  \/ \E workflow \in WorkflowDefinition, k \in Nat :
              NewWorkflow(workflow, k) /\ workflow.mode = "DESIGN"
         \/ \E id \in WorkflowId, workflow \in WorkflowDefinition \cup {None}, k \in Nat :
              \E acknowledged \in BOOLEAN : Changes(id, workflow, k, acknowledged)
         \/ \E id \in WorkflowId : Activate(id)
<1> PICK k \in 0..3 :
      \/ \E content \in Contents : PutActive(content, k)
      \/ k <= 2 /\ \E content \in Contents :
           \/ CreateWorkflow(content, k)
           \/ \E id \in WorkflowId :
                \/ UpdateWorkflow(id, content, k)
                \/ \E mode \in Modes : SetMode(id, content, mode, k)
      \/ k <= 2 /\ \E id \in WorkflowId :
           \/ DuplicateWorkflow(id, k)
           \/ DeleteWorkflow(id, k)
      \/ k = 0 /\ \E id \in WorkflowId : Activate(id)
  BY DEF WorkflowSteps
<1>1. k \in Nat
  OBVIOUS
<1>2. /\ \A id \in WorkflowId : id \in Listed(workflows) =>
           workflows.memory[id] \in WorkflowDefinition
      /\ \A id \in WorkflowId : workflows.memory[id] # None => id \in Listed(workflows)
      /\ active \in [id : WorkflowId, mode : Modes]
  BY DEF Listed, TypeOK, Filed, Items
<1> DEFINE Kept(id, workflow) ==
             \E acknowledged \in BOOLEAN : Changes(id, workflow, k, acknowledged)
<1>3. ASSUME NEW content \in Contents, CreateWorkflow(content, k)
      PROVE  \E workflow \in WorkflowDefinition :
               NewWorkflow(workflow, k) /\ workflow.mode = "DESIGN"
  <2> DEFINE new == [mode |-> "DESIGN", content |-> content]
  <2>1. new \in WorkflowDefinition /\ new.mode = "DESIGN"
    BY DEF WorkflowDefinition, Modes
  <2> QED
    BY <1>3, <2>1 DEF CreateWorkflow
<1>4. ASSUME NEW id \in WorkflowId, DuplicateWorkflow(id, k)
      PROVE  \E workflow \in WorkflowDefinition :
               NewWorkflow(workflow, k) /\ workflow.mode = "DESIGN"
  <2>1. /\ CopyOf(workflows.memory[id]) \in WorkflowDefinition
        /\ CopyOf(workflows.memory[id]).mode = "DESIGN"
    BY <1>2, <1>4 DEF DuplicateWorkflow, CopyOf, WorkflowDefinition, Modes
  <2> QED
    BY <1>4, <2>1 DEF DuplicateWorkflow
<1>5. ASSUME NEW id \in WorkflowId, NEW content \in Contents, UpdateWorkflow(id, content, k)
      PROVE  \E workflow \in WorkflowDefinition \cup {None} : Kept(id, workflow)
  <2> DEFINE new == [workflows.memory[id] EXCEPT !.content = content]
  <2>1. new \in WorkflowDefinition /\ new.mode = workflows.memory[id].mode
    BY <1>2, <1>5 DEF UpdateWorkflow, WorkflowDefinition
  <2>2. /\ id \in Listed(workflows) /\ armed' = armed /\ issued' = issued
        /\ SaveWorkflow(id, new, k, k = 2)
        /\ active' = Refreshed(id, workflows.memory[id].mode, k)
    BY <1>5 DEF UpdateWorkflow, StoreWorkflow
  <2>3. workflows.memory[id].mode = "LIVE_ARMED" => id \in armed
    BY <2>2 DEF ArmedOnRequest
  <2>4. ActiveArmed'
    BY <1>2, <2>2, <2>3 DEF Refreshed, ActiveArmed
  <2> HIDE DEF new
  <2>5. Changes(id, new, k, k = 2)
    BY <1>1, <2>1, <2>2, <2>3, <2>4 DEF Changes
  <2> QED
    BY <2>1, <2>5
<1>6. ASSUME NEW id \in WorkflowId, NEW content \in Contents, NEW mode \in Modes,
             SetMode(id, content, mode, k)
      PROVE  \E workflow \in WorkflowDefinition \cup {None} : Kept(id, workflow)
  <2> DEFINE new == [mode |-> mode, content |-> content]
  <2>1. new \in WorkflowDefinition /\ new.mode = mode
    BY DEF WorkflowDefinition
  <2>2. /\ id \in Listed(workflows) /\ issued' = issued
        /\ SaveWorkflow(id, new, k, k = 2)
        /\ active' = Refreshed(id, mode, k)
        /\ armed' = IF mode = "LIVE_ARMED" THEN armed \cup {id}
                    ELSE IF k = 2 THEN armed \ {id} ELSE armed
    BY <1>6 DEF SetMode, StoreWorkflow
  <2>3. armed \ {id} \subseteq armed' /\ (mode = "LIVE_ARMED" => id \in armed')
    BY <2>2
  <2>4. ActiveArmed'
    <3>1. CASE k = 2 /\ id = active.id
      BY <1>2, <2>2, <2>3, <3>1 DEF Refreshed, ActiveArmed
    <3>2. CASE k # 2
      BY <1>2, <2>2, <3>2 DEF Refreshed, ActiveArmed
    <3>3. CASE id # active.id
      BY <1>2, <2>2, <3>3 DEF Refreshed, ActiveArmed
    <3> QED
      BY <3>1, <3>2, <3>3
  <2> HIDE DEF new
  <2>5. Changes(id, new, k, k = 2)
    BY <1>1, <2>1, <2>2, <2>3, <2>4 DEF Changes
  <2> QED
    BY <2>1, <2>5
<1>7. ASSUME NEW id \in WorkflowId, DeleteWorkflow(id, k)
      PROVE  \E workflow \in WorkflowDefinition \cup {None} : Kept(id, workflow)
  <2>1. /\ id \in Listed(workflows) /\ issued' = issued /\ armed' = armed
        /\ SaveWorkflow(id, None, k, k = 2)
    BY <1>7 DEF DeleteWorkflow, StoreWorkflow
  <2>2. ActiveArmed'
    <3>1. \/ active' = active
          \/ /\ active'.id \in WorkflowId /\ workflows.memory[active'.id] # None
             /\ active'.mode = workflows.memory[active'.id].mode
      BY <1>7, DeletedLeavesOldest
    <3>2. CASE active' = active
      BY <2>1, <3>2 DEF ActiveArmed
    <3>3. CASE /\ active'.id \in WorkflowId /\ workflows.memory[active'.id] # None
               /\ active'.mode = workflows.memory[active'.id].mode
      BY <1>2, <2>1, <3>3 DEF ActiveArmed, ArmedOnRequest
    <3> QED
      BY <3>1, <3>2, <3>3
  <2>3. Changes(id, None, k, k = 2)
    BY <1>1, <2>1, <2>2 DEF Changes
  <2> QED
    BY <2>3
<1>8. ASSUME NEW content \in Contents, PutActive(content, k)
      PROVE  \E id \in WorkflowId, workflow \in WorkflowDefinition \cup {None} : Kept(id, workflow)
  <2> DEFINE new == [mode |-> active.mode, content |-> content]
  <2>1. new \in WorkflowDefinition /\ new.mode = active.mode /\ active.id \in WorkflowId
    BY <1>2 DEF WorkflowDefinition
  <2>2. /\ active.id \in Listed(workflows) /\ issued' = issued /\ armed' = armed
        /\ active' = active
        /\ SaveWorkflow(active.id, new, k, k = 3)
    BY <1>8 DEF PutActive
  <2>3. (active.mode = "LIVE_ARMED" => active.id \in armed) /\ ActiveArmed'
    BY <2>2 DEF ActiveArmed
  <2> HIDE DEF new
  <2>4. Changes(active.id, new, k, k = 3)
    BY <1>1, <2>1, <2>2, <2>3 DEF Changes
  <2> QED
    BY <2>1, <2>4
<1> QED
  BY <1>1, <1>3, <1>4, <1>5, <1>6, <1>7, <1>8

-----------------------------------------------------------------------------
(* The inductive invariant.                                                 *)

(* What a start makes of a file: a page as it is, a workflow locked.        *)
Same == [page \in OverviewPageDefinition \cup {None} |-> page]
Shown == [workflow \in WorkflowDefinition \cup {None} |-> Locked(workflow)]

(* A file that the index names, or may come to name with the next write, is *)
(* one that was promised; an item without such a file may rightly be gone.  *)
Backed(store, f, prom) ==
  \A i \in DOMAIN store.files :
    /\ (i \in store.index \/ store.memory[i] # None) /\ store.files[i] # None
         => f[store.files[i]] \in prom[i]
    /\ store.files[i] = None \/ i \notin store.index \/ store.memory[i] = None
         => None \in prom[i]

(* Nothing is kept under an id that was not issued.                         *)
Fresh(store, count) ==
  \A i \in DOMAIN store.files :
    i > count => store.memory[i] = None /\ store.files[i] = None

(* A page that can never be listed again.                                   *)
Buried(id) ==
  id <= issued.pages /\ pages.memory[id] = None /\ pages.files[id] = None

SwitchesKept ==
  \A id \in PageId, element \in Switch :
    \/ /\ switches.memory[<<id, element>>] = told[<<id, element>>]
       /\ switches.file[<<id, element>>] = told[<<id, element>>]
    \/ Buried(id)

TagsWritten ==
  /\ definitions.memory = definitions.file
  /\ mappings.memory = mappings.file
  /\ WithinLimits(mappings.file)

StoreInv ==
  /\ TypeOK
  /\ Backed(pages, Same, promised.pages)
  /\ Backed(workflows, Shown, promised.workflows)
  /\ Fresh(pages, issued.pages)
  /\ Fresh(workflows, issued.workflows)
  /\ SwitchesKept
  /\ TagsWritten
  /\ ArmedOnRequest
  /\ ActiveArmed

LEMMA PutAt ==
  ASSUME NEW ids, NEW T, NEW store \in Filed(ids, T),
         NEW i \in ids, NEW v \in T \cup {None}, NEW k
  PROVE  /\ Put(store, i, v, k) \in Filed(ids, T)
         /\ \A j \in ids :
              /\ Put(store, i, v, k).memory[j] = IF j = i THEN v ELSE store.memory[j]
              /\ Put(store, i, v, k).files[j] =
                   IF j = i /\ k >= 1 THEN v ELSE store.files[j]
              /\ j \in Put(store, i, v, k).index <=>
                   IF k >= 2 THEN Put(store, i, v, k).memory[j] # None ELSE j \in store.index
<1> DEFINE new == Put(store, i, v, k)
<1>1. /\ new \in Filed(ids, T)
      /\ new.memory = [store.memory EXCEPT ![i] = v]
      /\ new.files = IF k >= 1 THEN [store.files EXCEPT ![i] = v] ELSE store.files
      /\ new.index = IF k >= 2 THEN Listed(new) ELSE store.index
  BY PutType
<1>2. DOMAIN store.memory = ids /\ DOMAIN store.files = ids /\ DOMAIN new.memory = ids
  BY <1>1 DEF Filed, Items
<1> HIDE DEF new
<1>3. ASSUME NEW j \in ids
      PROVE  /\ new.memory[j] = IF j = i THEN v ELSE store.memory[j]
             /\ new.files[j] = IF j = i /\ k >= 1 THEN v ELSE store.files[j]
             /\ j \in new.index <=> IF k >= 2 THEN new.memory[j] # None ELSE j \in store.index
  BY <1>1, <1>2 DEF Listed
<1> QED
  BY <1>1, <1>3 DEF new

LEMMA PutBacked ==
  ASSUME NEW ids, NEW T, NEW store \in Filed(ids, T),
         NEW f, f[None] = None,
         NEW Y, NEW prom \in [ids -> SUBSET Y],
         NEW i \in ids, NEW v \in T \cup {None}, NEW k \in Nat,
         NEW acknowledged, acknowledged => k >= 2,
         store.memory[i] # None \/ store.files[i] = None,
         Backed(store, f, prom)
  PROVE  Backed(Put(store, i, v, k), f, Added(prom, i, f[v], acknowledged))
<1> DEFINE new == Put(store, i, v, k)
           given == Added(prom, i, f[v], acknowledged)
<1>1. /\ new \in Filed(ids, T)
      /\ \A j \in ids :
           /\ new.memory[j] = IF j = i THEN v ELSE store.memory[j]
           /\ new.files[j] = IF j = i /\ k >= 1 THEN v ELSE store.files[j]
           /\ j \in new.index <=> IF k >= 2 THEN new.memory[j] # None ELSE j \in store.index
  BY PutAt
<1>2. \A j \in ids : given[j] =
        IF j # i THEN prom[j] ELSE IF acknowledged THEN {f[v]} ELSE prom[j] \cup {f[v]}
  BY DEF Added
<1>3. DOMAIN store.files = ids /\ DOMAIN new.files = ids
  BY <1>1 DEF Filed, Items
<1> HIDE DEF new, given
<1>4. ASSUME NEW j \in ids
      PROVE  /\ (j \in new.index \/ new.memory[j] # None) /\ new.files[j] # None
                  => f[new.files[j]] \in given[j]
             /\ new.files[j] = None \/ j \notin new.index \/ new.memory[j] = None
                  => None \in given[j]
  <2>1. CASE j # i
    BY <1>1, <1>2, <1>3, <2>1 DEF Backed
  <2>2. CASE j = i
    <3>1. /\ f[v] \in given[i]
          /\ ~acknowledged => prom[i] \subseteq given[i]
      BY <1>2
    <3>2. /\ new.memory[i] = v
          /\ new.files[i] = IF k >= 1 THEN v ELSE store.files[i]
          /\ i \in new.index <=> IF k >= 2 THEN v # None ELSE i \in store.index
      BY <1>1
    <3>3. /\ (i \in store.index \/ store.memory[i] # None) /\ store.files[i] # None
               => f[store.files[i]] \in prom[i]
          /\ store.files[i] = None \/ i \notin store.index \/ store.memory[i] = None
               => None \in prom[i]
      BY <1>3 DEF Backed
    <3>4. CASE k = 0
      BY <2>2, <3>1, <3>2, <3>3, <3>4
    <3>5. CASE k = 1
      BY <2>2, <3>1, <3>2, <3>3, <3>5
    <3>6. CASE k >= 2
      BY <2>2, <3>1, <3>2, <3>6
    <3> QED
      BY <3>4, <3>5, <3>6
  <2> QED
    BY <2>1, <2>2
<1>5. Backed(new, f, given)
  BY <1>3, <1>4 DEF Backed
<1> QED
  BY <1>5 DEF new, given

LEMMA PutFresh ==
  ASSUME NEW ids \in SUBSET Int, NEW T, NEW store \in Filed(ids, T),
         NEW i \in ids, NEW v \in T \cup {None}, NEW k,
         NEW count \in Int, NEW new \in Int, count <= new, i <= new,
         Fresh(store, count)
  PROVE  Fresh(Put(store, i, v, k), new)
<1> DEFINE put == Put(store, i, v, k)
<1>1. /\ put \in Filed(ids, T)
      /\ \A j \in ids :
           /\ put.memory[j] = IF j = i THEN v ELSE store.memory[j]
           /\ put.files[j] = IF j = i /\ k >= 1 THEN v ELSE store.files[j]
  BY PutAt
<1>2. DOMAIN store.files = ids /\ DOMAIN put.files = ids
  BY <1>1 DEF Filed, Items
<1> HIDE DEF put
<1>3. ASSUME NEW j \in ids, j > new
      PROVE  put.memory[j] = None /\ put.files[j] = None
  <2>1. j > count /\ j # i
    BY <1>3
  <2>2. store.memory[j] = None /\ store.files[j] = None
    BY <1>2, <2>1 DEF Fresh
  <2> QED
    BY <1>1, <2>1, <2>2
<1>4. Fresh(put, new)
  BY <1>2, <1>3 DEF Fresh
<1> QED
  BY <1>4 DEF put

-----------------------------------------------------------------------------
(* The initial state.                                                       *)

LEMMA NoPollGroups ==
  ASSUME NEW map, \A i \in DOMAIN map : map[i] = None
  PROVE  WithinLimits(map)
<1>1. {i \in DOMAIN map : map[i] # None} = {}
  OBVIOUS
<1>2. \A device \in Device : PollGroups(map, device) = {}
  BY DEF PollGroups
<1>3. MaxMappings \in Nat /\ MaxGroups \in Nat
  BY StoreAssumption
<1>4. Cardinality({}) = 0
  BY FS_EmptySet
<1> QED
  BY <1>1, <1>2, <1>3, <1>4 DEF WithinLimits

LEMMA InitStoreInv == ASSUME Init PROVE StoreInv
<1>1. TypeOK
  BY InitType
<1>2. DOMAIN pages.files = PageId /\ DOMAIN workflows.files = WorkflowId
  BY <1>1 DEF TypeOK, Filed, Items
<1>3. /\ pages.memory = InitialPages /\ pages.files = InitialPages
      /\ promised.pages = [i \in PageId |-> {InitialPages[i]}] /\ issued.pages = 2
      /\ workflows.memory = InitialWorkflows /\ workflows.files = InitialWorkflows
      /\ promised.workflows = [i \in WorkflowId |-> {InitialWorkflows[i]}]
      /\ issued.workflows = 2
      /\ pages.index = {1, 2} /\ workflows.index = {1, 2}
  BY DEF Init
<1>4. \A i \in PageId : /\ InitialPages[i] # None => i \in {1, 2}
                       /\ InitialPages[i] \in OverviewPageDefinition \cup {None}
  BY <1>1, <1>3 DEF InitialPages, PageId, TypeOK, Filed, Items
<1>5. \A i \in WorkflowId : /\ InitialWorkflows[i] # None => i \in {1, 2}
                           /\ InitialWorkflows[i] \in {MainWorkflow, None}
                           /\ InitialWorkflows[i] \in WorkflowDefinition \cup {None}
  BY <1>1, <1>3 DEF InitialWorkflows, WorkflowId, TypeOK, Filed, Items
<1>6. Locked(MainWorkflow) = MainWorkflow /\ MainWorkflow.mode = "DESIGN"
  BY DEF Locked, MainWorkflow
<1>7. Backed(pages, Same, promised.pages)
  <2>1. ASSUME NEW i \in PageId
        PROVE  /\ pages.files[i] = pages.memory[i]
               /\ pages.files[i] # None => i \in pages.index
               /\ Same[pages.files[i]] = pages.files[i]
               /\ promised.pages[i] = {pages.files[i]}
    <3>1. /\ InitialPages[i] \in OverviewPageDefinition \cup {None}
          /\ InitialPages[i] # None => i \in {1, 2}
      BY <1>4
    <3>2. Same[InitialPages[i]] = InitialPages[i]
      BY <3>1 DEF Same
    <3>3. promised.pages[i] = {InitialPages[i]}
      BY <1>3
    <3> QED
      BY <1>3, <3>1, <3>2, <3>3
  <2> QED
    BY <1>2, <2>1 DEF Backed
<1>8. Backed(workflows, Shown, promised.workflows)
  <2>1. ASSUME NEW i \in WorkflowId
        PROVE  /\ workflows.files[i] = workflows.memory[i]
               /\ workflows.files[i] # None => i \in workflows.index
               /\ Shown[workflows.files[i]] = workflows.files[i]
               /\ promised.workflows[i] = {workflows.files[i]}
    <3>1. /\ InitialWorkflows[i] \in WorkflowDefinition \cup {None}
          /\ InitialWorkflows[i] \in {MainWorkflow, None}
          /\ InitialWorkflows[i] # None => i \in {1, 2}
      BY <1>5
    <3>2. Locked(None) = None
      BY DEF Locked
    <3>3. Shown[InitialWorkflows[i]] = InitialWorkflows[i]
      BY <1>6, <3>1, <3>2 DEF Shown
    <3>4. promised.workflows[i] = {InitialWorkflows[i]}
      BY <1>3
    <3> QED
      BY <1>3, <3>1, <3>3, <3>4
  <2> QED
    BY <1>2, <2>1 DEF Backed
<1>9. Fresh(pages, issued.pages) /\ Fresh(workflows, issued.workflows)
  <2>1. ASSUME NEW i \in PageId, i > 2
        PROVE  pages.memory[i] = None /\ pages.files[i] = None
    BY <1>3, <1>4, <2>1 DEF PageId
  <2>2. ASSUME NEW i \in WorkflowId, i > 2
        PROVE  workflows.memory[i] = None /\ workflows.files[i] = None
    BY <1>3, <1>5, <2>2 DEF WorkflowId
  <2>3. Fresh(pages, 2) /\ Fresh(workflows, 2)
    BY <1>2, <2>1, <2>2 DEF Fresh
  <2> QED
    BY <1>3, <2>3
<1>10. SwitchesKept
  BY DEF Init, SwitchesKept, Nothing
<1>11. TagsWritten
  <2>1. WithinLimits(mappings.file)
    BY NoPollGroups DEF Init, Nothing
  <2> QED
    BY <2>1 DEF Init, Nothing, TagsWritten
<1>12. ArmedOnRequest
  <2>1. \A i \in Listed(workflows) : workflows.memory[i] = MainWorkflow
    <3>1. DOMAIN workflows.memory = WorkflowId
      BY <1>1 DEF TypeOK, Filed, Items
    <3>2. \A i \in WorkflowId : InitialWorkflows[i] \in {MainWorkflow, None}
      BY <1>5
    <3> QED
      BY <1>3, <3>1, <3>2 DEF Listed
  <2> QED
    BY <1>6, <2>1 DEF ArmedOnRequest
<1>13. ActiveArmed
  BY DEF Init, ActiveArmed
<1> QED
  BY <1>1, <1>7, <1>8, <1>9, <1>10, <1>11, <1>12, <1>13 DEF StoreInv

-----------------------------------------------------------------------------
(* Requests about pages.                                                    *)

LEMMA StorePageKeeps ==
  ASSUME StoreInv, NEW id \in PageId, NEW page \in OverviewPageDefinition, NEW k \in Nat,
         StorePage(id, page, k),
         \/ id \in Listed(pages) /\ UNCHANGED issued
         \/ /\ id = issued.pages + 1
            /\ issued'.pages = issued.pages + 1 /\ issued'.workflows = issued.workflows,
         TypeOK'
  PROVE  StoreInv'
<1>1. /\ pages \in Filed(PageId, OverviewPageDefinition)
      /\ promised \in Promises
      /\ issued.pages \in 0..MaxPages /\ MaxPages \in Nat
      /\ DOMAIN pages.files = PageId /\ DOMAIN pages.memory = PageId
      /\ Fresh(pages, issued.pages)
  BY StoreAssumption DEF StoreInv, TypeOK, Promises, Filed, Items
<1>2. /\ pages' = Put(pages, id, page, k)
      /\ promised'.pages = Added(promised.pages, id, page, k = 2)
      /\ promised'.workflows = promised.workflows
  BY <1>1, PromiseType DEF StorePage, StoreInv
<1>3. pages.memory[id] # None \/ (id > issued.pages /\ pages.files[id] = None)
  BY <1>1 DEF Listed, Fresh
<1>4. Backed(pages', Same, promised'.pages)
  <2>1. /\ Same[None] = None /\ Same[page] = page
        /\ page \in OverviewPageDefinition \cup {None}
        /\ promised.pages \in [PageId -> SUBSET (OverviewPageDefinition \cup {None})]
    BY <1>1 DEF Same, Promises
  <2> DEFINE acknowledged == k = 2
  <2>2. acknowledged => k >= 2
    OBVIOUS
  <2>3. Backed(pages, Same, promised.pages) /\ (pages.memory[id] # None \/ pages.files[id] = None)
    BY <1>3 DEF StoreInv
  <2> HIDE DEF acknowledged
  <2>4. Backed(Put(pages, id, page, k), Same, Added(promised.pages, id, Same[page], acknowledged))
    BY <1>1, <2>1, <2>2, <2>3, PutBacked
  <2> QED
    BY <1>2, <2>1, <2>4 DEF acknowledged
<1>5. Fresh(pages', issued'.pages)
  <2>1. id <= issued'.pages /\ issued.pages <= issued'.pages /\ issued'.pages \in Int
    <3>1. CASE id \in Listed(pages) /\ UNCHANGED issued
      BY <1>1, <3>1 DEF Listed, Fresh, PageId
    <3>2. CASE id = issued.pages + 1 /\ issued'.pages = issued.pages + 1
      BY <1>1, <3>2
    <3> QED
      BY <3>1, <3>2
  <2> QED
    BY <1>1, <1>2, <2>1, PutFresh DEF PageId
<1>6. SwitchesKept'
  <2>1. ASSUME NEW i \in PageId, Buried(i)
        PROVE  Buried(i)'
    <3>1. i # id
      BY <1>1, <1>3, <2>1 DEF Buried, PageId
    <3>2. pages'.memory[i] = pages.memory[i] /\ pages'.files[i] = pages.files[i]
      BY <1>1, <1>2, <3>1, PutAt
    <3>3. issued.pages <= issued'.pages
      BY <1>1
    <3> QED
      BY <1>1, <2>1, <3>2, <3>3 DEF Buried, PageId, StoreInv, TypeOK
  <2>2. SwitchesKept /\ UNCHANGED <<switches, told>>
    BY DEF StorePage, StoreInv
  <2> QED
    BY <2>1, <2>2 DEF SwitchesKept
<1>7. /\ UNCHANGED <<workflows, active, definitions, mappings, armed>>
      /\ issued'.workflows = issued.workflows
  BY DEF StorePage
<1>8. /\ Backed(workflows, Shown, promised.workflows)'
      /\ Fresh(workflows, issued.workflows)'
  BY <1>2, <1>7 DEF StoreInv, Backed, Shown, Fresh
<1>9. TagsWritten' /\ ArmedOnRequest' /\ ActiveArmed'
  BY <1>7 DEF StoreInv, TagsWritten, ArmedOnRequest, ActiveArmed, Listed
<1> QED
  BY <1>4, <1>5, <1>6, <1>8, <1>9 DEF StoreInv, Same

LEMMA DeletePageKeeps ==
  ASSUME StoreInv, NEW id \in PageId, NEW k \in Nat, DeletePage(id, k), TypeOK'
  PROVE  StoreInv'
<1> DEFINE last == IF withoutPage(id) = switches.memory THEN 2 ELSE 3
           acknowledged == k = last
<1>1. /\ pages \in Filed(PageId, OverviewPageDefinition)
      /\ promised \in Promises
      /\ issued.pages \in Nat
      /\ DOMAIN pages.files = PageId /\ DOMAIN pages.memory = PageId
      /\ Fresh(pages, issued.pages)
  BY StoreAssumption DEF StoreInv, TypeOK, Promises, Filed, Items
<1>2. /\ pages' = Put(pages, id, None, k)
      /\ promised' = Promise("pages", id, None, acknowledged)
      /\ switches' = IF k < 2 THEN switches ELSE clearPage(id, k = 3)
      /\ UNCHANGED <<workflows, active, definitions, mappings, issued, told, armed>>
  BY DEF DeletePage
<1>3. pages.memory[id] # None /\ id <= issued.pages
  BY <1>1 DEF DeletePage, Listed, Fresh, PageId
<1>4. last >= 2 /\ (acknowledged => k >= 2)
  OBVIOUS
<1> HIDE DEF acknowledged, last
<1>5. /\ promised'.pages = Added(promised.pages, id, None, acknowledged)
      /\ promised'.workflows = promised.workflows
  BY <1>2, PromiseType DEF StoreInv
<1>6. Backed(pages', Same, promised'.pages)
  <2>1. /\ Same[None] = None
        /\ None \in OverviewPageDefinition \cup {None}
        /\ promised.pages \in [PageId -> SUBSET (OverviewPageDefinition \cup {None})]
        /\ Backed(pages, Same, promised.pages)
    BY <1>1 DEF Same, Promises, StoreInv
  <2>2. Backed(Put(pages, id, None, k), Same, Added(promised.pages, id, Same[None], acknowledged))
    BY <1>1, <1>3, <1>4, <2>1, PutBacked
  <2> QED
    BY <1>2, <1>5, <2>1, <2>2
<1>7. Fresh(pages', issued'.pages)
  <2>1. /\ PageId \in SUBSET Int /\ issued.pages \in Int /\ id <= issued.pages
        /\ issued.pages <= issued.pages /\ None \in OverviewPageDefinition \cup {None}
    BY <1>1, <1>3 DEF PageId
  <2>2. Fresh(Put(pages, id, None, k), issued.pages)
    BY <1>1, <2>1, PutFresh
  <2> QED
    BY <1>2, <2>2
<1>8. \A i \in PageId :
        /\ pages'.memory[i] = IF i = id THEN None ELSE pages.memory[i]
        /\ pages'.files[i] = IF i = id /\ k >= 1 THEN None ELSE pages.files[i]
  <2>1. None \in OverviewPageDefinition \cup {None}
    OBVIOUS
  <2>2. \A i \in PageId :
          /\ Put(pages, id, None, k).memory[i] = IF i = id THEN None ELSE pages.memory[i]
          /\ Put(pages, id, None, k).files[i]
               = IF i = id /\ k >= 1 THEN None ELSE pages.files[i]
    BY <1>1, <2>1, PutAt
  <2> QED
    BY <1>2, <2>2
<1>9. SwitchesKept'
  <2>0. SwitchesKept
    BY DEF StoreInv
  <2>1. ASSUME NEW i \in PageId, Buried(i)
        PROVE  Buried(i)'
    <3>1. UNCHANGED issued
      BY <1>2
    <3> QED
      BY <1>8, <2>1, <3>1 DEF Buried
  <2>2. ASSUME NEW i \in PageId, i # id, NEW element \in Switch
        PROVE  /\ switches'.memory[<<i, element>>] = switches.memory[<<i, element>>]
               /\ switches'.file[<<i, element>>] = switches.file[<<i, element>>]
                    \/ switches'.file[<<i, element>>] = switches.memory[<<i, element>>]
    <3>1. withoutPage(id)[<<i, element>>] = switches.memory[<<i, element>>]
      BY <2>2 DEF withoutPage, StoreInv, TypeOK, Single, Items
    <3> QED
      BY <1>2, <3>1 DEF clearPage
  <2>3. CASE k < 2
    <3>1. UNCHANGED <<switches, told>>
      BY <1>2, <2>3
    <3> QED
      BY <2>0, <2>1, <3>1 DEF SwitchesKept
  <2>4. CASE k >= 2
    <3>1. Buried(id)'
      <4>1. UNCHANGED issued /\ k >= 1
        BY <1>2, <2>4
      <4> QED
        BY <1>3, <1>8, <4>1 DEF Buried
    <3>2. UNCHANGED told
      BY <1>2
    <3> QED
      BY <2>0, <2>1, <2>2, <3>1, <3>2 DEF SwitchesKept
  <2> QED
    BY <2>3, <2>4
<1>10. /\ Backed(workflows, Shown, promised.workflows)'
       /\ Fresh(workflows, issued.workflows)'
  BY <1>2, <1>5 DEF StoreInv, Backed, Shown, Fresh
<1>11. TagsWritten' /\ ArmedOnRequest' /\ ActiveArmed'
  BY <1>2 DEF StoreInv, TagsWritten, ArmedOnRequest, ActiveArmed, Listed
<1> QED
  BY <1>6, <1>7, <1>9, <1>10, <1>11 DEF StoreInv, Same

LEMMA PatchSwitchKeeps ==
  ASSUME StoreInv, NEW id \in PageId, NEW element \in Switch, NEW value \in BOOLEAN, NEW k \in Nat,
         PatchSwitch(id, element, value, k), TypeOK'
  PROVE  StoreInv'
<1>1. UNCHANGED <<pages, workflows, active, definitions, mappings, issued, promised, armed>>
  BY DEF PatchSwitch
<1>2. SwitchesKept'
  <2>1. \A i \in PageId : Buried(i)' <=> Buried(i)
    BY <1>1 DEF Buried
  <2>2. CASE k = 1
    <3>1. /\ switches'.memory = [switches.memory EXCEPT ![<<id, element>>] = value]
          /\ switches'.file = [switches.memory EXCEPT ![<<id, element>>] = value]
          /\ told' = [told EXCEPT ![<<id, element>>] = value]
      BY <2>2 DEF PatchSwitch, setSwitch
    <3>2. /\ DOMAIN switches.memory = PageId \X Switch
          /\ DOMAIN told = PageId \X Switch
      BY DEF StoreInv, TypeOK, Single, Items
    <3>3. ASSUME NEW key \in PageId \X Switch
          PROVE  \/ switches'.memory[key] = told'[key] /\ switches'.file[key] = told'[key]
                 \/ /\ switches'.memory[key] = switches.memory[key]
                    /\ switches'.file[key] = switches.memory[key]
                    /\ told'[key] = told[key]
      BY <3>1, <3>2
    <3>4. ASSUME NEW i \in PageId, NEW e \in Switch
          PROVE  \/ /\ switches'.memory[<<i, e>>] = told'[<<i, e>>]
                    /\ switches'.file[<<i, e>>] = told'[<<i, e>>]
                 \/ Buried(i)'
      <4>1. <<i, e>> \in PageId \X Switch
        OBVIOUS
      <4>2. switches.memory[<<i, e>>] = told[<<i, e>>] \/ Buried(i)
        BY DEF StoreInv, SwitchesKept
      <4> QED
        BY <2>1, <3>3, <4>1, <4>2
    <3> QED
      BY <3>4 DEF SwitchesKept
  <2>3. CASE k # 1
    <3>1. UNCHANGED <<switches, told>> /\ SwitchesKept
      BY <2>3 DEF PatchSwitch, setSwitch, StoreInv
    <3> QED
      BY <2>1, <3>1 DEF SwitchesKept
  <2> QED
    BY <2>2, <2>3
<1> QED
  BY <1>1, <1>2
  DEF StoreInv, Backed, Same, Shown, Fresh, TagsWritten, ArmedOnRequest, ActiveArmed, Listed

-----------------------------------------------------------------------------
(* Requests about workflows, definitions and mappings.                      *)

LEMMA SaveWorkflowKeeps ==
  ASSUME StoreInv, NEW id \in WorkflowId, NEW workflow \in WorkflowDefinition \cup {None},
         NEW k \in Nat, NEW acknowledged \in BOOLEAN, acknowledged => k >= 2,
         SaveWorkflow(id, workflow, k, acknowledged),
         \/ id \in Listed(workflows) /\ UNCHANGED issued
         \/ /\ id = issued.workflows + 1
            /\ issued'.workflows = issued.workflows + 1 /\ issued'.pages = issued.pages,
         armed \ {id} \subseteq armed',
         workflow # None /\ workflow.mode = "LIVE_ARMED" => id \in armed',
         ActiveArmed', TypeOK'
  PROVE  StoreInv'
<1>1. /\ workflows \in Filed(WorkflowId, WorkflowDefinition)
      /\ promised \in Promises
      /\ issued.workflows \in Nat
      /\ DOMAIN workflows.files = WorkflowId /\ DOMAIN workflows.memory = WorkflowId
      /\ Fresh(workflows, issued.workflows)
  BY StoreAssumption DEF StoreInv, TypeOK, Promises, Filed, Items
<1>2. acknowledged => k >= 2
  OBVIOUS
<1>3. /\ workflows' = Put(workflows, id, workflow, k)
      /\ promised' = Promise("workflows", id, Locked(workflow), acknowledged)
      /\ UNCHANGED <<pages, switches, definitions, mappings, told>>
  BY DEF SaveWorkflow
<1>4. Locked(workflow) \in WorkflowDefinition \cup {None} /\ Locked(None) = None
  BY LockedType
<1>5. /\ promised'.workflows = Added(promised.workflows, id, Locked(workflow), acknowledged)
      /\ promised'.pages = promised.pages
  BY <1>3, <1>4, PromiseType DEF StoreInv
<1>6. workflows.memory[id] # None \/ workflows.files[id] = None
  BY <1>1 DEF Listed, Fresh, WorkflowId
<1>7. Backed(workflows', Shown, promised'.workflows)
  <2>1. /\ Shown[None] = None /\ Shown[workflow] = Locked(workflow)
        /\ promised.workflows \in [WorkflowId -> SUBSET (WorkflowDefinition \cup {None})]
        /\ Backed(workflows, Shown, promised.workflows)
    BY <1>1, <1>4 DEF Shown, Promises, StoreInv
  <2>2. Backed(Put(workflows, id, workflow, k), Shown,
               Added(promised.workflows, id, Shown[workflow], acknowledged))
    BY <1>1, <1>2, <1>6, <2>1, PutBacked
  <2> QED
    BY <1>3, <1>5, <2>1, <2>2
<1>8. Fresh(workflows', issued'.workflows)
  <2>1. id <= issued'.workflows /\ issued.workflows <= issued'.workflows /\ issued'.workflows \in Int
    <3>1. CASE id \in Listed(workflows) /\ UNCHANGED issued
      BY <1>1, <3>1 DEF Listed, Fresh, WorkflowId
    <3>2. CASE id = issued.workflows + 1 /\ issued'.workflows = issued.workflows + 1
      BY <1>1, <3>2
    <3> QED
      BY <3>1, <3>2
  <2>2. WorkflowId \in SUBSET Int /\ issued.workflows \in Int
    BY <1>1 DEF WorkflowId
  <2>3. Fresh(Put(workflows, id, workflow, k), issued'.workflows)
    BY <1>1, <2>1, <2>2, PutFresh
  <2> QED
    BY <1>3, <2>3
<1>9. ArmedOnRequest'
  <2>1. /\ DOMAIN workflows'.memory = WorkflowId
        /\ \A i \in WorkflowId :
             workflows'.memory[i] = IF i = id THEN workflow ELSE workflows.memory[i]
    <3>1. /\ workflows' \in Filed(WorkflowId, WorkflowDefinition)
          /\ \A i \in WorkflowId :
               workflows'.memory[i] = IF i = id THEN workflow ELSE workflows.memory[i]
      BY <1>1, <1>3, PutAt
    <3> QED
      BY <3>1 DEF Filed, Items
  <2>2. ASSUME NEW i \in WorkflowId, workflows'.memory[i] # None,
               workflows'.memory[i].mode = "LIVE_ARMED"
        PROVE  i \in armed'
    <3>1. \A j \in WorkflowId : workflows.memory[j] # None /\ workflows.memory[j].mode = "LIVE_ARMED"
                                  => j \in armed
      BY <1>1 DEF StoreInv, ArmedOnRequest, Listed
    <3>2. CASE i = id
      BY <1>1, <2>1, <2>2, <3>1, <3>2 DEF Listed
    <3>3. CASE i # id
      BY <2>1, <2>2, <3>1, <3>3
    <3> QED
      BY <3>2, <3>3
  <2> QED
    BY <2>1, <2>2 DEF ArmedOnRequest, Listed
<1>10. UNCHANGED <<pages, switches, definitions, mappings, told>> /\ issued'.pages = issued.pages
  BY <1>3
<1>11. /\ Backed(pages, Same, promised.pages)'
       /\ Fresh(pages, issued.pages)'
       /\ SwitchesKept' /\ TagsWritten'
  BY <1>5, <1>10 DEF StoreInv, Backed, Same, Fresh, SwitchesKept, Buried, TagsWritten
<1> QED
  BY <1>7, <1>8, <1>9, <1>11 DEF StoreInv, Shown

(* A table with fewer mappings is within the limits that held before.       *)
LEMMA FewerMappings ==
  ASSUME NEW ids, IsFiniteSet(ids),
         NEW map, DOMAIN map = ids, NEW less, DOMAIN less = ids,
         \A i \in ids : less[i] = map[i] \/ less[i] = None,
         WithinLimits(map)
  PROVE  WithinLimits(less)
<1> DEFINE S(m) == {i \in ids : m[i] # None}
<1>1. S(less) \in SUBSET S(map) /\ IsFiniteSet(S(map))
  BY FS_Subset
<1>2. Cardinality(S(less)) <= Cardinality(S(map)) /\ Cardinality(S(less)) \in Nat
      /\ Cardinality(S(map)) \in Nat
  BY <1>1, FS_Subset, FS_CardinalityType
<1>3. ASSUME NEW device \in Device
      PROVE  Cardinality(PollGroups(less, device)) <= MaxGroups
  <2> DEFINE U(m) == {i \in ids : m[i] # None /\ m[i].enabled /\ m[i].device = device}
             g == [i \in U(map) |-> <<map[i].type, map[i].address>>]
  <2>1. IsFiniteSet(U(map))
    BY FS_Subset
  <2>2. g \in Surjection(U(map), PollGroups(map, device))
    BY DEF PollGroups, Surjection
  <2>3. IsFiniteSet(PollGroups(map, device))
    BY <2>1, <2>2, FS_Surjection
  <2>4. PollGroups(less, device) \in SUBSET PollGroups(map, device)
    BY DEF PollGroups
  <2>5. Cardinality(PollGroups(map, device)) <= MaxGroups
    BY DEF WithinLimits
  <2>6. MaxGroups \in Nat
    BY StoreAssumption
  <2> QED
    BY <2>3, <2>4, <2>5, <2>6, FS_Subset, FS_CardinalityType
<1>4. Cardinality(S(less)) <= MaxMappings
  <2>1. Cardinality(S(map)) <= MaxMappings /\ MaxMappings \in Nat
    BY StoreAssumption DEF WithinLimits
  <2> QED
    BY <1>2, <2>1
<1> QED
  BY <1>3, <1>4 DEF WithinLimits

LEMMA TagStepsKeep ==
  ASSUME StoreInv, DefinitionSteps \/ MappingSteps, TypeOK'
  PROVE  StoreInv'
<1>1. /\ UNCHANGED <<pages, workflows, active, switches, promised, told, armed>>
      /\ issued'.pages = issued.pages /\ issued'.workflows = issued.workflows
  <2>1. issued \in [pages : 0..MaxPages, workflows : 0..MaxWorkflows, tags : Nat]
    BY DEF StoreInv, TypeOK
  <2> QED
    <3>1. CASE DefinitionSteps
      BY <2>1, <3>1 DEF DefinitionSteps, CreateDefinition, UpdateDefinition, DeleteDefinition,
                        StoreDefinition
    <3>2. CASE MappingSteps
      BY <2>1, <3>2 DEF MappingSteps, PutMapping, DeleteMapping
    <3> QED
      BY <3>1, <3>2
<1>2. definitions' = definitions \/ definitions'.memory = definitions'.file
  <2>1. ASSUME NEW id, NEW definition, NEW k, StoreDefinition(id, definition, k)
        PROVE  definitions' = definitions \/ definitions'.memory = definitions'.file
    BY <2>1 DEF StoreDefinition, Commit
  <2>2. CASE DefinitionSteps
    BY <2>1, <2>2 DEF DefinitionSteps, CreateDefinition, UpdateDefinition, DeleteDefinition
  <2>3. CASE MappingSteps
    BY <2>3 DEF MappingSteps, PutMapping, DeleteMapping
  <2> QED
    BY <2>2, <2>3
<1>3. mappings'.memory = mappings'.file /\ WithinLimits(mappings'.file)
  <2>1. /\ mappings.memory = mappings.file /\ WithinLimits(mappings.memory)
        /\ DOMAIN mappings.memory = TagId
    BY DEF StoreInv, TagsWritten, TypeOK, Single, Items
  <2>2. ASSUME NEW i, NEW v, NEW k, mappings' = Commit(mappings, i, v, k),
               WithinLimits([mappings.memory EXCEPT ![i] = v])
        PROVE  mappings'.memory = mappings'.file /\ WithinLimits(mappings'.file)
    <3>1. mappings' = mappings
          \/ /\ mappings'.memory = [mappings.memory EXCEPT ![i] = v]
             /\ mappings'.file = [mappings.memory EXCEPT ![i] = v]
      BY <2>2 DEF Commit
    <3> QED
      BY <2>1, <2>2, <3>1
  <2>3. IsFiniteSet(TagId)
    BY FS_Interval, StoreAssumption DEF TagId
  <2>4. ASSUME NEW i \in TagId
        PROVE  WithinLimits([mappings.memory EXCEPT ![i] = None])
    <3> DEFINE less == [mappings.memory EXCEPT ![i] = None]
    <3>1. DOMAIN less = TagId /\ \A j \in TagId : less[j] = mappings.memory[j] \/ less[j] = None
      BY <2>1
    <3> HIDE DEF less
    <3>2. WithinLimits(less)
      BY <2>1, <2>3, <3>1, FewerMappings
    <3> QED
      BY <3>2 DEF less
  <2>5. CASE DefinitionSteps
    <3>1. UNCHANGED mappings
      BY <2>5 DEF DefinitionSteps, CreateDefinition, UpdateDefinition, DeleteDefinition, StoreDefinition
    <3> QED
      BY <2>1, <3>1
  <2>6. ASSUME NEW id \in TagId, NEW mapping \in acquisitionSchema, NEW k, PutMapping(id, mapping, k)
        PROVE  mappings'.memory = mappings'.file /\ WithinLimits(mappings'.file)
    BY <2>2, <2>6 DEF PutMapping
  <2>7. ASSUME NEW id \in TagId, NEW k, DeleteMapping(id, k)
        PROVE  mappings'.memory = mappings'.file /\ WithinLimits(mappings'.file)
    BY <2>2, <2>4, <2>7 DEF DeleteMapping
  <2> QED
    BY <2>5, <2>6, <2>7 DEF MappingSteps
<1> QED
  BY <1>1, <1>2, <1>3
  DEF StoreInv, Backed, Same, Shown, Fresh, SwitchesKept, Buried, TagsWritten, ArmedOnRequest,
      ActiveArmed, Listed

-----------------------------------------------------------------------------
(* A restart.                                                               *)

(* What a start makes of a store: `memory` as it was loaded, or, when that  *)
(* is nothing at all, the seed.                                             *)
Restored(ids, old, new, memory, seed, id) ==
  \/ /\ \E i \in ids : memory[i] # None
     /\ \A i \in ids : new.memory[i] = memory[i] /\ new.files[i] = old.files[i]
     /\ new.index = old.index
  \/ /\ \A i \in ids : memory[i] = None
     /\ id \in ids
     /\ \A i \in ids : /\ new.memory[i] = IF i = id THEN seed ELSE None
                       /\ new.files[i] = IF i = id THEN seed ELSE old.files[i]
                       /\ i \in new.index <=> new.memory[i] # None

(* What the load makes of the files the index names, each one by f, up to   *)
(* the one that cannot be read.                                             *)
Reads(ids, old, f, bad, memory) ==
  \A i \in ids : memory[i] = IF i \in Readable(old, bad) THEN f[old.files[i]] ELSE None

LEMMA SeededRestores ==
  ASSUME NEW ids, NEW T, NEW store \in Filed(ids, T), NEW memory \in Items(ids, T),
         NEW seed \in T, NEW id,
         (\A i \in ids : memory[i] = None) => id \in ids
  PROVE  Restored(ids, store, Seeded(store, memory, seed, id), memory, seed, id)
<1> DEFINE new == Seeded(store, memory, seed, id)
<1>1. CASE \E i \in ids : memory[i] # None
  <2>1. new.memory = memory /\ new.files = store.files /\ new.index = store.index
    BY <1>1, SeededSome
  <2> QED
    BY <1>1, <2>1 DEF Restored
<1>2. CASE \A i \in ids : memory[i] = None
  <2>1. id \in ids
    BY <1>2
  <2>2. /\ new \in Filed(ids, T)
        /\ \A i \in ids : /\ new.memory[i] = IF i = id THEN seed ELSE None
                          /\ new.files[i] = IF i = id THEN seed ELSE store.files[i]
        /\ new.index = Listed(new)
    BY <1>2, <2>1, SeededNone
  <2> HIDE DEF new
  <2>3. \A i \in ids : i \in new.index <=> new.memory[i] # None
    <3>1. DOMAIN new.memory = ids
      BY <2>2 DEF Filed, Items
    <3> QED
      BY <2>2, <3>1 DEF Listed
  <2>4. Restored(ids, store, new, memory, seed, id)
    BY <1>2, <2>1, <2>2, <2>3 DEF Restored
  <2> QED
    BY <2>4 DEF new
<1> QED
  BY <1>1, <1>2

LEMMA RestoredBacked ==
  ASSUME NEW ids, NEW T, NEW old \in Filed(ids, T), NEW new \in Filed(ids, T),
         NEW f, NEW memory, NEW seed, NEW id, NEW bad, NEW prom,
         \A i \in ids : i < Whole(old),
         Reads(ids, old, f, bad, memory),
         f[seed] = seed,
         Restored(ids, old, new, memory, seed, id),
         \A i \in ids : prom[i] = Reloaded(old, new, i, f[old.files[i]])
  PROVE  Backed(new, f, prom)
<1>1. DOMAIN new.files = ids
  BY DEF Filed, Items
<1>2. \A i \in ids : i \in Readable(old, Whole(old)) <=> i \in old.index /\ old.files[i] # None
  BY DEF Readable
<1>3. \A i \in ids : i \in Readable(old, bad) => i \in old.index /\ old.files[i] # None
  BY DEF Readable
<1>4. \A i \in ids : prom[i] =
        IF new.memory[i] # None THEN {new.memory[i]}
        ELSE IF i \in Readable(old, Whole(old)) THEN {f[old.files[i]], None} ELSE {None}
  BY DEF Reloaded
<1>5. ASSUME NEW i \in ids
      PROVE  /\ (i \in new.index \/ new.memory[i] # None) /\ new.files[i] # None
                  => f[new.files[i]] \in prom[i]
             /\ new.files[i] = None \/ i \notin new.index \/ new.memory[i] = None
                  => None \in prom[i]
  <2>1. CASE \A j \in ids : new.memory[j] = memory[j] /\ new.files[j] = old.files[j]
             /\ new.index = old.index
    <3>1. CASE new.memory[i] # None
      BY <1>3, <1>4, <2>1, <3>1 DEF Reads
    <3>2. CASE new.memory[i] = None
      BY <1>2, <1>4, <2>1, <3>2
    <3> QED
      BY <3>1, <3>2
  <2>2. CASE \A j \in ids : /\ new.memory[j] = IF j = id THEN seed ELSE None
                            /\ new.files[j] = IF j = id THEN seed ELSE old.files[j]
                            /\ j \in new.index <=> new.memory[j] # None
    <3>1. CASE new.memory[i] # None
      <4>1. i = id /\ new.memory[i] = seed /\ new.files[i] = seed
        BY <2>2, <3>1
      <4>2. prom[i] = {seed}
        BY <1>4, <3>1, <4>1
      <4>3. i \in new.index
        BY <2>2, <3>1
      <4> QED
        BY <3>1, <4>1, <4>2, <4>3
    <3>2. CASE new.memory[i] = None
      <4>1. i \notin new.index
        BY <2>2, <3>2
      <4> QED
        BY <1>4, <3>2, <4>1
    <3> QED
      BY <3>1, <3>2
  <2> QED
    BY <2>1, <2>2 DEF Restored
<1> QED
  BY <1>1, <1>5 DEF Backed

(* Where the load stops for a file that cannot be read, and where it does   *)
(* not stop.                                                                *)
LEMMA WholeAfterAll ==
  ASSUME TypeOK
  PROVE  /\ \A i \in PageId : i < Whole(pages)
         /\ \A i \in WorkflowId : i < Whole(workflows)
<1>1. DOMAIN pages.files = PageId /\ DOMAIN workflows.files = WorkflowId
  BY DEF TypeOK, Filed, Items
<1>2. /\ MaxPages \in Nat /\ MaxWorkflows \in Nat
      /\ Cardinality(1..MaxPages) = MaxPages
      /\ Cardinality(1..MaxWorkflows) = MaxWorkflows
  <2>1. MaxPages \in Int /\ MaxPages >= 1 /\ MaxWorkflows \in Int /\ MaxWorkflows >= 1
    BY StoreAssumption
  <2>2. /\ Cardinality(1..MaxPages) = IF 1 > MaxPages THEN 0 ELSE MaxPages - 1 + 1
        /\ Cardinality(1..MaxWorkflows) = IF 1 > MaxWorkflows THEN 0 ELSE MaxWorkflows - 1 + 1
    BY <2>1, FS_Interval
  <2> QED
    BY <2>1, <2>2
<1>3. Whole(pages) = MaxPages + 1 /\ Whole(workflows) = MaxWorkflows + 1
  BY <1>1, <1>2 DEF Whole, PageId, WorkflowId
<1> QED
  BY <1>2, <1>3 DEF PageId, WorkflowId

LEMMA RestoredFresh ==
  ASSUME NEW ids \in SUBSET Int, NEW T, NEW old \in Filed(ids, T), NEW new \in Filed(ids, T),
         NEW f, NEW memory, NEW seed, NEW id, NEW bad,
         NEW count \in Int, NEW issue \in Int, count <= issue,
         (\A i \in ids : memory[i] = None) => id <= issue,
         Reads(ids, old, f, bad, memory),
         Restored(ids, old, new, memory, seed, id),
         Fresh(old, count)
  PROVE  Fresh(new, issue)
<1>1. DOMAIN new.files = ids /\ DOMAIN old.files = ids
  BY DEF Filed, Items
<1>2. ASSUME NEW i \in ids, i > issue
      PROVE  new.memory[i] = None /\ new.files[i] = None
  <2>1. i \in Int /\ i > count
    BY <1>2
  <2>2. old.files[i] = None
    BY <1>1, <2>1 DEF Fresh
  <2>3. memory[i] = None
    BY <2>2 DEF Reads, Readable
  <2>4. (\A j \in ids : memory[j] = None) => i # id
    BY <1>2
  <2> QED
    BY <2>2, <2>3, <2>4 DEF Restored
<1> QED
  BY <1>1, <1>2 DEF Fresh

(* What a restart makes of the two stores with a file for each item.        *)
LEMMA RestartRestores ==
  ASSUME TypeOK, NEW badWorkflow, NEW badPage, NEW migrated \in Migrations,
         Restart(badWorkflow, badPage, migrated)
  PROVE  /\ Restored(PageId, pages, pages', Loaded(pages, badPage), MainPage, issued.pages + 1)
         /\ Restored(WorkflowId, workflows, workflows', LoadedWorkflows(badWorkflow),
                     migrated, issued.workflows + 1)
         /\ issued.pages \in Int /\ issued'.pages \in Int /\ issued.pages <= issued'.pages
         /\ issued.workflows \in Int /\ issued'.workflows \in Int
         /\ issued.workflows <= issued'.workflows
         /\ (\A i \in PageId : Loaded(pages, badPage)[i] = None) =>
              issued.pages + 1 <= issued'.pages
         /\ (\A i \in WorkflowId : LoadedWorkflows(badWorkflow)[i] = None) =>
              issued.workflows + 1 <= issued'.workflows
<1>1. /\ workflows' = Seeded(workflows, LoadedWorkflows(badWorkflow),
                             migrated, issued.workflows + 1)
      /\ (\A i \in WorkflowId : LoadedWorkflows(badWorkflow)[i] = None) =>
           issued.workflows + 1 \in WorkflowId
      /\ (\A i \in PageId : Loaded(pages, badPage)[i] = None) =>
           issued.pages + 1 \in PageId
      /\ migrated \in WorkflowDefinition
      /\ MainPage \in OverviewPageDefinition
  BY RestartStores
<1>2. pages' = Seeded(pages, Loaded(pages, badPage), MainPage, issued.pages + 1)
  BY DEF Restart
<1>3. /\ pages \in Filed(PageId, OverviewPageDefinition)
      /\ workflows \in Filed(WorkflowId, WorkflowDefinition)
      /\ Loaded(pages, badPage) \in Items(PageId, OverviewPageDefinition)
      /\ LoadedWorkflows(badWorkflow) \in Items(WorkflowId, WorkflowDefinition)
  BY LoadedType, LoadedWorkflowsType DEF TypeOK
<1>4. Restored(PageId, pages, pages', Loaded(pages, badPage), MainPage, issued.pages + 1)
  BY <1>1, <1>2, <1>3, SeededRestores
<1>5. Restored(WorkflowId, workflows, workflows', LoadedWorkflows(badWorkflow),
               migrated, issued.workflows + 1)
  BY <1>1, <1>3, SeededRestores
<1> DEFINE seedW == \A i \in WorkflowId : LoadedWorkflows(badWorkflow)[i] = None
           seedP == \A i \in PageId : Loaded(pages, badPage)[i] = None
<1>6. issued' = [issued EXCEPT !.workflows = IF seedW THEN @ + 1 ELSE @,
                               !.pages = IF seedP THEN @ + 1 ELSE @]
  BY DEF Restart
<1>7. issued \in [pages : 0..MaxPages, workflows : 0..MaxWorkflows, tags : Nat]
  BY DEF TypeOK
<1> HIDE DEF seedW, seedP
<1>8. /\ issued'.workflows = IF seedW THEN issued.workflows + 1 ELSE issued.workflows
      /\ issued'.pages = IF seedP THEN issued.pages + 1 ELSE issued.pages
  BY <1>6, <1>7
<1>9. issued.pages \in Int /\ issued.workflows \in Int
  BY <1>7
<1> QED
  BY <1>4, <1>5, <1>8, <1>9 DEF seedW, seedP

LEMMA RestartKeeps ==
  ASSUME StoreInv, NEW badWorkflow, NEW badPage, NEW migrated \in Migrations,
         Restart(badWorkflow, badPage, migrated), TypeOK'
  PROVE  StoreInv'
<1>1. TypeOK
  BY DEF StoreInv
<1>2. /\ pages \in Filed(PageId, OverviewPageDefinition)
      /\ workflows \in Filed(WorkflowId, WorkflowDefinition)
      /\ pages' \in Filed(PageId, OverviewPageDefinition)
      /\ workflows' \in Filed(WorkflowId, WorkflowDefinition)
      /\ DOMAIN pages.files = PageId /\ DOMAIN workflows.files = WorkflowId
  BY <1>1 DEF TypeOK, Filed, Items
<1> DEFINE loadedP == Loaded(pages, badPage)
           loadedW == LoadedWorkflows(badWorkflow)
           idP == issued.pages + 1
           idW == issued.workflows + 1
<1>3. /\ Restored(PageId, pages, pages', loadedP, MainPage, idP)
      /\ Restored(WorkflowId, workflows, workflows', loadedW, migrated, idW)
      /\ issued.pages \in Int /\ issued'.pages \in Int /\ issued.pages <= issued'.pages
      /\ issued.workflows \in Int /\ issued'.workflows \in Int
      /\ issued.workflows <= issued'.workflows
      /\ (\A i \in PageId : loadedP[i] = None) => idP <= issued'.pages
      /\ (\A i \in WorkflowId : loadedW[i] = None) => idW <= issued'.workflows
  BY <1>1, RestartRestores
<1>4. /\ MainPage \in OverviewPageDefinition /\ migrated \in WorkflowDefinition
      /\ migrated.mode # "LIVE_ARMED"
  BY <1>1, RestartStores
<1>5. /\ Same[MainPage] = MainPage /\ Shown[migrated] = migrated
      /\ Locked(None) = None
  BY <1>4 DEF Same, Shown, Locked
<1>6. Reads(PageId, pages, Same, badPage, loadedP)
  BY <1>2 DEF Reads, Loaded, Same, Filed, Items
<1>7. Reads(WorkflowId, workflows, Shown, badWorkflow, loadedW)
  BY <1>2, <1>5 DEF Reads, LoadedWorkflows, Loaded, Shown, Filed, Items
<1>8. /\ \A i \in PageId : promised'.pages[i] =
           Reloaded(pages, pages', i, Same[pages.files[i]])
      /\ \A i \in WorkflowId : promised'.workflows[i] =
           Reloaded(workflows, workflows', i, Shown[workflows.files[i]])
  <2>1. /\ \A i \in PageId : Same[pages.files[i]] = pages.files[i]
        /\ \A i \in WorkflowId : Shown[workflows.files[i]] = Locked(workflows.files[i])
    BY <1>2 DEF Same, Shown, Filed, Items
  <2>2. /\ \A i \in PageId : promised'.pages[i] = Reloaded(pages, pages', i, pages.files[i])
        /\ \A i \in WorkflowId : promised'.workflows[i] =
             Reloaded(workflows, workflows', i, Locked(workflows.files[i]))
    BY DEF Restart
  <2> QED
    BY <2>1, <2>2
<1>9. /\ \A i \in PageId : i < Whole(pages)
      /\ \A i \in WorkflowId : i < Whole(workflows)
  BY <1>1, WholeAfterAll
<1> HIDE DEF loadedP, loadedW, idP, idW
<1>10. Backed(pages', Same, promised'.pages)
  BY <1>2, <1>3, <1>5, <1>6, <1>8, <1>9, RestoredBacked
<1>11. Backed(workflows', Shown, promised'.workflows)
  BY <1>2, <1>3, <1>5, <1>7, <1>8, <1>9, RestoredBacked
<1>12. PageId \in SUBSET Int /\ WorkflowId \in SUBSET Int
  BY DEF PageId, WorkflowId
<1>13. Fresh(pages', issued'.pages)
  <2>1. Fresh(pages, issued.pages)
    BY DEF StoreInv
  <2> QED
    BY <1>2, <1>3, <1>6, <1>12, <2>1, RestoredFresh
<1>14. Fresh(workflows', issued'.workflows)
  <2>1. Fresh(workflows, issued.workflows)
    BY DEF StoreInv
  <2> QED
    BY <1>2, <1>3, <1>7, <1>12, <2>1, RestoredFresh
<1>15. SwitchesKept'
  <2>1. ASSUME NEW i \in PageId, Buried(i)
        PROVE  Buried(i)'
    <3>1. i <= issued.pages /\ pages.files[i] = None
      BY <2>1 DEF Buried
    <3>2. loadedP[i] = None
      BY <1>6, <3>1 DEF Reads, Readable
    <3>3. i # idP /\ i <= issued'.pages
      BY <1>3, <1>12, <3>1 DEF idP
    <3>4. pages'.memory[i] = None /\ pages'.files[i] = None
      BY <1>3, <3>1, <3>2, <3>3 DEF Restored
    <3> QED
      BY <3>3, <3>4 DEF Buried
  <2>2. switches'.memory = switches.file /\ switches'.file = switches.file /\ told' = told
    BY <1>1 DEF Restart, loadSwitches, load, TypeOK, Single
  <2>3. SwitchesKept
    BY DEF StoreInv
  <2> QED
    BY <2>1, <2>2, <2>3 DEF SwitchesKept
<1>16. TagsWritten'
  <2>1. /\ definitions'.memory = definitions.file /\ definitions'.file = definitions.file
        /\ mappings'.memory = mappings.file /\ mappings'.file = mappings.file
    BY <1>1 DEF Restart, load, TypeOK, Single
  <2> QED
    BY <2>1 DEF StoreInv, TagsWritten
<1>17. ArmedOnRequest'
  <2>1. \A i \in WorkflowId : loadedW[i] # None => loadedW[i].mode # "LIVE_ARMED"
    BY <1>1, LoadedWorkflowsType DEF loadedW
  <2>2. \A i \in WorkflowId : workflows'.memory[i] # None => workflows'.memory[i].mode # "LIVE_ARMED"
    BY <1>3, <1>4, <2>1 DEF Restored
  <2>3. DOMAIN workflows'.memory = WorkflowId
    BY <1>2 DEF Filed, Items
  <2> QED
    BY <2>2, <2>3 DEF ArmedOnRequest, Listed
<1>18. ActiveArmed'
  <2>1. /\ \E i \in WorkflowId : workflows'.memory[i] # None
        /\ workflows'.memory \in Items(WorkflowId, WorkflowDefinition)
        /\ DOMAIN workflows'.memory = WorkflowId
    BY <1>1, <1>2, RestartStores DEF Filed, Items
  <2>2. active' = Oldest(workflows'.memory)
    BY DEF Restart
  <2>3. /\ active'.id \in WorkflowId /\ workflows'.memory[active'.id] # None
        /\ active'.mode = workflows'.memory[active'.id].mode
    BY <2>1, <2>2, OldestType
  <2> QED
    BY <1>17, <2>1, <2>3 DEF ArmedOnRequest, ActiveArmed, Listed
<1> QED
  BY <1>10, <1>11, <1>13, <1>14, <1>15, <1>16, <1>17, <1>18 DEF StoreInv, Same, Shown

-----------------------------------------------------------------------------
LEMMA NewPageKeeps ==
  ASSUME StoreInv, NEW page \in OverviewPageDefinition, NEW k \in Nat, NewPage(page, k), TypeOK'
  PROVE  StoreInv'
<1> DEFINE id == issued.pages + 1
<1>1. issued \in [pages : 0..MaxPages, workflows : 0..MaxWorkflows, tags : Nat]
  BY DEF StoreInv, TypeOK
<1>2. /\ StorePage(id, page, k) /\ id \in PageId
      /\ issued' = [issued EXCEPT !.pages = id]
  BY <1>1, StoreAssumption DEF NewPage, PageId
<1> HIDE DEF id
<1>3. issued'.pages = id /\ issued'.workflows = issued.workflows
  BY <1>1, <1>2
<1> QED
  BY <1>2, <1>3, StorePageKeeps DEF id

LEMMA NewWorkflowKeeps ==
  ASSUME StoreInv, NEW workflow \in WorkflowDefinition, NEW k \in Nat,
         NewWorkflow(workflow, k), workflow.mode = "DESIGN", TypeOK'
  PROVE  StoreInv'
<1> DEFINE id == issued.workflows + 1
<1>1. issued \in [pages : 0..MaxPages, workflows : 0..MaxWorkflows, tags : Nat]
  BY DEF StoreInv, TypeOK
<1>2. /\ SaveWorkflow(id, workflow, k, k = 2) /\ id \in WorkflowId
      /\ issued' = [issued EXCEPT !.workflows = id]
      /\ armed' = armed /\ active' = active
  BY <1>1, StoreAssumption DEF NewWorkflow, StoreWorkflow, WorkflowId
<1> DEFINE acknowledged == k = 2
<1>3. acknowledged \in BOOLEAN /\ (acknowledged => k >= 2)
      /\ SaveWorkflow(id, workflow, k, acknowledged)
  BY <1>2
<1>4. ActiveArmed'
  BY <1>2 DEF ActiveArmed, StoreInv
<1> HIDE DEF id, acknowledged
<1>5. issued'.workflows = id /\ issued'.pages = issued.pages
  BY <1>1, <1>2
<1> QED
  BY <1>2, <1>3, <1>4, <1>5, SaveWorkflowKeeps DEF id

LEMMA NextKeeps == ASSUME StoreInv, [Next]_vars PROVE StoreInv'
<1>1. TypeOK /\ TypeOK'
  BY NextType DEF StoreInv
<1>2. CASE PageSteps
  <2>1. ASSUME NEW id \in PageId, NEW page \in OverviewPageDefinition, NEW k \in Nat,
               id \in Listed(pages), StorePage(id, page, k), UNCHANGED issued
        PROVE  StoreInv'
    BY <1>1, <2>1, StorePageKeeps
  <2> QED
    BY <1>1, <1>2, <2>1, PageCases, NewPageKeeps, DeletePageKeeps, PatchSwitchKeeps
<1>3. CASE WorkflowSteps
  <2>1. ASSUME NEW id \in WorkflowId, NEW workflow \in WorkflowDefinition \cup {None},
               NEW k \in Nat, NEW acknowledged \in BOOLEAN,
               Changes(id, workflow, k, acknowledged)
        PROVE  StoreInv'
    BY <1>1, <2>1, SaveWorkflowKeeps DEF Changes
  <2>2. ASSUME NEW id \in WorkflowId, Activate(id)
        PROVE  StoreInv'
    <3>1. /\ UNCHANGED <<pages, workflows, switches, definitions, mappings, issued, promised, told, armed>>
          /\ active'.id = id /\ active'.mode = workflows.memory[id].mode
          /\ id \in Listed(workflows)
      BY <2>2 DEF Activate
    <3>2. ActiveArmed'
      BY <3>1 DEF ActiveArmed, ArmedOnRequest, StoreInv
    <3> QED
      BY <1>1, <3>1, <3>2
      DEF StoreInv, Backed, Same, Shown, Fresh, SwitchesKept, Buried, TagsWritten, ArmedOnRequest,
          Listed
  <2>3. ArmedOnRequest /\ ActiveArmed
    BY DEF StoreInv
  <2> QED
    BY <1>1, <1>3, <2>1, <2>2, <2>3, WorkflowCases, NewWorkflowKeeps
<1>4. CASE DefinitionSteps \/ MappingSteps
  BY <1>1, <1>4, TagStepsKeep
<1>5. CASE Restarts
  BY <1>1, <1>5, RestartKeeps DEF Restarts
<1>6. CASE UNCHANGED vars
  BY <1>1, <1>6
  DEF StoreInv, Backed, Same, Shown, Fresh, SwitchesKept, Buried, TagsWritten, ArmedOnRequest,
      ActiveArmed, Listed, vars
<1> QED
  BY <1>2, <1>3, <1>4, <1>5, <1>6 DEF Next, Requests

(* The inductive invariant: every file an index names, or comes to name     *)
(* with the next write of the index, is one a request was promised, and a   *)
(* page whose switch values are not those told is one that never comes back *)
(* (overviewPages.ts, workflowManager.ts, overviewControlStates.ts).        *)
THEOREM StoreInvariant == Spec => []StoreInv
<1>1. Init => StoreInv
  BY InitStoreInv
<1>2. StoreInv /\ [Next]_vars => StoreInv'
  BY NextKeeps
<1> QED
  BY <1>1, <1>2, PTL DEF Spec

LEMMA InvDurable == ASSUME StoreInv PROVE Durable
<1>1. TypeOK
  BY DEF StoreInv
<1>2. /\ DOMAIN pages.files = PageId /\ DOMAIN workflows.files = WorkflowId
      /\ \A i \in PageId : pages.files[i] \in OverviewPageDefinition \cup {None}
      /\ \A i \in WorkflowId : workflows.files[i] \in WorkflowDefinition \cup {None}
  BY <1>1 DEF TypeOK, Filed, Items
<1>3. ASSUME NEW i \in PageId
      PROVE  Loaded(pages, Whole(pages))[i] \in promised.pages[i]
  <2>1. Loaded(pages, Whole(pages))[i] =
          IF i \in pages.index /\ pages.files[i] # None THEN Same[pages.files[i]] ELSE None
    BY <1>1, <1>2, WholeAfterAll DEF Loaded, Readable, Same
  <2> QED
    BY <1>2, <2>1 DEF StoreInv, Backed
<1>4. ASSUME NEW i \in WorkflowId
      PROVE  LoadedWorkflows(Whole(workflows))[i] \in promised.workflows[i]
  <2>1. Locked(None) = None
    BY DEF Locked
  <2>2. LoadedWorkflows(Whole(workflows))[i] =
          IF i \in workflows.index /\ workflows.files[i] # None
            THEN Shown[workflows.files[i]] ELSE None
    BY <1>1, <1>2, <2>1, WholeAfterAll DEF LoadedWorkflows, Loaded, Readable, Shown
  <2> QED
    BY <1>2, <2>2 DEF StoreInv, Backed
<1>5. ASSUME NEW i \in Readable(pages, Whole(pages)), NEW element \in Switch
      PROVE  switches.file[<<i, element>>] = told[<<i, element>>]
  <2>1. i \in PageId /\ pages.files[i] # None
    BY <1>1 DEF Readable, TypeOK, Filed
  <2> QED
    BY <2>1 DEF StoreInv, SwitchesKept, Buried
<1> QED
  BY <1>3, <1>4, <1>5 DEF Durable

(* Whichever renames, unlinks and index writes fail, and however often the  *)
(* server restarts: what a client was told is stored is what the next start *)
(* finds, a change that failed is found whole or not at all, a deleted item *)
(* does not come back, and switch values come back with their pages         *)
(* (overviewPages.ts 261-309, workflowManager.ts 159-227,                   *)
(* overviewControlStates.ts 90-119).                                        *)
THEOREM AcknowledgedIsDurable == Spec => []Durable
<1>1. StoreInv => Durable
  BY InvDurable
<1> QED
  BY <1>1, StoreInvariant, PTL

(* What can be read of definitions and mappings is what is on disk, and the *)
(* server can start with that file, also after writes that failed; of the   *)
(* switches of a page, a read answers the value last acknowledged, and what *)
(* it would answer after a restart if the last write of the page was        *)
(* acknowledged, the values that older elements hold included               *)
(* (definitionCatalog.ts 92-99, acquisitionConfig.ts 59-68 and 98-104,      *)
(* overviewControlStates.ts 90-106, overviewControlRoutes.ts 8-25).         *)
THEOREM ReadIsOnDisk == Spec => []ReadsSurvive
<1>1. StoreInv => ReadsSurvive
  <2> SUFFICES ASSUME StoreInv PROVE ReadsSurvive
    OBVIOUS
  <2> DEFINE answer(i) == effective(i, pages.memory[i], switches.memory)
  <2>1. ASSUME NEW i \in Listed(pages)
        PROVE  /\ \A element \in DOMAIN answer(i) :
                    told[<<i, element>>] # None => answer(i)[element] = told[<<i, element>>]
               /\ promised.pages[i] = {pages.memory[i]} =>
                    /\ i \in Readable(pages, Whole(pages))
                    /\ answer(i) = effective(i, pages.files[i], switches.file)
    <3>1. /\ i \in PageId /\ pages.memory[i] # None
          /\ pages.memory[i] \in OverviewPageDefinition
          /\ DOMAIN pages.files = PageId
          /\ pages.files[i] \in OverviewPageDefinition \cup {None}
      BY DEF Listed, StoreInv, TypeOK, Filed, Items
    <3>2. DOMAIN pages.memory[i].elements \subseteq Switch
      BY <3>1, SeedsType DEF OverviewPageDefinition
    <3>3. \A element \in Switch :
            /\ switches.memory[<<i, element>>] = told[<<i, element>>]
            /\ switches.file[<<i, element>>] = told[<<i, element>>]
      BY <3>1 DEF StoreInv, SwitchesKept, Buried
    <3>4. DOMAIN answer(i) = DOMAIN pages.memory[i].elements
      BY DEF effective
    <3>5. ASSUME NEW element \in DOMAIN answer(i), told[<<i, element>>] # None
          PROVE  answer(i)[element] = told[<<i, element>>]
      BY <3>2, <3>3, <3>4, <3>5 DEF effective
    <3>6. ASSUME promised.pages[i] = {pages.memory[i]}
          PROVE  /\ i \in Readable(pages, Whole(pages))
                 /\ answer(i) = effective(i, pages.files[i], switches.file)
      <4>1. None \notin promised.pages[i]
        BY <3>1, <3>6
      <4>2. i \in pages.index /\ pages.files[i] # None /\ Same[pages.files[i]] = pages.memory[i]
        BY <3>1, <3>6, <4>1 DEF StoreInv, Backed
      <4>3. pages.files[i] = pages.memory[i]
        BY <3>1, <4>2 DEF Same
      <4>4. i \in Readable(pages, Whole(pages))
        BY <3>1, <4>2, WholeAfterAll DEF Readable, StoreInv
      <4>5. \A element \in DOMAIN pages.memory[i].elements :
              switches.memory[<<i, element>>] = switches.file[<<i, element>>]
        BY <3>2, <3>3
      <4> QED
        BY <4>3, <4>4, <4>5 DEF effective
    <3> QED
      BY <3>5, <3>6
  <2> QED
    BY <2>1 DEF ReadsSurvive, StoreInv, TagsWritten
<1> QED
  BY <1>1, StoreInvariant, PTL

(* No restart, migration of workflow.json, failed write, copy, change of    *)
(* the active workflow or save of its copy arms a workflow: a request named *)
(* that mode for it since the server started, and no change of its mode was *)
(* acknowledged since (workflowManager.ts 104-178, 191-203; index.ts 17,    *)
(* 28-29, 61-68, 87).                                                       *)
THEOREM OnlyRequestsArm == Spec => []ArmedOnRequest
<1>1. StoreInv => ArmedOnRequest
  BY DEF StoreInv
<1> QED
  BY <1>1, StoreInvariant, PTL

-----------------------------------------------------------------------------
(***************************************************************************)
(* WorkflowEditor                                                          *)
(***************************************************************************)

(* What the variables are made of, as far as the order of saves needs it.   *)
EditorShape ==
  /\ DOMAIN ed = {"active", "raw", "canvas", "rev", "known", "mode", "label", "pending",
                  "chains", "undo", "redo", "leaving", "shows", "lost"}
  /\ ed.active \in Workflow /\ (ed.leaving # Nil => ed.leaving.to \in Workflow)
  /\ DOMAIN ed.chains = Workflow /\ DOMAIN ed.known = Workflow
  /\ DOMAIN made = {"turn", "taken", "block"} /\ made.turn \in Nat
  /\ used \in [DOMAIN Bounds \cup {"all"} -> Nat]
ServerShape ==
  /\ DOMAIN server = Workflow /\ news \in Seq(Range(news))
  /\ \A w \in Workflow :
       /\ DOMAIN server[w] = {"doc", "rev", "mode", "turn", "taken"}
       /\ server[w].rev \in Nat /\ server[w].turn \in 0 .. made.turn
WellFormed(r) ==
  /\ DOMAIN r = {"op", "workflow", "rev", "doc", "mode", "turn", "taken", "at",
                 "waiting", "answer"}
  /\ r.op \in {"put", "get", "load", "activate", "mode"} /\ r.workflow \in Workflow
  /\ r.waiting \in BOOLEAN /\ r.turn \in 0 .. made.turn
RequestShape == \A r \in net : WellFormed(r)

(* The saves of a workflow wait in the order of their turns, and no two     *)
(* saves have one turn.                                                     *)
Turns(chain) == {chain[i].turn : i \in DOMAIN chain}
Ordered(chain, last) ==
  /\ chain \in Seq(Range(chain))
  /\ \A i \in DOMAIN chain :
       /\ DOMAIN chain[i] = {"turn", "taken", "of", "doc", "mode", "edge", "step"}
       /\ chain[i].turn \in 1 .. last
  /\ \A i, j \in DOMAIN chain : i < j => chain[i].turn < chain[j].turn
ChainsOrdered == \A w \in Workflow : Ordered(ed.chains[w], made.turn)
ChainsApart ==
  \A v, w \in Workflow : v # w => Turns(ed.chains[v]) \cap Turns(ed.chains[w]) = {}

IsSave(r) == r.op \in {"put", "get"}

(* A request that is waited for is the one request of the first save of its *)
(* chain; one that nobody waits for is of a save that has left it.          *)
HeadsOnly ==
  /\ \A r \in net : IsSave(r) /\ r.waiting =>
       LET chain == ed.chains[r.workflow]
       IN chain # <<>> /\ chain[1].turn = r.turn /\ chain[1].step # "queued"
  /\ \A q, r \in net : IsSave(q) /\ q.waiting /\ IsSave(r) /\ r.waiting
         /\ q.workflow = r.workflow => q = r
AbandonedGone ==
  \A r \in net : IsSave(r) /\ ~r.waiting =>
    \A w \in Workflow : r.turn \notin Turns(ed.chains[w])

(* What was sent, and what was stored, was queued before what still waits.  *)
SentFirst ==
  \A w \in Workflow : \A t \in Turns(ed.chains[w]) :
    /\ server[w].turn <= t
    /\ \A r \in net : IsSave(r) /\ r.workflow = w => r.turn <= t

(* As long as no other workflow was opened: no revision is ahead of the     *)
(* server's, and a save that names the server's revision is not older than  *)
(* what the server has.                                                     *)
AtHome ==
  used.switch = 0 =>
    /\ ed.active = First /\ ed.leaving = Nil
    /\ \A w \in Workflow : w # First => ed.chains[w] = <<>>
    /\ \A r \in net : r.workflow = First
Timely(r) ==
  /\ r.op \in {"put", "activate"} => r.rev \in 0 .. server[First].rev
  /\ r.op \in {"put", "get", "load"} /\ r.answer # Nil =>
       r.answer.rev \in 0 .. server[First].rev
  /\ r.op = "put" /\ r.answer = Nil /\ r.rev = server[First].rev =>
       server[First].turn <= r.turn
NotAhead(m) ==
  m.type = "workflow" /\ m.workflow = First => m.rev \in 0 .. server[First].rev
RevisionsBehind ==
  used.switch = 0 =>
    /\ ed.known[First] \in 0 .. server[First].rev
    /\ \A m \in Range(news) : NotAhead(m)
    /\ \A r \in net : Timely(r)

Shapes == EditorShape /\ ServerShape /\ RequestShape
Chains == ChainsOrdered /\ ChainsApart /\ HeadsOnly /\ AbandonedGone /\ SentFirst
AutosaveInv == Shapes /\ Chains /\ AtHome /\ RevisionsBehind

-----------------------------------------------------------------------------
(* Sequences of whatever they hold.                                         *)

LEMMA OwnRange ==
  ASSUME NEW S, NEW c \in Seq(S)
  PROVE  c \in Seq(Range(c)) /\ Range(c) \subseteq S
<1>1. c \in [1 .. Len(c) -> S] /\ Len(c) \in Nat
  BY LenProperties
<1>2. c \in [1 .. Len(c) -> Range(c)]
  BY <1>1 DEF Range
<1> QED
  BY <1>1, <1>2, SeqDef DEF Range

LEMMA SameLength ==
  ASSUME NEW c, c \in Seq(Range(c)), NEW d, DOMAIN d = DOMAIN c, d = [i \in DOMAIN c |-> d[i]]
  PROVE  d \in Seq(Range(d)) /\ Len(d) = Len(c)
<1>1. Len(c) \in Nat /\ DOMAIN c = 1 .. Len(c)
  BY LenProperties
<1>2. d \in [1 .. Len(c) -> Range(d)]
  BY <1>1 DEF Range
<1>3. d \in Seq(Range(d))
  BY <1>1, <1>2, SeqDef
<1> QED
  BY <1>1, <1>2, <1>3, LenProperties

LEMMA Lengthened ==
  ASSUME NEW c, c \in Seq(Range(c)), NEW s
  PROVE  /\ Append(c, s) \in Seq(Range(Append(c, s)))
         /\ DOMAIN c = 1 .. Len(c) /\ DOMAIN Append(c, s) = 1 .. Len(c) + 1 /\ Len(c) \in Nat
         /\ \A i \in 1 .. Len(c) : Append(c, s)[i] = c[i]
         /\ Append(c, s)[Len(c) + 1] = s
<1> DEFINE S == Range(c) \cup {s}
<1>1. c \in Seq(S)
  <2>1. c \in [1 .. Len(c) -> Range(c)] /\ Len(c) \in Nat
    BY LenProperties
  <2> QED
    BY <2>1, SeqDef
<1>2. Append(c, s) \in Seq(S)
  BY <1>1, AppendProperties
<1>3. Append(c, s) \in Seq(Range(Append(c, s)))
  BY <1>2, OwnRange
<1> QED
  BY <1>1, <1>2, <1>3, AppendProperties, LenProperties

LEMMA Beheaded ==
  ASSUME NEW c, c \in Seq(Range(c)), c # <<>>
  PROVE  /\ RemoveAt(c, 1) \in Seq(Range(RemoveAt(c, 1)))
         /\ DOMAIN c = 1 .. Len(c) /\ DOMAIN RemoveAt(c, 1) = 1 .. Len(c) - 1
         /\ Len(c) \in Nat \ {0}
         /\ \A i \in 1 .. Len(c) - 1 : RemoveAt(c, 1)[i] = c[i + 1]
<1> DEFINE S == Range(c)
           d == SubSeq(c, 2, Len(c))
<1>1. Len(c) \in Nat \ {0} /\ DOMAIN c = 1 .. Len(c)
  BY EmptySeq, LenProperties
<1>2. SubSeq(c, 1, 0) = <<>>
  BY <1>1, SubSeqEmpty
<1>3. /\ d \in Seq(S) /\ Len(d) = Len(c) - 1
      /\ \A i \in 1 .. Len(c) - 1 : d[i] = c[i + 1]
  <2>1. \A i \in 2 .. Len(c) : c[i] \in S
    BY <1>1 DEF Range
  <2>2. /\ d \in Seq(S) /\ Len(d) = IF 2 <= Len(c) THEN Len(c) - 2 + 1 ELSE 0
        /\ \A i \in 1 .. Len(c) - 2 + 1 : d[i] = c[2 + i - 1]
    BY <1>1, SubSeqProperties
  <2> QED
    BY <1>1, <2>2
<1>4. RemoveAt(c, 1) = <<>> \o d
  BY <1>1, <1>2 DEF RemoveAt
<1>5. RemoveAt(c, 1) = d
  BY <1>3, <1>4, ConcatEmptySeq
<1>6. d \in Seq(Range(d)) /\ DOMAIN d = 1 .. Len(d)
  BY <1>3, OwnRange, LenProperties
<1> QED
  BY <1>1, <1>3, <1>5, <1>6

(* A broadcast is sent, and one is heard.                                   *)
LEMMA NewsSent ==
  ASSUME Shapes, NEW m, news' = Append(news, m)
  PROVE  news' \in Seq(Range(news')) /\ \A x \in Range(news') : x \in Range(news) \/ x = m
<1>1. news \in Seq(Range(news))
  BY DEF Shapes, ServerShape
<1>2. /\ news' \in Seq(Range(news'))
      /\ DOMAIN news = 1 .. Len(news) /\ DOMAIN news' = 1 .. Len(news) + 1 /\ Len(news) \in Nat
      /\ \A i \in 1 .. Len(news) : news'[i] = news[i]
      /\ news'[Len(news) + 1] = m
  BY <1>1, Lengthened
<1>3. \A i \in 1 .. Len(news) + 1 : i \in 1 .. Len(news) \/ i = Len(news) + 1
  BY <1>2
<1> QED
  BY <1>2, <1>3 DEF Range

LEMMA NoNews == <<>> \in Seq(Range(<<>>)) /\ Range(<<>>) = {}
BY EmptySeq DEF Range

LEMMA NewsHeard ==
  ASSUME Shapes, news # <<>>, news' = Tail(news)
  PROVE  /\ Head(news) \in Range(news)
         /\ news' \in Seq(Range(news')) /\ Range(news') \subseteq Range(news)
<1> DEFINE S == Range(news)
<1>1. news \in Seq(S)
  BY DEF Shapes, ServerShape
<1> HIDE DEF S
<1>2. Head(news) \in S /\ Tail(news) \in Seq(S)
  BY <1>1, HeadTailProperties
<1>3. news' \in Seq(Range(news')) /\ Range(news') \subseteq S
  BY <1>2, OwnRange
<1> QED
  BY <1>2, <1>3 DEF S

-----------------------------------------------------------------------------
(* What a call of persist, the end of a save and its next request do to a   *)
(* chain.                                                                   *)

LEMMA OrderedNumbers ==
  ASSUME NEW c, NEW n \in Nat, Ordered(c, n)
  PROVE  /\ Len(c) \in Nat /\ DOMAIN c = 1 .. Len(c)
         /\ Turns(c) \subseteq 1 .. n
         /\ c # <<>> => /\ 1 \in DOMAIN c /\ c[1].turn \in Turns(c)
                        /\ \A t \in Turns(c) : c[1].turn <= t
<1>1. Len(c) \in Nat /\ DOMAIN c = 1 .. Len(c)
  BY LenProperties DEF Ordered
<1>2. Turns(c) \subseteq 1 .. n
  BY DEF Ordered, Turns
<1>3. ASSUME c # <<>>
      PROVE  /\ 1 \in DOMAIN c /\ c[1].turn \in Turns(c)
             /\ \A t \in Turns(c) : c[1].turn <= t
  <2>1. 1 \in DOMAIN c
    BY <1>1, <1>3, EmptySeq DEF Ordered
  <2>2. c[1].turn \in Turns(c)
    BY <2>1 DEF Turns
  <2>3. ASSUME NEW i \in DOMAIN c
        PROVE  c[1].turn <= c[i].turn
    <3>1. i = 1 \/ 1 < i
      BY <1>1
    <3>2. c[1].turn \in 1 .. n /\ c[i].turn \in 1 .. n
      BY <2>1 DEF Ordered
    <3>3. 1 < i => c[1].turn < c[i].turn
      BY <2>1 DEF Ordered
    <3> QED
      BY <3>1, <3>2, <3>3
  <2> QED
    BY <2>1, <2>2, <2>3 DEF Turns
<1> QED
  BY <1>1, <1>2, <1>3

LEMMA OrderedLonger ==
  ASSUME NEW c, NEW n \in Nat, Ordered(c, n)
  PROVE  Ordered(c, n + 1)
BY DEF Ordered

LEMMA OrderedAppend ==
  ASSUME NEW c, NEW n \in Nat, Ordered(c, n), NEW s, s.turn = n + 1,
         DOMAIN s = {"turn", "taken", "of", "doc", "mode", "edge", "step"}
  PROVE  /\ Ordered(Append(c, s), n + 1)
         /\ Turns(Append(c, s)) = Turns(c) \cup {n + 1}
         /\ c # <<>> => Append(c, s) # <<>> /\ Append(c, s)[1] = c[1]
<1> DEFINE d == Append(c, s)
<1>0. c \in Seq(Range(c))
  BY DEF Ordered
<1>1. /\ d \in Seq(Range(d)) /\ Len(c) \in Nat
      /\ DOMAIN c = 1 .. Len(c) /\ DOMAIN d = 1 .. Len(c) + 1
      /\ \A i \in 1 .. Len(c) : d[i] = c[i]
      /\ d[Len(c) + 1] = s
  BY <1>0, Lengthened
<1> HIDE DEF d
<1>2. ASSUME NEW i \in DOMAIN d
      PROVE  \/ i \in DOMAIN c /\ d[i] = c[i]
             \/ i = Len(c) + 1 /\ d[i] = s
  <2>1. i \in 1 .. Len(c) \/ i = Len(c) + 1
    BY <1>1
  <2> QED
    BY <1>1, <2>1
<1>3. \A i \in DOMAIN c : c[i].turn \in 1 .. n
  BY DEF Ordered
<1>4. ASSUME NEW i \in DOMAIN d
      PROVE  /\ DOMAIN d[i] = {"turn", "taken", "of", "doc", "mode", "edge", "step"}
             /\ d[i].turn \in 1 .. n + 1
  <2>1. CASE i \in DOMAIN c /\ d[i] = c[i]
    BY <2>1 DEF Ordered
  <2>2. CASE i = Len(c) + 1 /\ d[i] = s
    BY <2>2
  <2> QED
    BY <1>2, <2>1, <2>2
<1>5. ASSUME NEW i \in DOMAIN d, NEW j \in DOMAIN d, i < j
      PROVE  d[i].turn < d[j].turn
  <2>1. i \in DOMAIN c /\ d[i] = c[i]
    BY <1>1, <1>2, <1>5
  <2>2. CASE j \in DOMAIN c /\ d[j] = c[j]
    BY <2>1, <2>2, <1>5 DEF Ordered
  <2>3. CASE j = Len(c) + 1 /\ d[j] = s
    BY <2>1, <2>3, <1>3
  <2> QED
    BY <1>2, <2>2, <2>3
<1>6. Turns(d) = Turns(c) \cup {n + 1}
  <2>1. ASSUME NEW i \in DOMAIN d PROVE d[i].turn \in Turns(c) \cup {n + 1}
    BY <1>2 DEF Turns
  <2>2. ASSUME NEW i \in DOMAIN c PROVE c[i].turn \in Turns(d)
    <3>1. i \in DOMAIN d /\ d[i] = c[i]
      BY <1>1
    <3> QED
      BY <3>1 DEF Turns
  <2>3. n + 1 \in Turns(d)
    <3>1. Len(c) + 1 \in DOMAIN d
      BY <1>1
    <3> QED
      BY <1>1, <3>1 DEF Turns
  <2> QED
    BY <2>1, <2>2, <2>3 DEF Turns
<1>7. d # <<>> /\ (c # <<>> => d[1] = c[1])
  <2>1. 1 \in DOMAIN d
    BY <1>1
  <2>2. c # <<>> => 1 \in DOMAIN c
    BY OrderedNumbers
  <2> QED
    BY <1>1, <2>1, <2>2
<1>8. Ordered(d, n + 1)
  BY <1>1, <1>4, <1>5 DEF Ordered
<1> QED
  BY <1>6, <1>7, <1>8 DEF d

LEMMA OrderedBehead ==
  ASSUME NEW c, NEW n \in Nat, Ordered(c, n), c # <<>>
  PROVE  /\ Ordered(RemoveAt(c, 1), n)
         /\ Turns(RemoveAt(c, 1)) = Turns(c) \ {c[1].turn}
<1> DEFINE d == RemoveAt(c, 1)
<1>0. c \in Seq(Range(c))
  BY DEF Ordered
<1>1. /\ d \in Seq(Range(d)) /\ Len(c) \in Nat \ {0}
      /\ DOMAIN c = 1 .. Len(c) /\ DOMAIN d = 1 .. Len(c) - 1
      /\ \A i \in 1 .. Len(c) - 1 : d[i] = c[i + 1]
  BY <1>0, Beheaded
<1> HIDE DEF d
<1>2. ASSUME NEW i \in DOMAIN d
      PROVE  i \in Int /\ i + 1 \in DOMAIN c /\ d[i] = c[i + 1]
  BY <1>1
<1>3. ASSUME NEW i \in DOMAIN d
      PROVE  /\ DOMAIN d[i] = {"turn", "taken", "of", "doc", "mode", "edge", "step"}
             /\ d[i].turn \in 1 .. n
  BY <1>2 DEF Ordered
<1>4. ASSUME NEW i \in DOMAIN d, NEW j \in DOMAIN d, i < j
      PROVE  d[i].turn < d[j].turn
  <2>1. i + 1 < j + 1 /\ i + 1 \in DOMAIN c /\ j + 1 \in DOMAIN c
    BY <1>2, <1>4
  <2>2. c[i + 1].turn < c[j + 1].turn
    BY <2>1 DEF Ordered
  <2> QED
    BY <1>2, <2>2
<1>5. Turns(d) = Turns(c) \ {c[1].turn}
  <2>1. ASSUME NEW i \in DOMAIN d PROVE d[i].turn \in Turns(c) \ {c[1].turn}
    <3>1. 1 \in DOMAIN c /\ 1 < i + 1
      BY <1>1
    <3>2. c[1].turn < c[i + 1].turn /\ c[1].turn \in Int /\ c[i + 1].turn \in Int
      BY <1>2, <3>1 DEF Ordered
    <3> QED
      BY <1>2, <3>2 DEF Turns
  <2>2. ASSUME NEW i \in DOMAIN c, c[i].turn # c[1].turn PROVE c[i].turn \in Turns(d)
    <3>1. i - 1 \in DOMAIN d /\ d[i - 1] = c[i]
      BY <1>1, <2>2
    <3> QED
      BY <3>1 DEF Turns
  <2> QED
    BY <2>1, <2>2 DEF Turns
<1>6. Ordered(d, n)
  BY <1>1, <1>3, <1>4 DEF Ordered
<1> QED
  BY <1>5, <1>6 DEF d

FirstAt(chain, step) == [chain EXCEPT ![1].step = step]

LEMMA OrderedStep ==
  ASSUME NEW c, NEW n \in Nat, Ordered(c, n), c # <<>>, NEW x,
         NEW d, d = FirstAt(c, x)
  PROVE  /\ Ordered(d, n) /\ Turns(d) = Turns(c)
         /\ d # <<>> /\ d[1].turn = c[1].turn /\ d[1].step = x
<1>1. 1 \in DOMAIN c
  BY OrderedNumbers
<1>2. DOMAIN d = DOMAIN c /\ d = [i \in DOMAIN c |-> d[i]]
  BY DEF FirstAt
<1>3. /\ d[1] = [c[1] EXCEPT !.step = x]
      /\ \A i \in DOMAIN c : i # 1 => d[i] = c[i]
  BY <1>1 DEF FirstAt
<1>4. DOMAIN c[1] = {"turn", "taken", "of", "doc", "mode", "edge", "step"}
  BY <1>1 DEF Ordered
<1>5. DOMAIN d[1] = DOMAIN c[1] /\ d[1].turn = c[1].turn /\ d[1].step = x
  BY <1>3, <1>4
<1>6. c \in Seq(Range(c))
  BY DEF Ordered
<1>7. d \in Seq(Range(d))
  BY <1>2, <1>6, SameLength
<1>8. \A i \in DOMAIN c : DOMAIN d[i] = DOMAIN c[i] /\ d[i].turn = c[i].turn
  BY <1>3, <1>5
<1>9. Ordered(d, n)
  BY <1>2, <1>7, <1>8 DEF Ordered
<1>10. Turns(d) = Turns(c)
  BY <1>2, <1>8 DEF Turns
<1>11. d # <<>>
  BY <1>1, <1>2
<1> QED
  BY <1>5, <1>9, <1>10, <1>11

-----------------------------------------------------------------------------
(* A step keeps the order of the chains: by kinds of steps.                 *)

LEMMA TurnsKnown ==
  ASSUME Shapes, Chains
  PROVE  /\ made.turn \in Nat
         /\ \A w \in Workflow :
              /\ server[w].turn \in 0 .. made.turn
              /\ Turns(ed.chains[w]) \subseteq 1 .. made.turn
         /\ \A r \in net : r.workflow \in Workflow /\ r.turn \in 0 .. made.turn
                           /\ r.waiting \in BOOLEAN
BY OrderedNumbers DEF Shapes, Chains, EditorShape, ServerShape, RequestShape, WellFormed,
                     ChainsOrdered

LEMMA NextTurn ==
  ASSUME NEW n \in Nat, NEW T, T \subseteq 1 .. n
  PROVE  n + 1 \notin T
OBVIOUS

(* Neither the chains nor the turns at the server change, and no request of *)
(* a save is new.                                                           *)
LEMMA ChainsQuiet ==
  ASSUME Shapes, Chains, ed'.chains = ed.chains, made'.turn = made.turn,
         \A w \in Workflow : server'[w].turn = server[w].turn,
         \A r \in net' : IsSave(r) => r \in net
  PROVE  Chains'
<1>1. ChainsOrdered' /\ ChainsApart'
  BY DEF Chains, ChainsOrdered, ChainsApart
<1>2. HeadsOnly'
  BY DEF Chains, HeadsOnly
<1>3. AbandonedGone'
  BY DEF Chains, AbandonedGone
<1>4. SentFirst'
  BY DEF Chains, SentFirst
<1> QED
  BY <1>1, <1>2, <1>3, <1>4 DEF Chains

(* persist: the chain of the active workflow gets the next turn.            *)
LEMMA ChainsQueue ==
  ASSUME Shapes, Chains, NEW s, s.turn = made.turn + 1,
         DOMAIN s = {"turn", "taken", "of", "doc", "mode", "edge", "step"},
         ed'.chains = [ed.chains EXCEPT ![ed.active] = Append(@, s)],
         made'.turn = made.turn + 1, server' = server,
         \A r \in net' : IsSave(r) => r \in net
  PROVE  Chains'
<1> DEFINE n == made.turn
           old(w) == ed.chains[w]
           new(w) == ed'.chains[w]
<1>1. n \in Nat /\ ed.active \in Workflow /\ DOMAIN ed.chains = Workflow
  BY DEF Shapes, EditorShape
<1>2. ASSUME NEW w \in Workflow
      PROVE  /\ Ordered(new(w), n + 1)
             /\ Turns(new(w)) = IF w = ed.active THEN Turns(old(w)) \cup {n + 1} ELSE Turns(old(w))
             /\ old(w) # <<>> => new(w) # <<>> /\ new(w)[1] = old(w)[1]
  <2>1. Ordered(old(w), n)
    BY DEF Chains, ChainsOrdered
  <2>2. CASE w = ed.active
    <3>1. new(w) = Append(old(w), s)
      BY <1>1, <2>2
    <3> QED
      BY <1>1, <2>1, <2>2, <3>1, OrderedAppend
  <2>3. CASE w # ed.active
    <3>1. new(w) = old(w)
      BY <1>1, <2>3
    <3> QED
      BY <1>1, <2>1, <2>3, <3>1, OrderedLonger
  <2> QED
    BY <2>2, <2>3
<1>3. \A w \in Workflow : Turns(old(w)) \subseteq 1 .. n /\ server[w].turn \in 0 .. n
  BY TurnsKnown
<1>4. \A r \in net : r.workflow \in Workflow /\ r.turn \in 0 .. n
  BY TurnsKnown
<1>5. ChainsOrdered'
  BY <1>2 DEF ChainsOrdered
<1>6. ChainsApart'
  <2> SUFFICES ASSUME NEW v \in Workflow, NEW w \in Workflow, v # w
               PROVE  Turns(new(v)) \cap Turns(new(w)) = {}
    BY DEF ChainsApart
  <2>1. Turns(old(v)) \cap Turns(old(w)) = {}
    BY DEF Chains, ChainsApart
  <2>2. Turns(old(v)) \subseteq 1 .. n /\ Turns(old(w)) \subseteq 1 .. n
    BY <1>3
  <2> QED
    BY <1>1, <1>2, <2>1, <2>2, NextTurn
<1> HIDE DEF n
<1>7. HeadsOnly'
  BY <1>2, <1>4 DEF Chains, HeadsOnly
<1>8. AbandonedGone'
  <2> SUFFICES ASSUME NEW r \in net, IsSave(r), ~r.waiting, NEW w \in Workflow
               PROVE  r.turn \notin Turns(new(w))
    BY DEF AbandonedGone
  <2>1. r.turn \notin Turns(old(w))
    BY DEF Chains, AbandonedGone
  <2>2. r.turn # n + 1
    BY <1>1, <1>4
  <2> QED
    BY <1>2, <2>1, <2>2
<1>9. SentFirst'
  <2> SUFFICES ASSUME NEW w \in Workflow, NEW t \in Turns(new(w))
               PROVE  /\ server[w].turn <= t
                      /\ \A r \in net : IsSave(r) /\ r.workflow = w => r.turn <= t
    BY DEF SentFirst
  <2>1. CASE t \in Turns(old(w))
    BY <2>1 DEF Chains, SentFirst
  <2>2. CASE t = n + 1
    BY <1>1, <1>3, <1>4, <2>2
  <2> QED
    BY <1>2, <2>1, <2>2
<1> QED
  BY <1>5, <1>6, <1>7, <1>8, <1>9 DEF Chains

(* The first save of a chain goes on; its request, if it has one, is        *)
(* replaced by its next, and it has one from now on.                        *)
LEMMA ChainsStep ==
  ASSUME Shapes, Chains, NEW w \in Workflow, ed.chains[w] # <<>>,
         NEW x, x # "queued",
         ed'.chains = [ed.chains EXCEPT ![w][1].step = x],
         made'.turn = made.turn, server' = server,
         NEW q, IsSave(q), q.waiting, q.workflow = w, q.turn = ed.chains[w][1].turn,
         \A r \in net' : r = q \/ (r \in net /\ ~(IsSave(r) /\ r.waiting /\ r.workflow = w))
  PROVE  Chains'
<1> DEFINE n == made.turn
           old(v) == ed.chains[v]
           new(v) == ed'.chains[v]
<1>1. n \in Nat /\ DOMAIN ed.chains = Workflow
  BY DEF Shapes, EditorShape
<1>2. ASSUME NEW v \in Workflow
      PROVE  /\ Ordered(new(v), n) /\ Turns(new(v)) = Turns(old(v))
             /\ v # w => new(v) = old(v)
             /\ v = w => new(v) # <<>> /\ new(v)[1].turn = old(v)[1].turn /\ new(v)[1].step = x
  <2>1. Ordered(old(v), n)
    BY DEF Chains, ChainsOrdered
  <2>2. CASE v = w
    <3> DEFINE c == old(v)
               d == new(v)
    <3>1. d = FirstAt(c, x) /\ c # <<>> /\ Ordered(c, n)
      BY <1>1, <2>1, <2>2 DEF FirstAt
    <3> HIDE DEF c, d, n
    <3>2. /\ Ordered(d, n) /\ Turns(d) = Turns(c)
          /\ d # <<>> /\ d[1].turn = c[1].turn /\ d[1].step = x
      BY <1>1, <3>1, OrderedStep
    <3> QED
      BY <2>2, <3>2 DEF c, d
  <2>3. CASE v # w
    <3>1. new(v) = old(v)
      BY <1>1, <2>3
    <3> QED
      BY <2>1, <2>3, <3>1
  <2> QED
    BY <2>2, <2>3
<1>3. old(w)[1].turn \in Turns(old(w)) /\ \A t \in Turns(old(w)) : old(w)[1].turn <= t
  BY <1>1, OrderedNumbers DEF Chains, ChainsOrdered
<1>4. \A r \in net : r.workflow \in Workflow
  BY TurnsKnown
<1> HIDE DEF n
<1>5. ChainsOrdered' /\ ChainsApart'
  BY <1>2 DEF Chains, ChainsOrdered, ChainsApart, n
<1>6. HeadsOnly'
  <2>1. ASSUME NEW r \in net', IsSave(r), r.waiting
        PROVE  new(r.workflow) # <<>> /\ new(r.workflow)[1].turn = r.turn
               /\ new(r.workflow)[1].step # "queued"
    <3>1. CASE r = q
      BY <1>2, <3>1
    <3>2. CASE r # q
      <4>1. r \in net /\ r.workflow # w
        BY <2>1, <3>2
      <4> QED
        BY <1>2, <1>4, <2>1, <4>1 DEF Chains, HeadsOnly
    <3> QED
      BY <3>1, <3>2
  <2>2. ASSUME NEW p \in net', NEW r \in net', IsSave(p), p.waiting, IsSave(r), r.waiting,
               p.workflow = r.workflow
        PROVE  p = r
    <3>1. CASE p.workflow = w
      BY <2>2, <3>1
    <3>2. CASE p.workflow # w
      BY <2>2, <3>2 DEF Chains, HeadsOnly
    <3> QED
      BY <3>1, <3>2
  <2> QED
    BY <2>1, <2>2 DEF HeadsOnly
<1>7. AbandonedGone'
  BY <1>2 DEF Chains, AbandonedGone
<1>8. SentFirst'
  <2> SUFFICES ASSUME NEW v \in Workflow, NEW t \in Turns(new(v))
               PROVE  /\ server[v].turn <= t
                      /\ \A r \in net' : IsSave(r) /\ r.workflow = v => r.turn <= t
    BY DEF SentFirst
  <2>1. t \in Turns(old(v))
    BY <1>2
  <2>2. server[v].turn <= t /\ \A r \in net : IsSave(r) /\ r.workflow = v => r.turn <= t
    BY <2>1 DEF Chains, SentFirst
  <2>3. v = w => q.turn <= t
    BY <1>3, <2>1
  <2> QED
    BY <2>2, <2>3
<1> QED
  BY <1>5, <1>6, <1>7, <1>8 DEF Chains

(* The first save of a chain ends: no request of it is waited for any more, *)
(* though the server may still get one.                                     *)
LEMMA ChainsEnd ==
  ASSUME Shapes, Chains, NEW w \in Workflow, ed.chains[w] # <<>>,
         ed'.chains = [ed.chains EXCEPT ![w] = RemoveAt(@, 1)],
         made'.turn = made.turn, server' = server,
         \A r \in net' : IsSave(r) =>
           \/ r \in net /\ ~(r.waiting /\ r.workflow = w)
           \/ ~r.waiting /\ r.workflow = w /\ r.turn = ed.chains[w][1].turn
  PROVE  Chains'
<1> DEFINE n == made.turn
           old(v) == ed.chains[v]
           new(v) == ed'.chains[v]
           first == ed.chains[w][1].turn
<1>1. n \in Nat /\ DOMAIN ed.chains = Workflow
  BY DEF Shapes, EditorShape
<1>2. ASSUME NEW v \in Workflow
      PROVE  /\ Ordered(new(v), n) /\ Turns(new(v)) \subseteq Turns(old(v))
             /\ v # w => new(v) = old(v)
             /\ v = w => Turns(new(v)) = Turns(old(v)) \ {first}
  <2>1. Ordered(old(v), n)
    BY DEF Chains, ChainsOrdered
  <2>2. CASE v = w
    <3>1. new(v) = RemoveAt(old(v), 1)
      BY <1>1, <2>2
    <3> QED
      BY <1>1, <2>1, <2>2, <3>1, OrderedBehead
  <2>3. CASE v # w
    <3>1. new(v) = old(v)
      BY <1>1, <2>3
    <3> QED
      BY <2>1, <2>3, <3>1
  <2> QED
    BY <2>2, <2>3
<1>3. first \in Turns(old(w)) /\ \A t \in Turns(old(w)) : first <= t
  BY <1>1, OrderedNumbers DEF Chains, ChainsOrdered
<1>4. \A r \in net : r.workflow \in Workflow
  BY TurnsKnown
<1> HIDE DEF n, first
<1>5. ChainsOrdered' /\ ChainsApart'
  BY <1>2 DEF Chains, ChainsOrdered, ChainsApart, n
<1>6. HeadsOnly'
  BY <1>2, <1>4 DEF Chains, HeadsOnly
<1>7. AbandonedGone'
  <2> SUFFICES ASSUME NEW r \in net', IsSave(r), ~r.waiting, NEW v \in Workflow
               PROVE  r.turn \notin Turns(new(v))
    BY DEF AbandonedGone
  <2>1. CASE r \in net
    BY <1>2, <2>1 DEF Chains, AbandonedGone
  <2>2. CASE r.turn = first
    <3>1. v # w => first \notin Turns(old(v))
      BY <1>3 DEF Chains, ChainsApart
    <3> QED
      BY <1>2, <2>2, <3>1
  <2> QED
    BY <2>1, <2>2 DEF first
<1>8. SentFirst'
  <2> SUFFICES ASSUME NEW v \in Workflow, NEW t \in Turns(new(v))
               PROVE  /\ server[v].turn <= t
                      /\ \A r \in net' : IsSave(r) /\ r.workflow = v => r.turn <= t
    BY DEF SentFirst
  <2>1. t \in Turns(old(v))
    BY <1>2
  <2>2. server[v].turn <= t /\ \A r \in net : IsSave(r) /\ r.workflow = v => r.turn <= t
    BY <2>1 DEF Chains, SentFirst
  <2>3. v = w => first <= t
    BY <1>3, <2>1
  <2> QED
    BY <2>2, <2>3 DEF first
<1> QED
  BY <1>5, <1>6, <1>7, <1>8 DEF Chains

(* The server serves a request of a save: it answers it or, when nobody     *)
(* waits for it, forgets it, and it may store what it carries.              *)
LEMMA ChainsServed ==
  ASSUME Shapes, Chains, NEW r \in net, NEW a, net' = Answer(r, a),
         ed' = ed, made' = made,
         \A w \in Workflow :
           \/ server'[w].turn = server[w].turn
           \/ IsSave(r) /\ w = r.workflow /\ server'[w].turn = r.turn
  PROVE  Chains'
<1> DEFINE q == [r EXCEPT !.answer = a]
<1>1. DOMAIN r = {"op", "workflow", "rev", "doc", "mode", "turn", "taken", "at",
                  "waiting", "answer"}
  BY DEF Shapes, RequestShape, WellFormed
<1>2. q.op = r.op /\ q.workflow = r.workflow /\ q.turn = r.turn /\ q.waiting = r.waiting
  BY <1>1
<1> HIDE DEF q
<1>3. \A p \in net' : (p \in net /\ p # r) \/ p = q
  BY DEF Answer, q
<1>4. IsSave(q) = IsSave(r)
  BY <1>2 DEF IsSave
<1>5. ChainsOrdered' /\ ChainsApart'
  BY DEF Chains, ChainsOrdered, ChainsApart
<1>6. HeadsOnly'
  BY <1>2, <1>3, <1>4 DEF Chains, HeadsOnly
<1>7. AbandonedGone'
  BY <1>2, <1>3, <1>4 DEF Chains, AbandonedGone
<1>8. SentFirst'
  BY <1>2, <1>3, <1>4 DEF Chains, SentFirst
<1> QED
  BY <1>5, <1>6, <1>7, <1>8 DEF Chains

-----------------------------------------------------------------------------
(* What the helpers of the actions leave.                                   *)

LEMMA SpendType ==
  ASSUME Shapes, NEW what \in DOMAIN Bounds, Spend(what)
  PROVE  /\ used' \in [DOMAIN Bounds \cup {"all"} -> Nat]
         /\ what # "switch" => used'.switch = used.switch
         /\ what = "switch" => used'.switch # 0
<1>1. used \in [DOMAIN Bounds \cup {"all"} -> Nat]
  BY DEF Shapes, EditorShape
<1>2. what # "all" /\ "switch" \in DOMAIN Bounds
  BY DEF Bounds
<1> DEFINE D == DOMAIN Bounds \cup {"all"}
<1>3. what \in D /\ "all" \in D /\ "switch" \in D /\ "switch" # "all"
  BY <1>2
<1>4. used' = [used EXCEPT ![what] = @ + 1, !.all = @ + 1]
  BY DEF Spend
<1> HIDE DEF D
<1>5. used \in [D -> Nat]
  BY <1>1 DEF D
<1>6. used' \in [D -> Nat]
  <2>1. used' = [d \in D |-> used'[d]]
    BY <1>4, <1>5
  <2>2. ASSUME NEW d \in D PROVE used'[d] = used[d] \/ used'[d] = used[d] + 1
    BY <1>2, <1>3, <1>4, <1>5
  <2>3. \A d \in D : used'[d] \in Nat
    BY <1>5, <2>2
  <2> QED
    BY <2>1, <2>3
<1>7. what # "switch" => used'["switch"] = used["switch"]
  BY <1>3, <1>4, <1>5
<1>8. what = "switch" => used'["switch"] = used["switch"] + 1
  BY <1>2, <1>3, <1>4, <1>5
<1>9. used["switch"] \in Nat
  BY <1>3, <1>5
<1> QED
  BY <1>6, <1>7, <1>8, <1>9 DEF D

SameEditor ==
  /\ DOMAIN ed' = DOMAIN ed /\ ed'.active = ed.active /\ ed'.known = ed.known
  /\ ed'.chains = ed.chains /\ ed'.leaving = ed.leaving

Queues(s) ==
  /\ DOMAIN ed' = DOMAIN ed /\ ed'.active = ed.active /\ ed'.known = ed.known
  /\ ed'.chains = [ed.chains EXCEPT ![ed.active] = Append(@, s)]
  /\ s.turn = made.turn + 1
  /\ DOMAIN s = {"turn", "taken", "of", "doc", "mode", "edge", "step"}

LEMMA PersistQueues ==
  ASSUME Shapes, NEW e, NEW of, NEW doc, NEW mode, NEW taken, NEW edge,
         DOMAIN e = DOMAIN ed, e.active = ed.active, e.known = ed.known,
         e.chains = ed.chains, e.leaving = ed.leaving,
         ed' = persist(e, Save(of, doc, mode, taken, edge))
  PROVE  Queues(Save(of, doc, mode, taken, edge)) /\ ed'.leaving = ed.leaving
<1> DEFINE s == Save(of, doc, mode, taken, edge)
<1>1. s.turn = made.turn + 1 /\ DOMAIN s = {"turn", "taken", "of", "doc", "mode", "edge", "step"}
  BY DEF Save
<1> HIDE DEF s
<1>2. {"active", "chains", "known", "leaving", "label"} \subseteq DOMAIN ed
  BY DEF Shapes, EditorShape
<1>3. ed' = persist(e, s)
  BY DEF s
<1>4. DOMAIN ed' = DOMAIN ed /\ ed'.active = ed.active /\ ed'.known = ed.known
      /\ ed'.leaving = ed.leaving
  BY <1>2, <1>3 DEF persist
<1>5. ed'.chains = [ed.chains EXCEPT ![ed.active] = Append(@, s)]
  BY <1>2, <1>3 DEF persist
<1> QED
  BY <1>1, <1>4, <1>5 DEF Queues, s

MadeShape == DOMAIN made' = {"turn", "taken", "block"}
UsedShape == used' \in [DOMAIN Bounds \cup {"all"} -> Nat]

(* A save is queued.                                                        *)
LEMMA QueueStep ==
  ASSUME AutosaveInv, NEW s, Queues(s), MadeShape, made'.turn = made.turn + 1, UsedShape,
         UNCHANGED <<server, net, news>>,
         ed'.leaving # Nil => ed'.leaving.to \in Workflow,
         used'.switch = 0 => used.switch = 0 /\ ed'.leaving = ed.leaving
  PROVE  AutosaveInv'
<1>1. Shapes'
  <2>1. EditorShape'
    BY DEF AutosaveInv, Shapes, EditorShape, Queues, MadeShape, UsedShape
  <2>2. ServerShape' /\ RequestShape'
    <3>1. 0 .. made.turn \subseteq 0 .. made'.turn
      BY DEF AutosaveInv, Shapes, EditorShape
    <3> QED
      BY <3>1 DEF AutosaveInv, Shapes, ServerShape, RequestShape, WellFormed
  <2> QED
    BY <2>1, <2>2 DEF Shapes
<1>2. Chains'
  BY ChainsQueue DEF AutosaveInv, Queues
<1>3. AtHome'
  <2>1. DOMAIN ed.chains = Workflow
    BY DEF AutosaveInv, Shapes, EditorShape
  <2> QED
    BY <2>1 DEF AutosaveInv, AtHome, Queues
<1>4. RevisionsBehind'
  BY DEF AutosaveInv, RevisionsBehind, NotAhead, Timely, Queues
<1> QED
  BY <1>1, <1>2, <1>3, <1>4 DEF AutosaveInv

(* A step that touches no save: at most one request is new, and it has no   *)
(* answer yet.                                                              *)
LEMMA QuietStep ==
  ASSUME AutosaveInv, SameEditor, MadeShape, made'.turn = made.turn, UsedShape,
         server' = server, news' = news \/ news' = <<>>, used'.switch = used.switch,
         NEW q, WellFormed(q), q.op \in {"load", "mode"}, q.answer = Nil,
         used.switch = 0 => q.workflow = First,
         net' \subseteq net \cup {q}
  PROVE  AutosaveInv'
<1>0. news' \in Seq(Range(news')) /\ Range(news') \subseteq Range(news)
  BY NoNews DEF AutosaveInv, Shapes, ServerShape
<1>1. Shapes'
  BY <1>0 DEF AutosaveInv, Shapes, EditorShape, ServerShape, RequestShape, WellFormed,
         SameEditor, MadeShape, UsedShape
<1>2. Chains'
  BY ChainsQuiet DEF AutosaveInv, SameEditor, IsSave
<1>3. AtHome'
  BY DEF AutosaveInv, AtHome, SameEditor
<1>4. RevisionsBehind'
  BY <1>0 DEF AutosaveInv, RevisionsBehind, NotAhead, Timely, SameEditor
<1> QED
  BY <1>1, <1>2, <1>3, <1>4 DEF AutosaveInv

LEMMA RequestMade ==
  ASSUME Shapes, NEW op, NEW w \in Workflow, NEW rev, NEW save, save.turn \in 0 .. made.turn,
         op \in {"put", "get", "load", "activate", "mode"}
  PROVE  LET q == Request(op, w, rev, save)
         IN /\ WellFormed(q) /\ q.op = op /\ q.workflow = w /\ q.rev = rev
            /\ q.turn = save.turn /\ q.waiting /\ q.answer = Nil
BY DEF Request, WellFormed

(* The same when no request is new.                                         *)
LEMMA UnaskedStep ==
  ASSUME AutosaveInv, SameEditor, MadeShape, made'.turn = made.turn, UsedShape,
         UNCHANGED <<server, news>>, used'.switch = used.switch, net' \subseteq net
  PROVE  AutosaveInv'
<1> DEFINE q == Request("load", First, 0, NoSave)
<1>1. WellFormed(q) /\ q.op = "load" /\ q.workflow = First /\ q.answer = Nil
  <2>1. First \in Workflow /\ made.turn \in Nat
    BY AutosaveAssumption DEF AutosaveInv, Shapes, EditorShape
  <2> QED
    BY <2>1 DEF Request, WellFormed, NoSave
<1> HIDE DEF q
<1> QED
  BY <1>1, QuietStep

-----------------------------------------------------------------------------
(* The actions of the user.                                                 *)

LEMMA BoundNames ==
  DOMAIN Bounds = {"edit", "switch", "mode", "load", "timeout", "other"}
BY DEF Bounds

LEMMA EditSpends ==
  ASSUME AutosaveInv, NEW kind, Edit(kind)
  PROVE  UsedShape /\ used'.switch = used.switch /\ UNCHANGED <<server, net, news>>
BY BoundNames, SpendType DEF Edit, AutosaveInv, UsedShape

LEMMA EditStep ==
  ASSUME AutosaveInv, NEW kind, Edit(kind), NEW e, NEW of, NEW doc, NEW edge,
         DOMAIN e = DOMAIN ed, e.active = ed.active, e.known = ed.known,
         e.chains = ed.chains, e.leaving = ed.leaving,
         ed' = persist(e, Save(of, doc, ed.mode, made.taken + 1, edge)),
         MadeShape, made'.turn = made.turn + 1
  PROVE  AutosaveInv'
<1> DEFINE s == Save(of, doc, ed.mode, made.taken + 1, edge)
<1>1. Queues(s) /\ ed'.leaving = ed.leaving
  BY PersistQueues DEF AutosaveInv
<1>2. UsedShape /\ used'.switch = used.switch /\ UNCHANGED <<server, net, news>>
  BY EditSpends
<1>3. ed.leaving # Nil => ed.leaving.to \in Workflow
  BY DEF AutosaveInv, Shapes, EditorShape
<1> HIDE DEF s
<1> QED
  BY <1>1, <1>2, <1>3, QueueStep

LEMMA SaveEditStep ==
  ASSUME AutosaveInv, NEW kind, Edit(kind), NEW e, NEW doc, NEW edge,
         DOMAIN e = DOMAIN ed, e.active = ed.active, e.known = ed.known,
         e.chains = ed.chains, e.leaving = ed.leaving, SaveEdit(e, doc, edge)
  PROVE  AutosaveInv'
<1>1. MadeShape /\ made'.turn = made.turn + 1
  BY DEF SaveEdit, MadeShape, AutosaveInv, Shapes, EditorShape
<1>2. ed' = persist(e, Save(ed.shows, doc, ed.mode, made.taken + 1, edge))
  BY DEF SaveEdit
<1> QED
  BY <1>1, <1>2, EditStep

LEMMA RememberingSame ==
  ASSUME AutosaveInv
  PROVE  /\ DOMAIN Remembering = DOMAIN ed /\ Remembering.active = ed.active
         /\ Remembering.known = ed.known /\ Remembering.chains = ed.chains
         /\ Remembering.leaving = ed.leaving
BY DEF Remembering, AutosaveInv, Shapes, EditorShape

LEMMA UserEditsStep ==
  ASSUME AutosaveInv, UserEdits
  PROVE  AutosaveInv'
<1> USE AutosaveInv
<1>0. DOMAIN ed = {"active", "raw", "canvas", "rev", "known", "mode", "label", "pending",
                   "chains", "undo", "redo", "leaving", "shows", "lost"}
      /\ DOMAIN made = {"turn", "taken", "block"}
  BY DEF AutosaveInv, Shapes, EditorShape
<1>1. CASE addBlock
  <2>1. MadeShape /\ made'.turn = made.turn + 1
    BY <1>1 DEF addBlock, MadeShape
  <2>2. Edit("add") /\ ed' = persist(Remembering, Save(ed.shows,
          withBlock(ed.canvas, made.block + 1), ed.mode, made.taken + 1, Nil))
    BY <1>1 DEF addBlock
  <2> QED
    BY <2>1, <2>2, RememberingSame, EditStep
<1>2. ASSUME NEW b, duplicateNodeById(b)
      PROVE  AutosaveInv'
  <2>1. MadeShape /\ made'.turn = made.turn + 1
    BY <1>2 DEF duplicateNodeById, MadeShape
  <2>2. Edit("duplicate") /\ ed' = persist(Remembering, Save(ed.shows,
          duplicateNode(b, ed.canvas, made.block + 1), ed.mode, made.taken + 1, Nil))
    BY <1>2 DEF duplicateNodeById
  <2> QED
    BY <2>1, <2>2, RememberingSame, EditStep
<1>3. ASSUME NEW b, confirmDeleteBlock(b)
      PROVE  AutosaveInv'
  BY <1>3, RememberingSame, SaveEditStep DEF confirmDeleteBlock
<1>4. ASSUME NEW b, remove(b)
      PROVE  AutosaveInv'
  BY <1>4, SaveEditStep DEF remove
<1>5. ASSUME NEW x, removeEdge(x)
      PROVE  AutosaveInv'
  BY <1>5, SaveEditStep DEF removeEdge
<1>6. ASSUME NEW b, NEW at, onNodeDragStop(b, at)
      PROVE  AutosaveInv'
  <2> DEFINE e == [ed EXCEPT !.canvas.nodes[b].at = at]
  <2>1. Edit("drag") /\ SaveEdit(e, e.canvas, Nil)
    BY <1>6 DEF onNodeDragStop
  <2>2. /\ DOMAIN e = DOMAIN ed /\ e.active = ed.active /\ e.known = ed.known
        /\ e.chains = ed.chains /\ e.leaving = ed.leaving
    BY <1>0
  <2> HIDE DEF e
  <2> QED
    BY <2>1, <2>2, SaveEditStep
<1>7. ASSUME NEW b, NEW to, connect(b, to)
      PROVE  AutosaveInv'
  <2> DEFINE x == [source |-> b, target |-> to]
             e == [ed EXCEPT !.canvas.edges = @ \cup {x}]
  <2>1. Edit("connect") /\ SaveEdit(e, e.canvas, x)
    BY <1>7 DEF connect
  <2>2. /\ DOMAIN e = DOMAIN ed /\ e.active = ed.active /\ e.known = ed.known
        /\ e.chains = ed.chains /\ e.leaving = ed.leaving
    BY <1>0
  <2> HIDE DEF e, x
  <2> QED
    BY <2>1, <2>2, SaveEditStep
<1>8. ASSUME NEW source \in {"undo", "redo"}, NEW destination \in {"undo", "redo"},
             restoreSnapshot(source, destination)
      PROVE  AutosaveInv'
  <2> DEFINE last == Last(ed[source])
             e == [ed EXCEPT ![source] = Front(@),
                     ![destination] = Append(@, Snapshot(ed.canvas, ed.shows, made.taken))]
  <2>1. /\ Edit("history")
        /\ ed' = persist(e, Save(last.of, last.doc, ed.mode, made.taken + 1, Nil))
        /\ made' = [made EXCEPT !.turn = @ + 1, !.taken = @ + 1]
    BY <1>8 DEF restoreSnapshot
  <2>2. MadeShape /\ made'.turn = made.turn + 1
    BY <1>0, <2>1 DEF MadeShape
  <2>3. /\ DOMAIN e = DOMAIN ed /\ e.active = ed.active /\ e.known = ed.known
        /\ e.chains = ed.chains /\ e.leaving = ed.leaving
    BY <1>0
  <2> HIDE DEF e, last
  <2> QED
    BY <2>1, <2>2, <2>3, EditStep
<1>9. ASSUME NEW b, NEW p, updateNodeDebounced(b, p)
      PROVE  AutosaveInv'
  <2>1. UsedShape /\ used'.switch = used.switch /\ UNCHANGED <<server, net, news>>
    BY <1>9, EditSpends DEF updateNodeDebounced
  <2>2. SameEditor
    BY <1>0, <1>9 DEF updateNodeDebounced, SameEditor
  <2>3. MadeShape /\ made'.turn = made.turn
    BY <1>0, <1>9 DEF updateNodeDebounced, MadeShape
  <2> QED
    BY <2>1, <2>2, <2>3, UnaskedStep
<1> QED
  BY <1>1, <1>2, <1>3, <1>4, <1>5, <1>6, <1>7, <1>8, <1>9 DEF UserEdits

LEMMA ModeStep ==
  ASSUME AutosaveInv, NEW m, changeMode(m)
  PROVE  AutosaveInv'
<1> DEFINE q == Request("mode", ed.active, 0,
                        [NoSave EXCEPT !.mode = m, !.doc = [before |-> ed.mode]])
<1>1. /\ Spend("mode") /\ net' = net \cup {q} /\ UNCHANGED <<server, news, made>>
      /\ ed' = [ed EXCEPT !.mode = m, !.label = "Changing mode..."]
  BY DEF changeMode
<1>2. SameEditor /\ MadeShape
  BY <1>1 DEF SameEditor, MadeShape, AutosaveInv, Shapes, EditorShape
<1>3. UsedShape /\ used'.switch = used.switch
  BY <1>1, BoundNames, SpendType DEF AutosaveInv, UsedShape
<1>4. WellFormed(q) /\ q.op = "mode" /\ q.workflow = ed.active /\ q.answer = Nil
  <2>1. ed.active \in Workflow /\ made.turn \in Nat
    BY DEF AutosaveInv, Shapes, EditorShape
  <2> QED
    BY <2>1 DEF Request, WellFormed, NoSave
<1>5. used.switch = 0 => ed.active = First
  BY DEF AutosaveInv, AtHome
<1> HIDE DEF q
<1> QED
  BY <1>1, <1>2, <1>3, <1>4, <1>5, QuietStep

-----------------------------------------------------------------------------
(* Another workflow is opened; what nobody asked for, and what is heard.    *)

LEMMA OpenedStep ==
  ASSUME AutosaveInv, NEW w \in Workflow, Opened(ed, w), used'.switch # 0, UsedShape,
         made' = made, server' = server
  PROVE  AutosaveInv'
<1> DEFINE q == Request("load", w, 0, NoSave)
<1>0. DOMAIN ed = {"active", "raw", "canvas", "rev", "known", "mode", "label", "pending",
                   "chains", "undo", "redo", "leaving", "shows", "lost"}
      /\ DOMAIN ed.known = Workflow /\ DOMAIN ed.chains = Workflow /\ made.turn \in Nat
  BY DEF AutosaveInv, Shapes, EditorShape
<1>1. /\ net' = net \cup {q} /\ news' = <<>>
      /\ ed' = [ed EXCEPT !.active = w, !.known[w] = ed.rev, !.leaving = Nil]
  BY DEF Opened
<1>2. WellFormed(q) /\ q.op = "load"
  BY <1>0 DEF Request, WellFormed, NoSave
<1>3. /\ DOMAIN ed' = DOMAIN ed /\ ed'.active = w /\ DOMAIN ed'.known = Workflow
      /\ ed'.chains = ed.chains /\ ed'.leaving = Nil
  BY <1>0, <1>1
<1> HIDE DEF q
<1>4. Shapes'
  BY <1>1, <1>2, <1>3, NoNews
     DEF AutosaveInv, Shapes, EditorShape, ServerShape, RequestShape, WellFormed, UsedShape
<1>5. Chains'
  BY <1>1, <1>2, <1>3, ChainsQuiet DEF AutosaveInv, IsSave
<1>6. AtHome' /\ RevisionsBehind'
  BY DEF AtHome, RevisionsBehind
<1> QED
  BY <1>4, <1>5, <1>6 DEF AutosaveInv

LEMMA SelectStep ==
  ASSUME AutosaveInv, NEW w \in Workflow, selectWorkflow(w)
  PROVE  AutosaveInv'
<1>1. UsedShape /\ used'.switch # 0
  BY BoundNames, SpendType DEF selectWorkflow, AutosaveInv, UsedShape
<1>2. CASE Opened(ed, w) /\ UNCHANGED made
  BY <1>1, <1>2, OpenedStep DEF selectWorkflow
<1>3. CASE /\ ed' = [persist([ed EXCEPT !.pending = Nil], PendingSave(ed.pending.taken))
                      EXCEPT !.leaving = [to |-> w, turn |-> made.turn + 1]]
           /\ made' = [made EXCEPT !.turn = @ + 1]
           /\ UNCHANGED <<net, news>>
  <2> DEFINE s == PendingSave(ed.pending.taken)
             e == persist([ed EXCEPT !.pending = Nil], s)
  <2>0. DOMAIN ed = {"active", "raw", "canvas", "rev", "known", "mode", "label", "pending",
                     "chains", "undo", "redo", "leaving", "shows", "lost"}
        /\ DOMAIN made = {"turn", "taken", "block"}
    BY DEF AutosaveInv, Shapes, EditorShape
  <2>1. s.turn = made.turn + 1
        /\ DOMAIN s = {"turn", "taken", "of", "doc", "mode", "edge", "step"}
    BY DEF PendingSave, Save
  <2> HIDE DEF s
  <2>2. /\ DOMAIN e = DOMAIN ed /\ e.active = ed.active /\ e.known = ed.known
        /\ e.chains = [ed.chains EXCEPT ![ed.active] = Append(@, s)]
    BY <2>0 DEF persist
  <2>3. ed' = [e EXCEPT !.leaving = [to |-> w, turn |-> made.turn + 1]]
    BY <1>3 DEF s
  <2> HIDE DEF e
  <2>4. Queues(s) /\ ed'.leaving = [to |-> w, turn |-> made.turn + 1]
    BY <2>0, <2>1, <2>2, <2>3 DEF Queues
  <2>5. MadeShape /\ made'.turn = made.turn + 1
    BY <1>3, <2>0 DEF MadeShape
  <2>6. ed'.leaving.to \in Workflow
    BY <2>4
  <2>7. UNCHANGED <<server, net, news>>
    BY <1>3 DEF selectWorkflow
  <2> QED
    BY <1>1, <2>4, <2>5, <2>6, <2>7, QueueStep
<1> QED
  BY <1>2, <1>3 DEF selectWorkflow

LEMMA LeaveStep ==
  ASSUME AutosaveInv, Leave
  PROVE  AutosaveInv'
<1>1. ed.leaving.to \in Workflow /\ UsedShape
  BY DEF Leave, AutosaveInv, Shapes, EditorShape, UsedShape
<1>2. used'.switch # 0
  BY DEF Leave, AutosaveInv, AtHome
<1> QED
  BY <1>1, <1>2, OpenedStep DEF Leave

LEMMA TimerStep ==
  ASSUME AutosaveInv, ParameterTimer
  PROVE  AutosaveInv'
<1> DEFINE e == [ed EXCEPT !.pending = Nil]
           s == Save(ed.pending.of, ed.pending.doc, ed.mode, ed.pending.taken, Nil)
<1>0. DOMAIN ed = {"active", "raw", "canvas", "rev", "known", "mode", "label", "pending",
                   "chains", "undo", "redo", "leaving", "shows", "lost"}
      /\ DOMAIN made = {"turn", "taken", "block"}
      /\ (ed.leaving # Nil => ed.leaving.to \in Workflow)
  BY DEF AutosaveInv, Shapes, EditorShape
<1>1. /\ DOMAIN e = DOMAIN ed /\ e.active = ed.active /\ e.known = ed.known
      /\ e.chains = ed.chains /\ e.leaving = ed.leaving
  BY <1>0
<1>2. ed' = persist(e, s)
  BY DEF ParameterTimer, PendingSave
<1> HIDE DEF e
<1>3. Queues(s) /\ ed'.leaving = ed.leaving
  BY <1>1, <1>2, PersistQueues DEF AutosaveInv
<1> HIDE DEF s
<1>4. MadeShape /\ made'.turn = made.turn + 1 /\ UsedShape /\ used' = used
  BY <1>0 DEF ParameterTimer, MadeShape, UsedShape, AutosaveInv, Shapes, EditorShape
<1>5. UNCHANGED <<server, net, news>>
  BY DEF ParameterTimer
<1> QED
  BY <1>0, <1>3, <1>4, <1>5, QueueStep

LEMMA ReloadStep ==
  ASSUME AutosaveInv, Reload
  PROVE  AutosaveInv'
<1> DEFINE q == Request("load", ed.active, 0, NoSave)
<1>1. /\ Spend("load") /\ net' = net \cup {q} /\ UNCHANGED <<server, ed, made>>
      /\ (news' = news \/ news' = <<>>)
  BY DEF Reload
<1>2. SameEditor /\ MadeShape
  BY <1>1 DEF SameEditor, MadeShape, AutosaveInv, Shapes, EditorShape
<1>3. UsedShape /\ used'.switch = used.switch
  BY <1>1, BoundNames, SpendType DEF AutosaveInv, UsedShape
<1>4. WellFormed(q) /\ q.op = "load" /\ q.workflow = ed.active /\ q.answer = Nil
  <2>1. ed.active \in Workflow /\ made.turn \in Nat
    BY DEF AutosaveInv, Shapes, EditorShape
  <2> QED
    BY <2>1 DEF Request, WellFormed, NoSave
<1>5. used.switch = 0 => ed.active = First
  BY DEF AutosaveInv, AtHome
<1> HIDE DEF q
<1> QED
  BY <1>1, <1>2, <1>3, <1>4, <1>5, QuietStep

LEMMA ShownStep ==
  ASSUME AutosaveInv,
         RedrawEdges \/ \E r \in net : ModeAnswered(r)
  PROVE  AutosaveInv'
<1>0. DOMAIN ed = {"active", "raw", "canvas", "rev", "known", "mode", "label", "pending",
                   "chains", "undo", "redo", "leaving", "shows", "lost"}
      /\ DOMAIN made = {"turn", "taken", "block"}
  BY DEF AutosaveInv, Shapes, EditorShape
<1>1. /\ SameEditor /\ net' \subseteq net
      /\ UNCHANGED <<server, news, made, used>>
  <2>1. CASE RedrawEdges
    BY <1>0, <2>1 DEF RedrawEdges, SameEditor
  <2>2. ASSUME NEW r \in net, ModeAnswered(r)
        PROVE  SameEditor /\ net' \subseteq net /\ UNCHANGED <<server, news, made, used>>
    BY <1>0, <2>2 DEF ModeAnswered, SameEditor
  <2> QED
    BY <2>1, <2>2
<1>2. MadeShape /\ UsedShape
  BY <1>0, <1>1 DEF MadeShape, UsedShape, AutosaveInv, Shapes, EditorShape
<1> QED
  BY <1>1, <1>2, UnaskedStep

(* What the server holds comes to the editor: no revision is newer.         *)
LEMMA HeardStep ==
  ASSUME AutosaveInv, DOMAIN ed' = DOMAIN ed, ed'.active = ed.active,
         ed'.chains = ed.chains, ed'.leaving = ed.leaving, DOMAIN ed'.known = Workflow,
         used.switch = 0 => ed'.known[First] \in 0 .. server[First].rev,
         UNCHANGED <<server, made, used>>, news' \in Seq(Range(news')),
         Range(news') \subseteq Range(news), net' \subseteq net
  PROVE  AutosaveInv'
<1>1. Shapes'
  BY DEF AutosaveInv, Shapes, EditorShape, ServerShape, RequestShape, WellFormed
<1>2. Chains'
  BY ChainsQuiet DEF AutosaveInv
<1>3. AtHome'
  BY DEF AutosaveInv, AtHome
<1>4. RevisionsBehind'
  BY DEF AutosaveInv, RevisionsBehind, NotAhead, Timely
<1> QED
  BY <1>1, <1>2, <1>3, <1>4 DEF AutosaveInv

LEMMA HearModeStep ==
  ASSUME AutosaveInv, HearMode
  PROVE  AutosaveInv'
<1>0. /\ DOMAIN ed = {"active", "raw", "canvas", "rev", "known", "mode", "label", "pending",
                      "chains", "undo", "redo", "leaving", "shows", "lost"}
      /\ DOMAIN ed.known = Workflow
  BY DEF AutosaveInv, Shapes, EditorShape
<1>1. /\ UNCHANGED <<server, net, made, used>>
      /\ news' \in Seq(Range(news')) /\ Range(news') \subseteq Range(news)
  BY NewsHeard DEF HearMode, Heard, AutosaveInv
<1>2. /\ DOMAIN ed' = DOMAIN ed /\ ed'.active = ed.active /\ ed'.chains = ed.chains
      /\ ed'.leaving = ed.leaving /\ ed'.known = ed.known
  BY <1>0 DEF HearMode
<1>3. used.switch = 0 => ed'.known[First] \in 0 .. server[First].rev
  BY <1>2 DEF AutosaveInv, RevisionsBehind
<1> QED
  BY <1>0, <1>1, <1>2, <1>3, HeardStep

LEMMA HearStep ==
  ASSUME AutosaveInv, HearWorkflow
  PROVE  AutosaveInv'
<1> DEFINE m == Head(news)
           w == m.workflow
           d == m.doc
           e == [ed EXCEPT !.known[w] = m.rev, !.rev = m.rev, !.mode = m.mode, !.shows = w]
<1>0. /\ DOMAIN ed = {"active", "raw", "canvas", "rev", "known", "mode", "label", "pending",
                      "chains", "undo", "redo", "leaving", "shows", "lost"}
      /\ DOMAIN ed.known = Workflow /\ First \in Workflow
  BY AutosaveAssumption DEF AutosaveInv, Shapes, EditorShape
<1>1. /\ UNCHANGED <<server, net, made, used>> /\ m \in Range(news) /\ m.type = "workflow"
      /\ news' \in Seq(Range(news')) /\ Range(news') \subseteq Range(news)
  BY NewsHeard DEF HearWorkflow, Heard, AutosaveInv
<1>2. used.switch = 0 => ed.active = First /\ ed.known[First] \in 0 .. server[First].rev
                         /\ (w = First => m.rev \in 0 .. server[First].rev)
  BY <1>1 DEF AutosaveInv, AtHome, RevisionsBehind, NotAhead
<1>3. CASE ed' = ed
  BY <1>0, <1>1, <1>2, <1>3, HeardStep
<1>4. CASE w = ed.active /\ ed' = Drawn(e, d)
  <2>1. /\ DOMAIN e = DOMAIN ed /\ e.active = ed.active /\ e.chains = ed.chains
        /\ e.leaving = ed.leaving /\ DOMAIN e.known = Workflow
        /\ (w \in Workflow => e.known[w] = m.rev)
    BY <1>0
  <2>2. ed' = Drawn(e, d)
    BY <1>4
  <2> HIDE DEF e, d
  <2>3. /\ DOMAIN ed' = DOMAIN e /\ ed'.active = e.active /\ ed'.chains = e.chains
        /\ ed'.leaving = e.leaving /\ ed'.known = e.known
    BY <1>0, <2>1, <2>2 DEF Drawn
  <2>4. used.switch = 0 => ed'.known[First] \in 0 .. server[First].rev
    BY <1>0, <1>2, <1>4, <2>1, <2>3
  <2> QED
    BY <1>1, <2>1, <2>3, <2>4, HeardStep
<1>5. ed' = ed \/ (w = ed.active /\ ed' = Drawn(e, d))
  BY DEF HearWorkflow
<1> QED
  BY <1>3, <1>4, <1>5

-----------------------------------------------------------------------------
(* Loads, another browser, and the server.                                  *)

LEMMA LoadReadStep ==
  ASSUME AutosaveInv, NEW r \in net, LoadRead(r)
  PROVE  AutosaveInv'
<1> DEFINE q == [r EXCEPT !.op = "activate", !.rev = r.answer.rev,
                          !.doc = r.answer.doc, !.mode = r.answer.mode, !.answer = Nil]
<1>1. /\ net' = (net \ {r}) \cup {q} /\ UNCHANGED <<server, ed, news, made, used>>
      /\ r.op = "load" /\ r.answer # Nil
  BY DEF LoadRead
<1>2. WellFormed(r)
  BY DEF AutosaveInv, Shapes, RequestShape
<1>3. WellFormed(q) /\ q.op = "activate" /\ q.workflow = r.workflow /\ q.rev = r.answer.rev
  BY <1>2 DEF WellFormed
<1> HIDE DEF q
<1>4. Shapes'
  BY <1>1, <1>3 DEF AutosaveInv, Shapes, EditorShape, ServerShape, RequestShape, WellFormed
<1>5. Chains'
  BY <1>1, <1>3, ChainsQuiet DEF AutosaveInv, IsSave
<1>6. AtHome'
  BY <1>1, <1>3 DEF AutosaveInv, AtHome
<1>7. RevisionsBehind'
  BY <1>1, <1>3 DEF AutosaveInv, RevisionsBehind, NotAhead, Timely
<1> QED
  BY <1>4, <1>5, <1>6, <1>7 DEF AutosaveInv

LEMMA RevisionSet ==
  ASSUME Shapes, NEW e, DOMAIN e = DOMAIN ed, DOMAIN e.known = Workflow,
         e.active = ed.active, NEW rev, e.known[e.active] = rev
  PROVE  LET f == SetRevision(e, rev)
         IN /\ DOMAIN f = DOMAIN ed /\ DOMAIN f.known = Workflow /\ f.active = ed.active
            /\ f.chains = e.chains /\ f.leaving = e.leaving /\ f.known[e.active] = rev
BY DEF SetRevision, Shapes, EditorShape

LEMMA LoadDoneStep ==
  ASSUME AutosaveInv, NEW r \in net, LoadDone(r)
  PROVE  AutosaveInv'
<1> DEFINE e == [ed EXCEPT !.known[r.workflow] = r.rev]
           f == SetRevision(e, r.rev)
<1>0. DOMAIN ed = {"active", "raw", "canvas", "rev", "known", "mode", "label", "pending",
                   "chains", "undo", "redo", "leaving", "shows", "lost"}
      /\ DOMAIN ed.known = Workflow /\ First \in Workflow /\ news \in Seq(Range(news))
      /\ ed.active \in Workflow
  BY AutosaveAssumption DEF AutosaveInv, Shapes, EditorShape, ServerShape
<1>1. /\ net' = net \ {r} /\ UNCHANGED <<server, news, made, used>> /\ r.op = "activate"
      /\ ed' = [f EXCEPT !.raw = r.doc, !.canvas = r.doc, !.mode = r.mode,
                         !.shows = r.workflow, !.lost = FALSE]
  BY DEF LoadDone
<1>2. /\ DOMAIN e = DOMAIN ed /\ e.active = ed.active /\ e.chains = ed.chains
      /\ e.leaving = ed.leaving /\ DOMAIN e.known = Workflow
      /\ (r.workflow = ed.active => e.known[ed.active] = r.rev)
  BY <1>0
<1>3. /\ DOMAIN f = DOMAIN ed /\ f.active = ed.active /\ f.chains = ed.chains
      /\ f.leaving = ed.leaving /\ DOMAIN f.known = Workflow
      /\ (r.workflow = ed.active => f.known[ed.active] = r.rev)
  <2> HIDE DEF e
  <2> QED
    BY <1>0, <1>2 DEF SetRevision
<1> HIDE DEF e, f
<1>4. /\ DOMAIN ed' = DOMAIN ed /\ ed'.active = ed.active /\ ed'.chains = ed.chains
      /\ ed'.leaving = ed.leaving /\ ed'.known = f.known
  BY <1>0, <1>1, <1>3
<1>5. used.switch = 0 => ed'.known[First] \in 0 .. server[First].rev
  BY <1>1, <1>3, <1>4 DEF AutosaveInv, AtHome, RevisionsBehind, Timely
<1> QED
  BY <1>0, <1>1, <1>3, <1>4, <1>5, HeardStep

(* The server stores something: its revision grows, and its turn is the     *)
(* same or that of the request.                                             *)
LEMMA StoredStep ==
  ASSUME AutosaveInv, UNCHANGED <<ed, made>>, UsedShape, used'.switch = used.switch,
         NEW w \in Workflow, NEW x, DOMAIN server' = Workflow, server'[w] = x,
         \A v \in Workflow : v # w => server'[v] = server[v],
         DOMAIN x = {"doc", "rev", "mode", "turn", "taken"},
         x.rev = server[w].rev + 1, x.turn \in 0 .. made.turn,
         news' \in Seq(Range(news')),
         \A m \in Range(news') :
           m \in Range(news) \/ m.type # "workflow" \/ (m.workflow = w /\ m.rev = x.rev),
         Chains', \A q \in net' : WellFormed(q),
         used.switch = 0 => \A q \in net' :
           \/ q \in net
           \/ q.workflow = First /\ q.op \in {"mode", "activate"} /\ Timely(q)
           \/ q.workflow = First /\ q.op = "put" /\ q.rev \in 0 .. server[w].rev
              /\ (q.answer # Nil => q.answer.rev = x.rev) /\ w = First
  PROVE  AutosaveInv'
<1>1. server[w].rev \in Nat /\ DOMAIN server = Workflow /\ server'[w] = x
      /\ \A v \in Workflow : v # w => server'[v] = server[v]
  BY DEF AutosaveInv, Shapes, ServerShape
<1>2. Shapes'
  <2>1. EditorShape'
    BY DEF AutosaveInv, Shapes, EditorShape, UsedShape
  <2>2. \A v \in Workflow : /\ DOMAIN server'[v] = {"doc", "rev", "mode", "turn", "taken"}
                            /\ server'[v].rev \in Nat /\ server'[v].turn \in 0 .. made.turn
    BY <1>1 DEF AutosaveInv, Shapes, ServerShape
  <2>3. ServerShape' /\ RequestShape'
    BY <2>2 DEF ServerShape, RequestShape, WellFormed
  <2> QED
    BY <2>1, <2>3 DEF Shapes
<1>3. AtHome'
  BY DEF AutosaveInv, AtHome
<1>4. RevisionsBehind'
  <2> SUFFICES ASSUME used.switch = 0
               PROVE  /\ ed.known[First] \in 0 .. server'[First].rev
                      /\ \A m \in Range(news') : NotAhead(m)'
                      /\ \A q \in net' : Timely(q)'
    BY DEF RevisionsBehind, NotAhead
  <2>1. First \in Workflow
    BY AutosaveAssumption
  <2>2. server[First].rev \in Nat /\ server'[First].rev \in Nat
        /\ server[First].rev <= server'[First].rev
    BY <1>1, <2>1 DEF AutosaveInv, Shapes, ServerShape
  <2>3. 0 .. server[First].rev \subseteq 0 .. server'[First].rev
    BY <2>2
  <2>4. ed.known[First] \in 0 .. server[First].rev
        /\ (\A m \in Range(news) : NotAhead(m))
        /\ \A q \in net : Timely(q)
    BY DEF AutosaveInv, RevisionsBehind
  <2>5. ASSUME NEW m \in Range(news') PROVE NotAhead(m)'
    BY <1>1, <2>1, <2>2, <2>3, <2>4 DEF NotAhead
  <2>6. ASSUME NEW q, Timely(q), WellFormed(q)
        PROVE  Timely(q)'
    <3>1. CASE w = First
      <4>1. q.op = "put" => q.rev # server'[First].rev
        BY <1>1, <2>2, <2>6, <3>1 DEF Timely
      <4> QED
        BY <2>3, <2>6, <4>1 DEF Timely
    <3>2. CASE w # First
      BY <1>1, <2>1, <2>6, <3>2 DEF Timely
    <3> QED
      BY <3>1, <3>2
  <2>7. ASSUME NEW q \in net' PROVE Timely(q)'
    <3>1. CASE q \in net
      BY <2>4, <2>6, <2>7, <3>1
    <3>2. CASE q.workflow = First /\ q.op \in {"mode", "activate"} /\ Timely(q)
      BY <2>6, <3>2
    <3>3. CASE q.workflow = First /\ q.op = "put" /\ q.rev \in 0 .. server[w].rev
               /\ (q.answer # Nil => q.answer.rev = x.rev) /\ w = First
      BY <1>1, <2>2, <2>3, <3>3 DEF Timely
    <3> QED
      BY <3>1, <3>2, <3>3
  <2> QED
    BY <2>3, <2>4, <2>5, <2>7
<1> QED
  BY <1>2, <1>3, <1>4 DEF AutosaveInv

LEMMA OtherStep ==
  ASSUME AutosaveInv, NEW w \in Workflow, OtherSaves(w)
  PROVE  AutosaveInv'
<1>0. DOMAIN server = Workflow
      /\ DOMAIN server[w] = {"doc", "rev", "mode", "turn", "taken"}
      /\ server[w].turn \in 0 .. made.turn
  BY DEF AutosaveInv, Shapes, ServerShape
<1>1. PICK b, p : server' = [server EXCEPT ![w].doc.nodes[b].param = p, ![w].rev = @ + 1]
  BY DEF OtherSaves
<1>2. /\ UNCHANGED <<ed, net, made>> /\ Spend("other")
      /\ news' = Append(news, Broadcast(w, server'[w]))
  BY DEF OtherSaves
<1> DEFINE x == server'[w]
<1>3. /\ DOMAIN x = {"doc", "rev", "mode", "turn", "taken"}
      /\ x.rev = server[w].rev + 1 /\ x.turn = server[w].turn
  BY <1>0, <1>1
<1>4. /\ DOMAIN server' = Workflow /\ server'[w] = x
      /\ \A v \in Workflow : v # w => server'[v] = server[v]
  BY <1>0, <1>1
<1>5. UsedShape /\ used'.switch = used.switch
  BY <1>2, BoundNames, SpendType DEF AutosaveInv, UsedShape
<1>6. Chains'
  BY <1>0, <1>2, <1>3, <1>4, ChainsQuiet DEF AutosaveInv
<1>7. /\ news' \in Seq(Range(news'))
      /\ \A m \in Range(news') : m \in Range(news) \/ (m.workflow = w /\ m.rev = x.rev)
  <2> DEFINE m == Broadcast(w, x)
  <2>1. m.workflow = w /\ m.rev = x.rev
    BY DEF Broadcast
  <2>2. news' = Append(news, m)
    BY <1>2
  <2> HIDE DEF m, x
  <2> QED
    BY <2>1, <2>2, NewsSent DEF AutosaveInv
<1>8. \A q \in net' : WellFormed(q) /\ q \in net
  BY <1>2 DEF AutosaveInv, Shapes, RequestShape
<1> HIDE DEF x
<1> QED
  BY <1>0, <1>2, <1>3, <1>4, <1>5, <1>6, <1>7, <1>8, StoredStep

LEMMA AnswerMade ==
  ASSUME AutosaveInv, NEW r \in net, NEW a, net' = Answer(r, a), r.answer = Nil
  PROVE  LET q == [r EXCEPT !.answer = a]
         IN /\ WellFormed(q) /\ q.op = r.op /\ q.workflow = r.workflow /\ q.rev = r.rev
            /\ q.turn = r.turn /\ q.answer = a
            /\ \A p \in net' : p \in net \/ p = q
<1>1. WellFormed(r)
  BY DEF AutosaveInv, Shapes, RequestShape
<1> QED
  BY <1>1 DEF WellFormed, Answer

(* An answer tells the revision of the server.                              *)
LEMMA AnsweredStep ==
  ASSUME AutosaveInv, NEW r \in net, NEW a, net' = Answer(r, a), r.answer = Nil,
         UNCHANGED <<ed, made, used>>, news' \in Seq(Range(news')),
         DOMAIN server' = Workflow, \A v \in Workflow : server'[v] = server[v],
         \A m \in Range(news') : m \in Range(news) \/ m.rev = server[m.workflow].rev,
         r.op \in {"put", "get", "load"} => a.rev = server[r.workflow].rev
  PROVE  AutosaveInv'
<1> DEFINE q == [r EXCEPT !.answer = a]
<1>1. /\ WellFormed(q) /\ q.op = r.op /\ q.workflow = r.workflow /\ q.rev = r.rev
      /\ q.turn = r.turn /\ q.answer = a
      /\ \A p \in net' : p \in net \/ p = q
  BY AnswerMade
<1> HIDE DEF q
<1>2. Shapes'
  BY <1>1 DEF AutosaveInv, Shapes, EditorShape, ServerShape, RequestShape, WellFormed
<1>3. Chains'
  BY ChainsServed DEF AutosaveInv
<1>4. AtHome'
  BY <1>1 DEF AutosaveInv, AtHome
<1>5. RevisionsBehind'
  <2> SUFFICES ASSUME used.switch = 0
               PROVE  /\ ed.known[First] \in 0 .. server[First].rev
                      /\ \A m \in Range(news') : NotAhead(m)
                      /\ \A p \in net' : Timely(p)
    BY AutosaveAssumption DEF RevisionsBehind, NotAhead, Timely
  <2>1. First \in Workflow /\ server[First].rev \in Nat
    BY AutosaveAssumption DEF AutosaveInv, Shapes, ServerShape
  <2>2. server[First].rev \in 0 .. server[First].rev
    BY <2>1
  <2>3. r.workflow = First /\ Timely(r)
    BY DEF AutosaveInv, AtHome, RevisionsBehind
  <2>4. Timely(q)
    BY <1>1, <2>2, <2>3 DEF Timely
  <2> QED
    BY <1>1, <2>1, <2>2, <2>4 DEF AutosaveInv, RevisionsBehind, NotAhead
<1> QED
  BY <1>2, <1>3, <1>4, <1>5 DEF AutosaveInv

LEMMA ServePutStep ==
  ASSUME AutosaveInv, NEW r \in net, ServePut(r)
  PROVE  AutosaveInv'
<1> DEFINE w == r.workflow
           s == server[w]
           x == server'[w]
           a == [ok |-> r.rev = s.rev, rev |-> x.rev]
<1>0. /\ DOMAIN server = Workflow /\ news \in Seq(Range(news)) /\ w \in Workflow
      /\ s.rev \in Nat /\ s.turn \in 0 .. made.turn /\ r.turn \in 0 .. made.turn
      /\ WellFormed(r)
  BY DEF AutosaveInv, Shapes, ServerShape, RequestShape, WellFormed
<1>1. r.op = "put" /\ r.answer = Nil /\ UNCHANGED <<ed, made, used>>
  BY DEF ServePut
<1>2. CASE r.rev # s.rev
  <2>1. update(r) = [ok |-> FALSE, now |-> s]
    BY <1>2 DEF update
  <2>2. server' = [server EXCEPT ![w] = s] /\ news' = news
        /\ net' = Answer(r, [ok |-> FALSE, rev |-> s.rev])
    BY <2>1 DEF ServePut
  <2>3. DOMAIN server' = Workflow /\ \A v \in Workflow : server'[v] = server[v]
    BY <1>0, <2>2
  <2> HIDE DEF s
  <2>4. [ok |-> FALSE, rev |-> s.rev].rev = s.rev
    OBVIOUS
  <2> QED
    BY <1>0, <1>1, <2>2, <2>3, <2>4, AnsweredStep DEF s
<1>3. CASE r.rev = s.rev
  <2> DEFINE n == [doc |-> r.doc, rev |-> r.rev + 1, mode |-> r.mode,
                   turn |-> r.turn, taken |-> r.taken]
             b == [ok |-> TRUE, rev |-> n.rev]
             q == [r EXCEPT !.answer = b]
  <2>1. update(r) = [ok |-> TRUE, now |-> n]
    BY <1>3 DEF update
  <2>2. server' = [server EXCEPT ![w] = n] /\ news' = Append(news, Broadcast(w, n))
        /\ net' = Answer(r, b)
    <3> DEFINE u == update(r)
    <3>1. u.ok /\ u.ok = TRUE /\ u.now = n
      BY <2>1
    <3>2. /\ server' = [server EXCEPT ![w] = u.now]
          /\ u.ok => news' = Append(news, Broadcast(w, u.now))
          /\ net' = Answer(r, [ok |-> u.ok, rev |-> u.now.rev])
      BY DEF ServePut
    <3> HIDE DEF u, n
    <3> QED
      BY <3>1, <3>2
  <2>3. /\ DOMAIN server' = Workflow /\ server'[w] = n
        /\ \A v \in Workflow : v # w => server'[v] = server[v]
    BY <1>0, <2>2
  <2>4. DOMAIN n = {"doc", "rev", "mode", "turn", "taken"} /\ n.rev = s.rev + 1
        /\ n.turn = r.turn
    BY <1>3
  <2>5. b.rev = n.rev
    OBVIOUS
  <2>6. /\ news' \in Seq(Range(news'))
        /\ \A m \in Range(news') :
             m \in Range(news) \/ m.type # "workflow" \/ (m.workflow = w /\ m.rev = n.rev)
    <3> DEFINE m == Broadcast(w, n)
    <3>1. m.workflow = w /\ m.rev = n.rev
      BY DEF Broadcast
    <3>2. news' = Append(news, m)
      BY <2>2
    <3> HIDE DEF m, n, w
    <3> QED
      BY <3>1, <3>2, NewsSent DEF AutosaveInv
  <2>7. /\ WellFormed(q) /\ q.op = r.op /\ q.workflow = r.workflow /\ q.rev = r.rev
        /\ q.turn = r.turn /\ q.answer = b
        /\ \A p \in net' : p \in net \/ p = q
    <3>1. net' = Answer(r, b) /\ r.answer = Nil
      BY <1>1, <2>2
    <3> HIDE DEF b
    <3> QED
      BY <3>1, AnswerMade
  <2> HIDE DEF n, b, q
  <2>8. Chains'
    BY <1>1, <2>2, <2>3, <2>4, ChainsServed DEF AutosaveInv, IsSave
  <2>9. \A p \in net' : WellFormed(p)
    BY <2>7 DEF AutosaveInv, Shapes, RequestShape
  <2>10. used.switch = 0 => \A p \in net' :
           p \in net \/ (p.workflow = First /\ p.op = "put" /\ p.rev \in 0 .. s.rev
                         /\ (p.answer # Nil => p.answer.rev = n.rev) /\ w = First)
    <3>1. used.switch = 0 => w = First
      BY DEF AutosaveInv, AtHome
    <3>2. q.rev \in 0 .. s.rev
      BY <1>0, <1>3, <2>7
    <3> QED
      BY <1>1, <2>5, <2>7, <3>1, <3>2
  <2>11. UsedShape /\ used' = used
    BY <1>1 DEF UsedShape, AutosaveInv, Shapes, EditorShape
  <2>12. n.turn \in 0 .. made.turn /\ UNCHANGED <<ed, made>>
    BY <1>0, <1>1, <2>4
  <2> HIDE DEF w, s, x
  <2> QED
    BY <1>0, <2>3, <2>4, <2>6, <2>8, <2>9, <2>10, <2>11, <2>12, StoredStep DEF s
<1> QED
  BY <1>2, <1>3

LEMMA ServeModeStep ==
  ASSUME AutosaveInv, NEW r \in net, ServeMode(r)
  PROVE  AutosaveInv'
<1> DEFINE w == r.workflow
           s == server[w]
           n == [s EXCEPT !.mode = r.mode, !.rev = @ + 1]
           q == [r EXCEPT !.answer = r.mode]
<1>0. /\ DOMAIN server = Workflow /\ w \in Workflow
      /\ DOMAIN s = {"doc", "rev", "mode", "turn", "taken"}
      /\ s.rev \in Nat /\ s.turn \in 0 .. made.turn
  BY DEF AutosaveInv, Shapes, ServerShape, RequestShape, WellFormed
<1>1. /\ r.op = "mode" /\ r.answer = Nil /\ UNCHANGED <<ed, made, used>>
      /\ news' = Append(news, [type |-> "workflow-state", workflow |-> w, mode |-> r.mode])
      /\ server' = [server EXCEPT ![w] = n] /\ net' = Answer(r, r.mode)
  BY DEF ServeMode
<1>2. DOMAIN n = {"doc", "rev", "mode", "turn", "taken"} /\ n.rev = s.rev + 1
      /\ n.turn = s.turn
  BY <1>0
<1>3. /\ WellFormed(q) /\ q.op = "mode" /\ q.workflow = w
      /\ \A p \in net' : p \in net \/ p = q
  BY <1>1, AnswerMade
<1> HIDE DEF n, q
<1>4. /\ DOMAIN server' = Workflow /\ server'[w] = n
      /\ \A v \in Workflow : v # w => server'[v] = server[v]
  BY <1>0, <1>1
<1>5. Chains'
  BY <1>0, <1>1, <1>2, <1>4, ChainsServed DEF AutosaveInv
<1>6. \A p \in net' : WellFormed(p)
  BY <1>3 DEF AutosaveInv, Shapes, RequestShape
<1>7. used.switch = 0 => \A p \in net' :
        p \in net \/ (p.workflow = First /\ p.op \in {"mode", "activate"} /\ Timely(p))
  <2>1. used.switch = 0 => w = First
    BY DEF AutosaveInv, AtHome
  <2>2. Timely(q)
    BY <1>3 DEF Timely
  <2> QED
    BY <1>3, <2>1, <2>2
<1>8. UsedShape /\ used' = used
  BY <1>1 DEF UsedShape, AutosaveInv, Shapes, EditorShape
<1>9. /\ news' \in Seq(Range(news'))
      /\ \A m \in Range(news') :
           m \in Range(news) \/ m.type # "workflow" \/ (m.workflow = w /\ m.rev = n.rev)
  <2> DEFINE m == [type |-> "workflow-state", workflow |-> w, mode |-> r.mode]
  <2>1. m.type # "workflow" /\ news' = Append(news, m)
    BY <1>1
  <2> HIDE DEF m
  <2> QED
    BY <2>1, NewsSent DEF AutosaveInv
<1>10. n.turn \in 0 .. made.turn /\ UNCHANGED <<ed, made>>
  BY <1>0, <1>1, <1>2
<1> HIDE DEF w, s
<1> QED
  BY <1>0, <1>2, <1>4, <1>5, <1>6, <1>7, <1>8, <1>9, <1>10, StoredStep DEF s

LEMMA ServeStep ==
  ASSUME AutosaveInv, Serve
  PROVE  AutosaveInv'
<1>0. /\ DOMAIN server = Workflow /\ news \in Seq(Range(news))
      /\ \A r \in net : r.workflow \in Workflow
  BY DEF AutosaveInv, Shapes, ServerShape, RequestShape, WellFormed
<1>1. ASSUME NEW r \in net, ServeGet(r)
      PROVE  AutosaveInv'
  <2> DEFINE a == Broadcast(r.workflow, server[r.workflow])
  <2>1. net' = Answer(r, a) /\ r.answer = Nil /\ UNCHANGED <<server, ed, news, made, used>>
    BY <1>1 DEF ServeGet
  <2>2. a.rev = server[r.workflow].rev
    BY DEF Broadcast
  <2> HIDE DEF a
  <2> QED
    BY <1>0, <2>1, <2>2, AnsweredStep
<1>2. ASSUME NEW r \in net, ServeActivate(r)
      PROVE  AutosaveInv'
  <2>1. /\ net' = Answer(r, TRUE) /\ r.answer = Nil /\ r.op = "activate"
        /\ UNCHANGED <<server, ed, made, used>>
        /\ news' = Append(news, Broadcast(r.workflow, server[r.workflow]))
    BY <1>2 DEF ServeActivate
  <2>2. /\ news' \in Seq(Range(news'))
        /\ \A m \in Range(news') : m \in Range(news) \/ m.rev = server[m.workflow].rev
    <3> DEFINE m == Broadcast(r.workflow, server[r.workflow])
    <3>1. m.rev = server[m.workflow].rev
      BY DEF Broadcast
    <3>2. news' = Append(news, m)
      BY <2>1
    <3> HIDE DEF m
    <3> QED
      BY <3>1, <3>2, NewsSent DEF AutosaveInv
  <2> QED
    BY <1>0, <2>1, <2>2, AnsweredStep
<1> QED
  BY <1>1, <1>2, ServePutStep, ServeModeStep DEF Serve

-----------------------------------------------------------------------------
(* The saves: one is sent, tried again, or ends.                            *)

LEMMA HeadPlace ==
  ASSUME AutosaveInv, NEW r \in net, IsSave(r), r.waiting
  PROVE  /\ PlaceOf(r) = 1 /\ r.workflow \in Workflow
         /\ ed.chains[r.workflow] # <<>> /\ ed.chains[r.workflow][1].turn = r.turn
<1> DEFINE c == ed.chains[r.workflow]
<1>1. r.workflow \in Workflow /\ made.turn \in Nat
  BY DEF AutosaveInv, Shapes, EditorShape, RequestShape, WellFormed
<1>2. c # <<>> /\ c[1].turn = r.turn
  BY DEF AutosaveInv, Chains, HeadsOnly
<1>3. Ordered(c, made.turn)
  BY <1>1 DEF AutosaveInv, Chains, ChainsOrdered
<1>4. DOMAIN c = 1 .. Len(c) /\ Len(c) \in Nat /\ 1 \in DOMAIN c
  BY <1>1, <1>2, <1>3, OrderedNumbers
<1>5. ASSUME NEW i \in DOMAIN c, c[i].turn = r.turn
      PROVE  i = 1
  <2>1. 1 < i => c[1].turn < c[i].turn
    BY <1>3, <1>4 DEF Ordered
  <2>2. c[1].turn \in Int /\ c[i].turn \in Int
    BY <1>3, <1>4 DEF Ordered
  <2>3. i \in Int /\ 1 <= i
    BY <1>4
  <2> QED
    BY <1>2, <1>5, <2>1, <2>2, <2>3
<1> HIDE DEF c
<1>6. PlaceOf(r) = 1
  BY <1>2, <1>4, <1>5 DEF PlaceOf, c
<1> QED
  BY <1>1, <1>2, <1>6 DEF c

LEMMA GoesOnStep ==
  ASSUME AutosaveInv, NEW w \in Workflow, ed.chains[w] # <<>>,
         NEW x, x # "queued",
         DOMAIN ed' = DOMAIN ed, ed'.active = ed.active, ed'.leaving = ed.leaving,
         ed'.chains = [ed.chains EXCEPT ![w][1].step = x],
         DOMAIN ed'.known = Workflow,
         used.switch = 0 => ed'.known[First] \in 0 .. server[First].rev,
         UNCHANGED <<server, news, made, used>>,
         NEW q, WellFormed(q), IsSave(q), q.waiting, q.workflow = w,
         q.turn = ed.chains[w][1].turn, used.switch = 0 => Timely(q),
         \A r \in net' : r = q \/ (r \in net /\ ~(IsSave(r) /\ r.waiting /\ r.workflow = w))
  PROVE  AutosaveInv'
<1>1. Shapes'
  BY DEF AutosaveInv, Shapes, EditorShape, ServerShape, RequestShape, WellFormed
<1>2. Chains'
  BY ChainsStep DEF AutosaveInv
<1>3. AtHome'
  <2>1. DOMAIN ed.chains = Workflow
    BY DEF AutosaveInv, Shapes, EditorShape
  <2>2. used.switch = 0 => w = First
    BY DEF AutosaveInv, AtHome
  <2> QED
    BY <2>1, <2>2 DEF AutosaveInv, AtHome
<1>4. RevisionsBehind'
  BY DEF AutosaveInv, RevisionsBehind, NotAhead, Timely
<1> QED
  BY <1>1, <1>2, <1>3, <1>4 DEF AutosaveInv

LEMMA EndsStep ==
  ASSUME AutosaveInv, NEW w \in Workflow, ed.chains[w] # <<>>,
         DOMAIN ed' = DOMAIN ed, ed'.active = ed.active, ed'.leaving = ed.leaving,
         ed'.chains = [ed.chains EXCEPT ![w] = RemoveAt(@, 1)],
         DOMAIN ed'.known = Workflow,
         used.switch = 0 => ed'.known[First] \in 0 .. server[First].rev,
         UNCHANGED <<server, news, made>>, UsedShape, used'.switch = used.switch,
         \A r \in net' :
           \/ r \in net /\ ~(IsSave(r) /\ r.waiting /\ r.workflow = w)
           \/ /\ WellFormed(r) /\ ~r.waiting /\ r.workflow = w
              /\ r.turn = ed.chains[w][1].turn /\ (used.switch = 0 => Timely(r))
  PROVE  AutosaveInv'
<1>1. Shapes'
  BY DEF AutosaveInv, Shapes, EditorShape, ServerShape, RequestShape, WellFormed, UsedShape
<1>2. Chains'
  BY ChainsEnd DEF AutosaveInv
<1>3. AtHome'
  <2>1. DOMAIN ed.chains = Workflow
    BY DEF AutosaveInv, Shapes, EditorShape
  <2>2. used.switch = 0 => w = First
    BY DEF AutosaveInv, AtHome
  <2> QED
    BY <2>1, <2>2 DEF AutosaveInv, AtHome
<1>4. RevisionsBehind'
  BY DEF AutosaveInv, RevisionsBehind, NotAhead, Timely
<1> QED
  BY <1>1, <1>2, <1>3, <1>4 DEF AutosaveInv

LEMMA StartStep ==
  ASSUME AutosaveInv, NEW w \in Workflow, StartSave(w)
  PROVE  AutosaveInv'
<1>0. DOMAIN ed = {"active", "raw", "canvas", "rev", "known", "mode", "label", "pending",
                   "chains", "undo", "redo", "leaving", "shows", "lost"}
      /\ DOMAIN ed.known = Workflow /\ made.turn \in Nat
  BY DEF AutosaveInv, Shapes, EditorShape
<1> DEFINE s == ed.chains[w][1]
           q == Request("put", w, revisionOf(w), s)
<1>1. /\ 1 \in DOMAIN ed.chains[w] /\ s.step = "queued"
      /\ ed' = [ed EXCEPT !.chains[w][1].step = "saving"] /\ net' = net \cup {q}
      /\ UNCHANGED <<server, news, made, used>>
  BY DEF StartSave, Ready
<1>2. ed.chains[w] # <<>>
  BY <1>1
<1>3. s.turn \in 0 .. made.turn /\ s.turn \in Turns(ed.chains[w])
  BY <1>0, <1>1 DEF AutosaveInv, Chains, ChainsOrdered, Ordered, Turns
<1>4. /\ DOMAIN ed' = DOMAIN ed /\ ed'.active = ed.active /\ ed'.leaving = ed.leaving
      /\ ed'.chains = [ed.chains EXCEPT ![w][1].step = "saving"] /\ ed'.known = ed.known
  BY <1>0, <1>1
<1>5. \A r \in net : ~(IsSave(r) /\ r.waiting /\ r.workflow = w)
  BY <1>1 DEF AutosaveInv, Chains, HeadsOnly
<1> HIDE DEF s
<1>6. /\ WellFormed(q) /\ q.op = "put" /\ q.workflow = w /\ q.rev = revisionOf(w)
      /\ q.turn = s.turn /\ q.waiting /\ q.answer = Nil
  BY <1>0, <1>3 DEF Request, WellFormed
<1> HIDE DEF q
<1>7. ASSUME used.switch = 0
      PROVE  Timely(q) /\ ed.known[First] \in 0 .. server[First].rev
  <2>1. w = First /\ ed.known[First] \in 0 .. server[First].rev
    BY <1>2, <1>7 DEF AutosaveInv, AtHome, RevisionsBehind
  <2>2. revisionOf(w) = ed.known[First]
    BY <2>1, AutosaveAssumption DEF revisionOf
  <2>3. server[First].turn <= s.turn
    BY <1>3, <2>1 DEF AutosaveInv, Chains, SentFirst
  <2> QED
    BY <1>6, <2>1, <2>2, <2>3 DEF Timely
<1>8. \A r \in net' : r = q \/ (r \in net /\ ~(IsSave(r) /\ r.waiting /\ r.workflow = w))
  BY <1>1, <1>5
<1> QED
  BY <1>0, <1>1, <1>2, <1>4, <1>6, <1>7, <1>8, GoesOnStep DEF IsSave, s

LEMMA OnlyOne ==
  ASSUME AutosaveInv, NEW r \in net, IsSave(r), r.waiting, NEW p \in net, p # r
  PROVE  ~(IsSave(p) /\ p.waiting /\ p.workflow = r.workflow)
BY DEF AutosaveInv, Chains, HeadsOnly

LEMMA GetStep ==
  ASSUME AutosaveInv, NEW r \in net, GetAnswered(r)
  PROVE  AutosaveInv'
<1> DEFINE w == r.workflow
           q == [r EXCEPT !.op = "put", !.rev = r.answer.rev, !.answer = Nil]
<1>0. /\ DOMAIN ed = {"active", "raw", "canvas", "rev", "known", "mode", "label", "pending",
                      "chains", "undo", "redo", "leaving", "shows", "lost"}
      /\ DOMAIN ed.known = Workflow /\ made.turn \in Nat /\ WellFormed(r)
  BY DEF AutosaveInv, Shapes, EditorShape, RequestShape
<1>1. /\ r.op = "get" /\ r.waiting /\ r.answer # Nil
      /\ ed' = [Stepped(r, "retrying") EXCEPT !.known[w] = r.answer.rev]
      /\ net' = (net \ {r}) \cup {q} /\ UNCHANGED <<server, news, made, used>>
  BY DEF GetAnswered
<1>2. PlaceOf(r) = 1 /\ w \in Workflow /\ ed.chains[w] # <<>> /\ ed.chains[w][1].turn = r.turn
  BY <1>1, HeadPlace DEF IsSave
<1>3. /\ DOMAIN ed' = DOMAIN ed /\ ed'.active = ed.active /\ ed'.leaving = ed.leaving
      /\ ed'.chains = [ed.chains EXCEPT ![w][1].step = "retrying"]
      /\ ed'.known = [ed.known EXCEPT ![w] = r.answer.rev]
  BY <1>0, <1>1, <1>2 DEF Stepped
<1>4. /\ WellFormed(q) /\ q.op = "put" /\ q.workflow = w /\ q.rev = r.answer.rev
      /\ q.turn = r.turn /\ q.waiting /\ q.answer = Nil
  BY <1>0, <1>1 DEF WellFormed
<1> HIDE DEF q
<1>5. ASSUME used.switch = 0
      PROVE  Timely(q) /\ ed'.known[First] \in 0 .. server[First].rev
  <2>1. w = First /\ Timely(r)
    BY <1>5 DEF AutosaveInv, AtHome, RevisionsBehind
  <2>2. r.answer.rev \in 0 .. server[First].rev
    BY <1>1, <2>1 DEF Timely
  <2>3. r.turn \in Turns(ed.chains[w])
    BY <1>0, <1>2, OrderedNumbers DEF AutosaveInv, Chains, ChainsOrdered
  <2>4. server[First].turn <= r.turn
    BY <1>2, <2>1, <2>3 DEF AutosaveInv, Chains, SentFirst
  <2> QED
    BY <1>0, <1>2, <1>3, <1>4, <2>1, <2>2, <2>4 DEF Timely
<1>6. \A p \in net' : p = q \/ (p \in net /\ ~(IsSave(p) /\ p.waiting /\ p.workflow = w))
  BY <1>1, OnlyOne DEF IsSave
<1>7. DOMAIN ed'.known = Workflow
  BY <1>0, <1>3
<1> HIDE DEF w
<1> QED
  BY <1>1, <1>2, <1>3, <1>4, <1>5, <1>6, <1>7, GoesOnStep DEF IsSave

LEMMA SavedEnds ==
  ASSUME AutosaveInv, NEW r \in net, IsSave(r), r.waiting, ed' = Saved(r)
  PROVE  /\ DOMAIN ed' = DOMAIN ed /\ ed'.active = ed.active /\ ed'.leaving = ed.leaving
         /\ ed'.chains = [ed.chains EXCEPT ![r.workflow] = RemoveAt(@, 1)]
         /\ DOMAIN ed'.known = Workflow /\ ed'.known[r.workflow] = r.answer.rev
<1> DEFINE e == [Ended(ed, r) EXCEPT !.known[r.workflow] = r.answer.rev]
           f == SetRevision(e, r.answer.rev)
<1>0. DOMAIN ed = {"active", "raw", "canvas", "rev", "known", "mode", "label", "pending",
                   "chains", "undo", "redo", "leaving", "shows", "lost"}
      /\ DOMAIN ed.known = Workflow /\ ed.active \in Workflow
  BY DEF AutosaveInv, Shapes, EditorShape
<1>1. PlaceOf(r) = 1 /\ r.workflow \in Workflow
  BY HeadPlace
<1>2. /\ DOMAIN e = DOMAIN ed /\ e.active = ed.active /\ e.leaving = ed.leaving
      /\ e.chains = [ed.chains EXCEPT ![r.workflow] = RemoveAt(@, 1)]
      /\ DOMAIN e.known = Workflow /\ e.known[r.workflow] = r.answer.rev
  BY <1>0, <1>1 DEF Ended
<1>3. CASE r.workflow # e.active
  BY <1>2, <1>3 DEF Saved
<1>4. CASE r.workflow = e.active
  <2>1. ed' = [f EXCEPT !.raw = r.doc, !.canvas = r.doc, !.label = "Saved",
                        !.shows = SaveOf(r).of, !.lost = FALSE]
    BY <1>4 DEF Saved
  <2> HIDE DEF e
  <2>2. /\ DOMAIN f = DOMAIN e /\ f.active = e.active /\ f.leaving = e.leaving
        /\ f.chains = e.chains /\ DOMAIN f.known = Workflow
        /\ f.known[r.workflow] = r.answer.rev
    BY <1>0, <1>2, <1>4 DEF SetRevision
  <2> HIDE DEF f
  <2>3. /\ DOMAIN ed' = DOMAIN f /\ ed'.active = f.active /\ ed'.leaving = f.leaving
        /\ ed'.chains = f.chains /\ ed'.known = f.known
    BY <1>0, <1>2, <2>1, <2>2
  <2> QED
    BY <1>2, <2>2, <2>3
<1> QED
  BY <1>3, <1>4

LEMMA FailedEnds ==
  ASSUME AutosaveInv, NEW r \in net, IsSave(r), r.waiting, ed' = Failed(r)
  PROVE  /\ DOMAIN ed' = DOMAIN ed /\ ed'.active = ed.active /\ ed'.leaving = ed.leaving
         /\ ed'.chains = [ed.chains EXCEPT ![r.workflow] = RemoveAt(@, 1)]
         /\ ed'.known = ed.known
<1>0. DOMAIN ed = {"active", "raw", "canvas", "rev", "known", "mode", "label", "pending",
                   "chains", "undo", "redo", "leaving", "shows", "lost"}
  BY DEF AutosaveInv, Shapes, EditorShape
<1>1. PlaceOf(r) = 1
  BY HeadPlace
<1> DEFINE e == [Ended(ed, r) EXCEPT !.canvas.edges = {x \in @ : x # SaveOf(r).edge}]
<1>2. /\ DOMAIN e = DOMAIN ed /\ e.active = ed.active /\ e.leaving = ed.leaving
      /\ e.chains = [ed.chains EXCEPT ![r.workflow] = RemoveAt(@, 1)]
      /\ e.known = ed.known
  BY <1>0, <1>1 DEF Ended
<1>3. ed' = e \/ ed' = [e EXCEPT !.label = "Save failed", !.lost = TRUE]
  BY DEF Failed
<1> HIDE DEF e
<1> QED
  BY <1>0, <1>2, <1>3

LEMMA PutStep ==
  ASSUME AutosaveInv, NEW r \in net, PutAnswered(r)
  PROVE  AutosaveInv'
<1> DEFINE w == r.workflow
<1>0. /\ DOMAIN ed = {"active", "raw", "canvas", "rev", "known", "mode", "label", "pending",
                      "chains", "undo", "redo", "leaving", "shows", "lost"}
      /\ DOMAIN ed.known = Workflow /\ WellFormed(r) /\ UsedShape
      /\ First \in Workflow
  BY AutosaveAssumption DEF AutosaveInv, Shapes, EditorShape, RequestShape, UsedShape,
     PutAnswered
<1>1. /\ r.op = "put" /\ r.waiting /\ r.answer # Nil /\ IsSave(r)
      /\ UNCHANGED <<server, news, made, used>>
  BY DEF PutAnswered, IsSave
<1>2. PlaceOf(r) = 1 /\ w \in Workflow /\ ed.chains[w] # <<>> /\ ed.chains[w][1].turn = r.turn
  BY <1>1, HeadPlace
<1>3. used.switch = 0 => /\ w = First /\ r.answer.rev \in 0 .. server[First].rev
                         /\ ed.known[First] \in 0 .. server[First].rev
  BY <1>1 DEF AutosaveInv, AtHome, RevisionsBehind, Timely
<1>4. CASE ed' = Saved(r) /\ net' = net \ {r}
  <2>1. /\ DOMAIN ed' = DOMAIN ed /\ ed'.active = ed.active /\ ed'.leaving = ed.leaving
        /\ ed'.chains = [ed.chains EXCEPT ![w] = RemoveAt(@, 1)]
        /\ DOMAIN ed'.known = Workflow /\ ed'.known[w] = r.answer.rev
    BY <1>1, <1>4, SavedEnds
  <2>2. \A p \in net' : p \in net /\ ~(IsSave(p) /\ p.waiting /\ p.workflow = w)
    BY <1>1, <1>4, OnlyOne
  <2>3. used.switch = 0 => ed'.known[First] \in 0 .. server[First].rev
    BY <1>3, <2>1
  <2> HIDE DEF w
  <2> QED
    BY <1>0, <1>1, <1>2, <2>1, <2>2, <2>3, EndsStep
<1>5. CASE ed' = Failed(r) /\ net' = net \ {r}
  <2>1. /\ DOMAIN ed' = DOMAIN ed /\ ed'.active = ed.active /\ ed'.leaving = ed.leaving
        /\ ed'.chains = [ed.chains EXCEPT ![w] = RemoveAt(@, 1)]
        /\ ed'.known = ed.known
    BY <1>1, <1>5, FailedEnds
  <2>2. \A p \in net' : p \in net /\ ~(IsSave(p) /\ p.waiting /\ p.workflow = w)
    BY <1>1, <1>5, OnlyOne
  <2>3. used.switch = 0 => ed'.known[First] \in 0 .. server[First].rev
    BY <1>3, <2>1
  <2> HIDE DEF w
  <2> QED
    BY <1>0, <1>1, <1>2, <2>1, <2>2, <2>3, EndsStep
<1>6. CASE /\ ed' = LET e == Stepped(r, "reading")
                    IN IF r.workflow = e.active THEN [e EXCEPT !.label = "Conflict"] ELSE e
           /\ net' = (net \ {r}) \cup {[r EXCEPT !.op = "get", !.answer = Nil]}
  <2> DEFINE e == Stepped(r, "reading")
             q == [r EXCEPT !.op = "get", !.answer = Nil]
  <2>1. /\ DOMAIN e = DOMAIN ed /\ e.active = ed.active /\ e.leaving = ed.leaving
        /\ e.chains = [ed.chains EXCEPT ![w][1].step = "reading"] /\ e.known = ed.known
    BY <1>0, <1>2 DEF Stepped
  <2>2. ed' = e \/ ed' = [e EXCEPT !.label = "Conflict"]
    BY <1>6
  <2> HIDE DEF e
  <2>3. /\ DOMAIN ed' = DOMAIN ed /\ ed'.active = ed.active /\ ed'.leaving = ed.leaving
        /\ ed'.chains = [ed.chains EXCEPT ![w][1].step = "reading"] /\ ed'.known = ed.known
    BY <1>0, <2>1, <2>2
  <2>4. /\ WellFormed(q) /\ q.op = "get" /\ q.workflow = w
        /\ q.turn = r.turn /\ q.waiting /\ q.answer = Nil
    BY <1>0, <1>1 DEF WellFormed
  <2>5. net' = (net \ {r}) \cup {q}
    BY <1>6
  <2> HIDE DEF q
  <2>6. \A p \in net' : p = q \/ (p \in net /\ ~(IsSave(p) /\ p.waiting /\ p.workflow = w))
    BY <1>1, <2>5, OnlyOne
  <2>7. Timely(q)
    BY <2>4 DEF Timely
  <2>8. used.switch = 0 => ed'.known[First] \in 0 .. server[First].rev
    BY <1>3, <2>3
  <2>9. /\ DOMAIN ed'.known = Workflow /\ IsSave(q)
        /\ q.turn = ed.chains[w][1].turn /\ "reading" # "queued"
    BY <1>0, <1>2, <2>3, <2>4 DEF IsSave
  <2> HIDE DEF w
  <2> QED
    BY <1>1, <1>2, <2>3, <2>4, <2>6, <2>7, <2>8, <2>9, GoesOnStep
<1> QED
  BY <1>4, <1>5, <1>6 DEF PutAnswered

LEMMA TimeOutStep ==
  ASSUME AutosaveInv, NEW r \in net, TimeOut(r)
  PROVE  AutosaveInv'
<1> DEFINE w == r.workflow
           q == [r EXCEPT !.waiting = FALSE]
<1>0. /\ DOMAIN ed = {"active", "raw", "canvas", "rev", "known", "mode", "label", "pending",
                      "chains", "undo", "redo", "leaving", "shows", "lost"}
      /\ DOMAIN ed.known = Workflow /\ WellFormed(r) /\ MadeShape
  BY DEF AutosaveInv, Shapes, EditorShape, RequestShape, MadeShape, TimeOut
<1>1. /\ r.waiting /\ Spend("timeout") /\ UNCHANGED <<server, news, made>>
      /\ \/ net' = net \ {r}
         \/ r.op \in {"put", "mode"} /\ r.answer = Nil /\ net' = (net \ {r}) \cup {q}
  BY DEF TimeOut
<1>2. UsedShape /\ used'.switch = used.switch
  BY <1>1, BoundNames, SpendType DEF AutosaveInv, UsedShape
<1>3. /\ WellFormed(q) /\ q.op = r.op /\ q.workflow = w /\ q.rev = r.rev
      /\ q.turn = r.turn /\ ~q.waiting /\ q.answer = r.answer
  BY <1>0 DEF WellFormed
<1> HIDE DEF q
<1>4. CASE r.op \in {"put", "get"}
  <2>1. ed' = Failed(r)
    BY <1>4 DEF TimeOut
  <2>2. /\ DOMAIN ed' = DOMAIN ed /\ ed'.active = ed.active /\ ed'.leaving = ed.leaving
        /\ ed'.chains = [ed.chains EXCEPT ![w] = RemoveAt(@, 1)]
        /\ ed'.known = ed.known
    BY <1>1, <1>4, <2>1, FailedEnds DEF IsSave
  <2>3. w \in Workflow /\ ed.chains[w] # <<>> /\ ed.chains[w][1].turn = r.turn
    BY <1>1, <1>4, HeadPlace DEF IsSave
  <2>4. used.switch = 0 => Timely(q) /\ ed'.known[First] \in 0 .. server[First].rev
    BY <1>3, <2>2 DEF AutosaveInv, RevisionsBehind, Timely
  <2>5. \A p \in net' : \/ p \in net /\ ~(IsSave(p) /\ p.waiting /\ p.workflow = w)
                        \/ p = q
    BY <1>1, <1>4, OnlyOne DEF IsSave
  <2> HIDE DEF w
  <2> QED
    BY <1>0, <1>1, <1>2, <1>3, <2>2, <2>3, <2>4, <2>5, EndsStep
<1>5. CASE r.op \notin {"put", "get"}
  <2>1. SameEditor
    BY <1>0, <1>5 DEF TimeOut, SameEditor
  <2>2. CASE net' = net \ {r}
    BY <1>0, <1>1, <1>2, <2>1, <2>2, UnaskedStep
  <2>3. CASE r.op \in {"put", "mode"} /\ r.answer = Nil /\ net' = (net \ {r}) \cup {q}
    <3>1. used.switch = 0 => q.workflow = First
      BY <1>3 DEF AutosaveInv, AtHome
    <3> QED
      BY <1>0, <1>1, <1>2, <1>3, <1>5, <2>1, <2>3, <3>1, QuietStep
  <2> QED
    BY <1>1, <2>2, <2>3
<1> QED
  BY <1>4, <1>5

-----------------------------------------------------------------------------
(* The inductive invariant, and what follows.                               *)

LEMMA AutosaveStarts ==
  ASSUME AutosaveInit
  PROVE  AutosaveInv
<1>1. First \in Workflow /\ \A w \in Workflow : Stored[w].rev \in Nat
  BY AutosaveAssumption
<1>2. /\ made.turn = 0 /\ net = {} /\ used.switch = 0
      /\ ed.active = First /\ ed.leaving = Nil
      /\ ed.known = [w \in Workflow |-> IF w = First THEN Stored[w].rev ELSE Nil]
      /\ ed.chains = [w \in Workflow |-> <<>>]
      /\ news = <<>>
      /\ server = [w \in Workflow |-> [doc |-> Stored[w].doc, rev |-> Stored[w].rev,
                                       mode |-> Stored[w].mode, turn |-> 0, taken |-> 0]]
  BY BoundNames DEF AutosaveInit
<1>3. Shapes
  <2>1. EditorShape
    BY <1>1, <1>2 DEF AutosaveInit, EditorShape
  <2>2. ServerShape
    BY <1>1, <1>2, NoNews DEF ServerShape
  <2>3. RequestShape
    BY <1>2 DEF RequestShape
  <2> QED
    BY <2>1, <2>2, <2>3 DEF Shapes
<1>4. Chains
  <2>1. \A w \in Workflow : ed.chains[w] = <<>>
    BY <1>2
  <2>2. Turns(<<>>) = {}
    BY DEF Turns
  <2>3. Ordered(<<>>, made.turn)
    BY EmptySeq DEF Ordered
  <2> QED
    BY <1>2, <2>1, <2>2, <2>3
       DEF Chains, ChainsOrdered, ChainsApart, HeadsOnly, AbandonedGone, SentFirst
<1>5. AtHome
  BY <1>2 DEF AtHome
<1>6. RevisionsBehind
  BY <1>1, <1>2, NoNews DEF RevisionsBehind
<1> QED
  BY <1>3, <1>4, <1>5, <1>6 DEF AutosaveInv

LEMMA AutosaveSteps ==
  ASSUME AutosaveInv, [AutosaveNext]_autosaveVars
  PROVE  AutosaveInv'
<1>1. CASE UNCHANGED autosaveVars
  BY <1>1 DEF autosaveVars, AutosaveInv, Shapes, EditorShape, ServerShape, RequestShape,
     WellFormed, Chains, ChainsOrdered, ChainsApart, HeadsOnly, AbandonedGone, SentFirst,
     AtHome, RevisionsBehind, NotAhead, Timely
<1>2. CASE UserActs
  BY <1>2, UserEditsStep, ModeStep, SelectStep DEF UserActs
<1>3. CASE Environment
  BY <1>3, ReloadStep, ShownStep, OtherStep DEF Environment
<1>4. CASE Progress
  <2>1. ASSUME NEW r \in net, Answered(r)
        PROVE  AutosaveInv'
    BY <2>1, PutStep, GetStep, LoadReadStep, LoadDoneStep, ShownStep DEF Answered
  <2> QED
    BY <1>4, <2>1, ServeStep, StartStep, HearStep, HearModeStep, TimerStep, LeaveStep DEF Progress
<1>5. CASE \E r \in net : TimeOut(r)
  BY <1>5, TimeOutStep
<1> QED
  BY <1>1, <1>2, <1>3, <1>4, <1>5 DEF AutosaveNext

(* The saves of a workflow are queued, sent and stored in the order of the  *)
(* calls of persist, in every state.                                        *)
THEOREM AutosaveInductive == AutosaveSpec => []AutosaveInv
<1>1. AutosaveInit => AutosaveInv
  BY AutosaveStarts
<1>2. AutosaveInv /\ [AutosaveNext]_autosaveVars => AutosaveInv'
  BY AutosaveSteps
<1> QED
  BY <1>1, <1>2, PTL DEF AutosaveSpec

(* Only the server's handler of a save changes the turn it has.             *)
LEMMA TurnStored ==
  ASSUME AutosaveInv, [AutosaveNext]_autosaveVars, NEW w \in Workflow,
         server'[w].turn # server[w].turn
  PROVE  \E r \in net : /\ r.op = "put" /\ r.answer = Nil /\ r.workflow = w
                        /\ r.rev = server[w].rev /\ server'[w].turn = r.turn
                        /\ net' = Answer(r, [ok |-> TRUE, rev |-> server'[w].rev])
                        /\ UNCHANGED <<ed, used>>
<1>0. DOMAIN server = Workflow
      /\ \A v \in Workflow : DOMAIN server[v] = {"doc", "rev", "mode", "turn", "taken"}
  BY DEF AutosaveInv, Shapes, ServerShape
<1>1. server' # server
  OBVIOUS
<1>2. CASE \E v \in Workflow : OtherSaves(v)
  <2>1. PICK v \in Workflow : OtherSaves(v)
    BY <1>2
  <2>2. PICK b, p : server' = [server EXCEPT ![v].doc.nodes[b].param = p, ![v].rev = @ + 1]
    BY <2>1 DEF OtherSaves
  <2>3. server'[w].turn = server[w].turn
    BY <1>0, <2>2
  <2> QED
    BY <2>3
<1>3. CASE \E r \in net : ServeMode(r)
  <2>1. PICK r \in net : ServeMode(r)
    BY <1>3
  <2>2. server' = [server EXCEPT ![r.workflow] =
                     [server[r.workflow] EXCEPT !.mode = r.mode, !.rev = @ + 1]]
    BY <2>1 DEF ServeMode
  <2>3. server'[w].turn = server[w].turn
    BY <1>0, <2>2
  <2> QED
    BY <2>3
<1>4. CASE \E r \in net : ServePut(r)
  <2>1. PICK r \in net : ServePut(r)
    BY <1>4
  <2>2. /\ r.op = "put" /\ r.answer = Nil /\ UNCHANGED <<ed, used>>
        /\ server' = [server EXCEPT ![r.workflow] = update(r).now]
        /\ net' = Answer(r, [ok |-> update(r).ok, rev |-> update(r).now.rev])
    BY <2>1 DEF ServePut
  <2>3. r.workflow = w /\ server'[w] = update(r).now
    BY <1>0, <2>2
  <2>4. r.rev = server[w].rev
    BY <2>3 DEF update
  <2>5. update(r).ok = TRUE /\ update(r).now.turn = r.turn
    BY <2>3, <2>4 DEF update
  <2> QED
    BY <2>2, <2>3, <2>4, <2>5
<1>5. CASE server' = server
  BY <1>1, <1>5
<1>6. \/ server' = server
      \/ \E v \in Workflow : OtherSaves(v)
      \/ \E r \in net : ServeMode(r) \/ ServePut(r)
  BY DEF AutosaveNext, autosaveVars, UserActs, UserEdits, Environment, Progress, Serve,
     Answered, addBlock, duplicateNodeById, confirmDeleteBlock, remove, removeEdge,
     onNodeDragStop, connect, restoreSnapshot, updateNodeDebounced, Edit, changeMode,
     selectWorkflow, Reload, RedrawEdges, ServeGet, ServeActivate, PutAnswered,
     GetAnswered, LoadRead, LoadDone, ModeAnswered, StartSave, HearWorkflow, HearMode,
     ParameterTimer, Leave, TimeOut
<1> QED
  BY <1>2, <1>3, <1>4, <1>5, <1>6

(* A snapshot never overwrites a later one, whatever conflicts, time-outs   *)
(* and late requests there are: with the exception of a save that nobody    *)
(* waits for, after another workflow was opened.                            *)
THEOREM SavesKeepOrder == AutosaveSpec => SavesInOrder
<1>1. ASSUME AutosaveInv, [AutosaveNext]_autosaveVars, NEW w \in Workflow,
             server'[w].turn < server[w].turn
      PROVE  /\ used.switch > 0
             /\ \A p \in net : p.op = "put" /\ p.waiting => p.turn # server'[w].turn
  <2>0. /\ server[w].turn \in Int /\ made.turn \in Nat /\ used.switch \in Nat
        /\ First \in Workflow
    BY <1>1, AutosaveAssumption, BoundNames
       DEF AutosaveInv, Shapes, EditorShape, ServerShape
  <2>1. PICK r \in net : /\ r.op = "put" /\ r.answer = Nil /\ r.workflow = w
                         /\ r.rev = server[w].rev /\ server'[w].turn = r.turn
    <3>1. server'[w].turn # server[w].turn
      <4>1. AutosaveInv'
        BY <1>1, AutosaveSteps
      <4>2. server'[w].turn \in Int
        BY <4>1 DEF AutosaveInv, Shapes, EditorShape, ServerShape
      <4> QED
        BY <1>1, <2>0, <4>2
    <3>2. \E r \in net : /\ r.op = "put" /\ r.answer = Nil /\ r.workflow = w
                         /\ r.rev = server[w].rev /\ server'[w].turn = r.turn
      BY <1>1, <3>1, TurnStored
    <3> QED
      BY <3>2
  <2>2. r.turn < server[w].turn /\ r.turn \in Int /\ r.waiting \in BOOLEAN
    BY <1>1, <2>1 DEF AutosaveInv, Shapes, RequestShape, WellFormed
  <2>3. ASSUME r.waiting
        PROVE  FALSE
    <3>1. ed.chains[w] # <<>> /\ ed.chains[w][1].turn = r.turn
      BY <1>1, <2>1, <2>3, HeadPlace DEF IsSave
    <3>2. r.turn \in Turns(ed.chains[w])
      BY <1>1, <2>0, <3>1, OrderedNumbers DEF AutosaveInv, Chains, ChainsOrdered
    <3>3. server[w].turn <= r.turn
      BY <1>1, <3>2 DEF AutosaveInv, Chains, SentFirst
    <3> QED
      BY <2>0, <2>2, <3>3
  <2>4. ASSUME NEW p \in net, p.op = "put", p.waiting, p.turn = r.turn
        PROVE  FALSE
    <3>1. /\ p.workflow \in Workflow /\ ed.chains[p.workflow] # <<>>
          /\ ed.chains[p.workflow][1].turn = r.turn
      BY <1>1, <2>4, HeadPlace DEF IsSave
    <3>2. r.turn \in Turns(ed.chains[p.workflow])
      BY <1>1, <2>0, <3>1, OrderedNumbers DEF AutosaveInv, Chains, ChainsOrdered
    <3> QED
      BY <1>1, <2>1, <2>3, <3>1, <3>2 DEF AutosaveInv, Chains, AbandonedGone, IsSave
  <2>5. used.switch # 0
    <3> SUFFICES ASSUME used.switch = 0 PROVE FALSE
      OBVIOUS
    <3>1. w = First /\ Timely(r)
      BY <1>1, <2>1 DEF AutosaveInv, AtHome, RevisionsBehind
    <3>2. server[First].turn <= r.turn
      BY <2>1, <3>1 DEF Timely
    <3> QED
      BY <2>0, <2>2, <3>1, <3>2
  <2> QED
    BY <2>0, <2>1, <2>4, <2>5
<1>2. AutosaveInv /\ [AutosaveNext]_autosaveVars => [StepInOrder]_autosaveVars
  BY <1>1 DEF StepInOrder
<1> QED
  BY <1>2, AutosaveInductive, PTL DEF AutosaveSpec, SavesInOrder
=============================================================================
