----------------------------- MODULE StudioStore -----------------------------
(***************************************************************************)
(* What the server keeps on disk and what a restart brings back.           *)
(*                                                                         *)
(* Workflows (workflowManager.ts) and Overview pages (overviewPages.ts)    *)
(* have one file each and an index; a restart loads the files the index    *)
(* names.  A handler changes the memory first, then renames the file into  *)
(* place, then the index.  Switch values (overviewControlStates.ts),       *)
(* definitions (definitionCatalog.ts) and acquisition mappings             *)
(* (acquisitionConfig.ts) have one file each.                              *)
(*                                                                         *)
(* The handlers are synchronous, so a handler is one step; its parameter k *)
(* is the number of file operations that succeeded before one threw.  A    *)
(* crash in the middle of a handler is such a step followed by Restart:    *)
(* the client learns of neither.  What a definition, a page or a workflow  *)
(* contains is abstracted to what the stores themselves look at: a page    *)
(* has a name and its switch elements, a workflow a mode and a content, a  *)
(* definition its owner, type and direction, a mapping its device, type    *)
(* and address.  Revisions, and the requests they refuse, are in           *)
(* OverviewEditor and WorkflowEditor; an update here is an accepted one.    *)
(***************************************************************************)
EXTENDS Integers, FiniteSets

CONSTANTS
  None,          \* no value
  MaxPages,      \* how many page ids are ever issued
  MaxWorkflows,  \* how many workflow ids are ever issued
  MaxTags,       \* how many definition ids are ever issued
  Names,         \* page names
  OtherName,     \* the name of the second page there is at first
  Switch,        \* CONTROL / SWITCH elements a page may hold
  Held,          \* values that an older version left in elements
  MainName,      \* the name of the page made when there is none
  Contents,      \* contents of a workflow
  Legacy,        \* the content of a workflow at first, and of workflow.json
  Device,        \* configured devices
  Addresses,     \* addresses of a mapping
  MaxMappings,   \* ACQUISITION_LIMITS.maxTags
  MaxGroups,     \* ACQUISITION_LIMITS.maxGroupsPerDevice
  MaxOps,        \* bound: handlers that change a store
  MaxFaults,     \* bound: handlers one of whose file operations fails
  MaxRestarts    \* bound: restarts of the server

ASSUME StoreAssumption ==
  /\ {MainName, OtherName} \subseteq Names /\ MainName # OtherName
  /\ Legacy \in Contents /\ Held \subseteq BOOLEAN /\ Held # {}
  /\ MaxPages \in Nat \ {0, 1} /\ MaxWorkflows \in Nat \ {0, 1} /\ MaxTags \in Nat
  /\ {MaxMappings, MaxGroups, MaxOps, MaxFaults, MaxRestarts} \subseteq Nat

VARIABLES
  pages,        \* OverviewPageManager: memory, files, index
  workflows,    \* WorkflowManager: the same
  active,       \* index.ts: activeWorkflowId, and the mode of its `workflow`
  switches,     \* OverviewControlStateStore: memory and file
  definitions,  \* DefinitionCatalog: memory and file
  mappings,     \* AcquisitionConfig: memory and file
  issued,       \* ids issued so far by randomUUID, for each kind
  promised,     \* history: what a restart may find of each page and workflow
  told,         \* history: the last value a PATCH of a switch acknowledged
  armed,        \* history: workflows a request armed since the last restart
  spent         \* the bounds used up

vars == <<pages, workflows, active, switches, definitions, mappings, issued,
          promised, told, armed, spent>>

PageId == 1..MaxPages
WorkflowId == 1..MaxWorkflows
TagId == 1..MaxTags
Modes == {"DESIGN", "LIVE_LOCKED", "LIVE_ARMED"}
Types == {"Boolean", "Number"}

(* The switch elements of a page, and the controlState that an element of  *)
(* an older version holds; a PUT keeps what its elements hold.              *)
OverviewElementStub == UNION {[S -> Held \cup {None}] : S \in SUBSET Switch}

(* What is kept: in memory, and in a file of its own or of them all.       *)
OverviewPageDefinition == [name : Names, elements : OverviewElementStub]
WorkflowDefinition == [mode : Modes, content : Contents]
OverviewControlState == BOOLEAN

ASSUME NoneAssumption == None \notin WorkflowDefinition

(* What the bodies of the requests can be.                                 *)
createDefinitionSchema ==
  [owner: WorkflowId \cup {None}, type: Types, monitored: BOOLEAN]
updateDefinitionSchema == [type: Types, monitored: BOOLEAN]
acquisitionSchema == [device: Device, type: Types, address: Addresses, enabled: BOOLEAN]

Items(ids, T) == [ids -> T \cup {None}]
Filed(ids, T) == [memory : Items(ids, T), files : Items(ids, T), index : SUBSET ids]
Single(ids, T) == [memory : Items(ids, T), file : Items(ids, T)]

TypeOK ==
  /\ pages \in Filed(PageId, OverviewPageDefinition)
  /\ workflows \in Filed(WorkflowId, WorkflowDefinition)
  /\ active \in [id : WorkflowId, mode : Modes]
  /\ switches \in Single(PageId \X Switch, OverviewControlState)
  /\ definitions \in Single(TagId, createDefinitionSchema)
  /\ mappings \in Single(TagId, acquisitionSchema)
  /\ issued \in [pages : 0..MaxPages, workflows : 0..MaxWorkflows, tags : Nat]
  /\ promised \in [pages : [PageId -> SUBSET (OverviewPageDefinition \cup {None})],
                  workflows : [WorkflowId -> SUBSET (WorkflowDefinition \cup {None})]]
  /\ told \in Items(PageId \X Switch, OverviewControlState)
  /\ armed \subseteq WorkflowId
  /\ spent \in [ops : Nat, faults : Nat, restarts : Nat]

-----------------------------------------------------------------------------
(* A store with a file for each item and an index of the items in memory.  *)

Listed(store) == {i \in DOMAIN store.memory : store.memory[i] # None}

(* Mutant: a rename is thought to be kept by the index, which has the name. *)
IndexOnly(store, i, v, k) ==
  LET memory == [store.memory EXCEPT ![i] = v]
  IN  [memory |-> memory,
       files  |-> IF k >= 1 /\ (store.memory[i] = None \/ v = None)
                    THEN [store.files EXCEPT ![i] = v] ELSE store.files,
       index  |-> IF k >= 2 THEN {j \in DOMAIN memory : memory[j] # None} ELSE store.index]

(* The item i is given the value v, or removed when v is None; k of the two *)
(* file operations succeed.                                                 *)
Put(store, i, v, k) ==
  LET memory == [store.memory EXCEPT ![i] = v]
  IN  [memory |-> memory,
       files  |-> IF k >= 1 THEN [store.files EXCEPT ![i] = v] ELSE store.files,
       index  |-> IF k >= 2 THEN {j \in DOMAIN memory : memory[j] # None} ELSE store.index]

(* The items a start loads.  The index is in the order of creation, which  *)
(* is that of the ids here; the file of item `bad` cannot be read, and the *)
(* catch around the loop keeps the items before it.                        *)
Readable(store, bad) == {i \in store.index : store.files[i] # None /\ i < bad}
Loaded(store, bad) ==
  [i \in DOMAIN store.files |->
     IF i \in Readable(store, bad) THEN store.files[i] ELSE None]
Whole(store) == Cardinality(DOMAIN store.files) + 1

(* A workflow comes back locked if it was armed. *)
Locked(workflow) ==
  IF workflow # None /\ workflow.mode = "LIVE_ARMED"
    THEN [workflow EXCEPT !.mode = "LIVE_LOCKED"] ELSE workflow
LoadedWorkflows(bad) ==
  [i \in WorkflowId |-> Locked(Loaded(workflows, bad)[i])]

(* A restart may find what an acknowledged operation stored; after one that *)
(* failed it may find that too, or what there was before.                   *)
Promise(kind, i, v, acknowledged) ==
  [promised EXCEPT ![kind][i] = IF acknowledged THEN {v} ELSE @ \cup {v}]

(* A handler is one of MaxOps, and one that fails is one of MaxFaults.     *)
Spends(failed) ==
  /\ failed => spent.faults < MaxFaults
  /\ spent' = [spent EXCEPT !.ops = @ + 1, !.faults = IF failed THEN @ + 1 ELSE @]

-----------------------------------------------------------------------------
(* Overview pages. *)

StorePage(id, page, k) ==
  /\ pages' = Put(pages, id, page, k)
  /\ promised' = Promise("pages", id, page, k = 2)
  /\ Spends(k < 2)
  /\ UNCHANGED <<workflows, active, switches, definitions, mappings, told, armed>>

NameTaken(name, except) ==
  \E other \in Listed(pages) \ except : pages.memory[other].name = name

NewPage(page, k) ==
  /\ issued.pages < MaxPages
  /\ issued' = [issued EXCEPT !.pages = @ + 1]
  /\ StorePage(issued.pages + 1, page, k)

NoElements == [element \in {} |-> None]

CreatePage(name, k) ==
  /\ ~NameTaken(name, {})
  /\ NewPage([name |-> name, elements |-> NoElements], k)

(* A PUT of the revision the client read: any name and elements. *)
UpdatePage(id, name, elements, k) ==
  /\ id \in Listed(pages)
  /\ name # pages.memory[id].name => ~NameTaken(name, {id})
  /\ StorePage(id, [name |-> name, elements |-> elements], k)
  /\ UNCHANGED issued

RenamePage(id, name, k) ==
  /\ id \in Listed(pages)
  /\ UpdatePage(id, name, pages.memory[id].elements, k)

(* The copy gets a name nobody has; its elements have ids of their own, so *)
(* no switch has a record yet.                                             *)
DuplicatePage(id, name, k) ==
  /\ id \in Listed(pages)
  /\ ~NameTaken(name, {})
  /\ NewPage([name |-> name, elements |-> pages.memory[id].elements], k)

(* The store of switch values: a record of a value for a page and element. *)
(* set() puts the previous record back if it cannot write; clearPage()     *)
(* writes only if there were some, and puts nothing back.                  *)
setSwitch(key, value, written) ==
  LET memory == [switches.memory EXCEPT ![key] = value]
  IN  IF written THEN [memory |-> memory, file |-> memory] ELSE switches

withoutPage(id) ==
  [key \in DOMAIN switches.memory |-> IF key[1] = id THEN None ELSE switches.memory[key]]
clearPage(id, written) ==
  [memory |-> withoutPage(id), file |-> IF written THEN withoutPage(id) ELSE switches.file]

(* The file and nothing else comes back with a start.                      *)
load(store) == [store EXCEPT !.memory = store.file]
loadSwitches == load(switches)

(* The answer to a GET of the switch values of a page: of each element that *)
(* is a switch its record, else the controlState it holds.                  *)
effective(id, page, records) ==
  [element \in DOMAIN page.elements |->
     IF records[<<id, element>>] # None THEN records[<<id, element>>]
     ELSE page.elements[element]]

(* The route deletes the page (its file, then the index) and then clears   *)
(* its switch values.                                                      *)
DeletePage(id, k) ==
  LET last == IF withoutPage(id) = switches.memory THEN 2 ELSE 3
  IN  /\ id \in Listed(pages)
      /\ Cardinality(Listed(pages)) > 1
      /\ k <= last
      /\ pages' = Put(pages, id, None, k)
      /\ promised' = Promise("pages", id, None, k = last)
      /\ switches' = IF k < 2 THEN switches ELSE clearPage(id, k = 3)
      /\ Spends(k < last)
      /\ UNCHANGED <<workflows, active, definitions, mappings, issued, told, armed>>

(* PATCH of the value of an element that is a switch of the page.          *)
PatchSwitch(id, element, value, k) ==
  /\ id \in Listed(pages)
  /\ element \in DOMAIN pages.memory[id].elements
  /\ Spends(k < 1)
  /\ switches' = setSwitch(<<id, element>>, value, k = 1)
  /\ told' = IF k = 1 THEN [told EXCEPT ![<<id, element>>] = value] ELSE told
  /\ UNCHANGED <<pages, workflows, active, definitions, mappings, issued, promised, armed>>

-----------------------------------------------------------------------------
(* Workflows.  The runtime of a workflow is WorkflowRuntime's. *)

SaveWorkflow(id, workflow, k, acknowledged) ==
  /\ workflows' = Put(workflows, id, workflow, k)
  /\ promised' = Promise("workflows", id, Locked(workflow), acknowledged)
  /\ Spends(~acknowledged)
  /\ UNCHANGED <<pages, switches, definitions, mappings, told>>

StoreWorkflow(id, workflow, k) == SaveWorkflow(id, workflow, k, k = 2)

NewWorkflow(workflow, k) ==
  /\ issued.workflows < MaxWorkflows
  /\ issued' = [issued EXCEPT !.workflows = @ + 1]
  /\ StoreWorkflow(issued.workflows + 1, workflow, k)
  /\ UNCHANGED <<active, armed>>

CreateWorkflow(content, k) ==
  NewWorkflow([mode |-> "DESIGN", content |-> content], k)

(* A route that has changed the active workflow takes its copy anew; one   *)
(* that threw has not.                                                      *)
Refreshed(id, mode, k) ==
  IF k = 2 /\ id = active.id THEN [active EXCEPT !.mode = mode] ELSE active

(* PUT and POST rename, when the request names no mode. *)
UpdateWorkflow(id, content, k) ==
  /\ id \in Listed(workflows)
  /\ StoreWorkflow(id, [workflows.memory[id] EXCEPT !.content = content], k)
  /\ active' = Refreshed(id, workflows.memory[id].mode, k)
  /\ UNCHANGED <<issued, armed>>

(* POST mode, and a PUT that names one. *)
SetMode(id, content, mode, k) ==
  /\ id \in Listed(workflows)
  /\ StoreWorkflow(id, [mode |-> mode, content |-> content], k)
  /\ active' = Refreshed(id, mode, k)
  /\ armed' = IF mode = "LIVE_ARMED" THEN armed \cup {id}
              ELSE IF k = 2 THEN armed \ {id} ELSE armed
  /\ UNCHANGED issued

(* PUT /api/workflow: the active workflow is given the mode of the copy,   *)
(* and at last workflow.json is written.                                    *)
PutActive(content, k) ==
  /\ active.id \in Listed(workflows)
  /\ SaveWorkflow(active.id, [mode |-> active.mode, content |-> content], k, k = 3)
  /\ UNCHANGED <<active, issued, armed>>

Activate(id) ==
  /\ id \in Listed(workflows)
  /\ active' = [id |-> id, mode |-> workflows.memory[id].mode]
  /\ Spends(FALSE)
  /\ UNCHANGED <<pages, workflows, switches, definitions, mappings, issued, promised, told, armed>>

(* Mutant: the copy keeps the mode of its source. *)
CopyOfMode(workflow) == workflow

CopyOf(workflow) == [workflow EXCEPT !.mode = "DESIGN"]

DuplicateWorkflow(id, k) ==
  /\ id \in Listed(workflows)
  /\ NewWorkflow(CopyOf(workflows.memory[id]), k)

(* first(): the oldest workflow there is becomes the active one.            *)
Oldest(memory) ==
  LET id == CHOOSE i \in WorkflowId :
              memory[i] # None /\ \A j \in WorkflowId : memory[j] # None => i <= j
  IN  [id |-> id, mode |-> memory[id].mode]

DeleteWorkflow(id, k) ==
  /\ id \in Listed(workflows)
  /\ Cardinality(Listed(workflows)) > 1
  /\ StoreWorkflow(id, None, k)
  /\ active' = IF k = 2 /\ id = active.id THEN Oldest(workflows'.memory) ELSE active
  /\ UNCHANGED <<issued, armed>>

-----------------------------------------------------------------------------
(* Definitions and acquisition mappings: the file is written before the    *)
(* memory changes, so a failed write changes nothing.                       *)

(* Mutant: the memory changes before the file is written. *)
CommitMemoryFirst(store, i, v, k) ==
  [memory |-> [store.memory EXCEPT ![i] = v],
   file   |-> IF k = 1 THEN [store.memory EXCEPT ![i] = v] ELSE store.file]

Commit(store, i, v, k) ==
  IF k = 1 THEN [memory |-> [store.memory EXCEPT ![i] = v],
                 file   |-> [store.memory EXCEPT ![i] = v]]
           ELSE store

(* A definition of a workflow that is gone stays on disk but is not seen. *)
Visible(id) ==
  /\ definitions.memory[id] # None
  /\ LET owner == definitions.memory[id].owner
     IN  owner = None \/ owner \in Listed(workflows)

StoreDefinition(id, definition, k) ==
  /\ definitions' = Commit(definitions, id, definition, k)
  /\ Spends(k < 1)
  /\ UNCHANGED <<pages, workflows, active, switches, mappings, promised, told, armed>>

CreateDefinition(body, k) ==
  /\ issued.tags < MaxTags
  /\ body.owner = None \/ body.owner \in Listed(workflows)
  /\ issued' = [issued EXCEPT !.tags = @ + 1]
  /\ StoreDefinition(issued.tags + 1, body, k)

UpdateDefinition(id, body, k) ==
  /\ Visible(id)
  /\ StoreDefinition(id, [definitions.memory[id] EXCEPT !.type = body.type, !.monitored = body.monitored], k)
  /\ UNCHANGED issued

DeleteDefinition(id, k) ==
  /\ Visible(id)
  /\ StoreDefinition(id, None, k)
  /\ UNCHANGED issued

(* buildPollGroups: mappings of one codec are read together only at the    *)
(* same address, for a group is never wider than one value.                 *)
PollGroups(map, device) ==
  {<<m.type, m.address>> :
     m \in {map[i] : i \in {j \in DOMAIN map :
              map[j] # None /\ map[j].enabled /\ map[j].device = device}}}

WithinLimits(map) ==
  /\ Cardinality({i \in DOMAIN map : map[i] # None}) <= MaxMappings
  /\ \A device \in Device : Cardinality(PollGroups(map, device)) <= MaxGroups

(* availability(): a mapping is refused unless its definition can have it. *)
Compatible(mapping, id) ==
  /\ Visible(id)
  /\ definitions.memory[id].owner = None
  /\ definitions.memory[id].type = mapping.type
  /\ definitions.memory[id].monitored

PutMapping(id, mapping, k) ==
  /\ Compatible(mapping, id)
  /\ WithinLimits([mappings.memory EXCEPT ![id] = mapping])
  /\ mappings' = Commit(mappings, id, mapping, k)
  /\ Spends(k < 1)
  /\ UNCHANGED <<pages, workflows, active, switches, definitions, issued, promised, told, armed>>

(* Needs neither the mapping nor its definition. *)
DeleteMapping(id, k) ==
  /\ mappings' = Commit(mappings, id, None, k)
  /\ Spends(k < 1)
  /\ UNCHANGED <<pages, workflows, active, switches, definitions, issued, promised, told, armed>>

-----------------------------------------------------------------------------
(* A restart: the five constructors, in the order index.ts calls them.      *)

(* downgradeArmed: after the load, every armed workflow is locked and saved. *)
Downgraded(store) ==
  LET memory == [i \in DOMAIN store.memory |-> Locked(store.memory[i])]
  IN  IF memory = store.memory THEN store
      ELSE [memory |-> memory,
            files  |-> [i \in DOMAIN memory |->
                          IF memory[i] # store.memory[i] THEN memory[i] ELSE store.files[i]],
            index  |-> Listed(store)]

(* Without a workflow, the single workflow of the older format is migrated; *)
(* without a page, one is made.                                              *)
Seeded(store, memory, seed, id) ==
  LET loaded == [store EXCEPT !.memory = memory]
  IN  IF Listed(loaded) = {} THEN Put(loaded, id, seed, 2) ELSE loaded

MainPage == [name |-> MainName, elements |-> NoElements]

(* What workflow.json can hold, locked when it is loaded and when it is    *)
(* migrated: PUT /api/workflow and the removal of a device save the active *)
(* workflow there with its mode, and any can have been active.              *)
Migrations == {Locked([mode |-> mode, content |-> Legacy]) : mode \in Modes}

(* What was loaded is what there is.  An item the load did not reach may   *)
(* come back at the next start, or go with the next index.                 *)
Reloaded(old, new, i, found) ==
  IF new.memory[i] # None THEN {new.memory[i]}
  ELSE IF i \in Readable(old, Whole(old)) THEN {found, None} ELSE {None}

(* The file of workflow badWorkflow, of page badPage cannot be read (none,  *)
(* if they are Whole).  Mappings beyond the limits keep the server down.    *)
Restart(badWorkflow, badPage, migrated) ==
  LET unread == (IF badWorkflow < Whole(workflows) THEN 1 ELSE 0)
                  + (IF badPage < Whole(pages) THEN 1 ELSE 0)
      seedW  == \A i \in WorkflowId : LoadedWorkflows(badWorkflow)[i] = None
      seedP  == \A i \in PageId : Loaded(pages, badPage)[i] = None
  IN  /\ spent.restarts < MaxRestarts
      /\ spent.faults + unread <= MaxFaults
      /\ spent' = [spent EXCEPT !.restarts = @ + 1, !.faults = @ + unread]
      /\ WithinLimits(mappings.file)
      /\ seedW => issued.workflows < MaxWorkflows
      /\ seedP => issued.pages < MaxPages
      /\ workflows' = Downgraded(Seeded(workflows, LoadedWorkflows(badWorkflow),
                                        migrated, issued.workflows + 1))
      /\ active' = Oldest(workflows'.memory)
      /\ pages' = Seeded(pages, Loaded(pages, badPage), MainPage, issued.pages + 1)
      /\ switches' = loadSwitches
      /\ definitions' = load(definitions)
      /\ mappings' = load(mappings)
      /\ issued' = [issued EXCEPT !.workflows = IF seedW THEN @ + 1 ELSE @,
                                  !.pages = IF seedP THEN @ + 1 ELSE @]
      /\ promised' =
           [workflows |-> [i \in WorkflowId |->
              Reloaded(workflows, workflows', i, Locked(workflows.files[i]))],
            pages |-> [i \in PageId |-> Reloaded(pages, pages', i, pages.files[i])]]
      /\ armed' = {}
      /\ UNCHANGED told

-----------------------------------------------------------------------------
Nothing(keys) == [memory |-> [key \in keys |-> None], file |-> [key \in keys |-> None]]

(* A start on a data directory with two workflows, two pages, one of them  *)
(* with switches of an older version that nobody has set since, and the    *)
(* definition of one number.                                                *)
InitialPages ==
  [i \in PageId |-> CASE i = 1 -> [name |-> MainName,
                                   elements |-> [element \in Switch |-> CHOOSE held \in Held : TRUE]]
                      [] i = 2 -> [name |-> OtherName, elements |-> NoElements]
                      [] OTHER -> None]
MainWorkflow == [mode |-> "DESIGN", content |-> Legacy]
InitialTags ==
  [i \in TagId |->
     IF i = 1 THEN [owner |-> None, type |-> "Number", monitored |-> TRUE] ELSE None]
InitialWorkflows == [i \in WorkflowId |-> IF i <= 2 THEN MainWorkflow ELSE None]

Init ==
  /\ pages = [memory |-> InitialPages, files |-> InitialPages, index |-> {1, 2}]
  /\ workflows = [memory |-> InitialWorkflows, files |-> InitialWorkflows, index |-> {1, 2}]
  /\ active = [id |-> 1, mode |-> "DESIGN"]
  /\ switches = Nothing(PageId \X Switch)
  /\ definitions = [memory |-> InitialTags, file |-> InitialTags]
  /\ mappings = Nothing(TagId)
  /\ issued = [pages |-> 2, workflows |-> 2, tags |-> 1]
  /\ promised = [pages |-> [i \in PageId |-> {InitialPages[i]}],
                 workflows |-> [i \in WorkflowId |-> {InitialWorkflows[i]}]]
  /\ told = [key \in PageId \X Switch |-> None]
  /\ armed = {}
  /\ spent = [ops |-> 0, faults |-> 0, restarts |-> 0]

PageSteps ==
  \E k \in 0..3 :
    \/ \E id \in PageId : DeletePage(id, k)
    \/ k <= 2 /\ \E name \in Names :
         \/ CreatePage(name, k)
         \/ \E id \in PageId :
              \/ RenamePage(id, name, k)
              \/ DuplicatePage(id, name, k)
              \/ \E elements \in OverviewElementStub : UpdatePage(id, name, elements, k)
    \/ k <= 1 /\ \E id \in PageId, element \in Switch, value \in BOOLEAN :
         PatchSwitch(id, element, value, k)

WorkflowSteps ==
  \E k \in 0..3 :
    \/ \E content \in Contents : PutActive(content, k)
    \/ k <= 2 /\ \E content \in Contents :
         \/ CreateWorkflow(content, k)
         \/ \E id \in WorkflowId :
              \/ UpdateWorkflow(id, content, k)
              \/ \E mode \in Modes : SetMode(id, content, mode, k)
    \/ k <= 2 /\ \E id \in WorkflowId :
         \/ DuplicateWorkflow(id, k)
         \/ DeleteWorkflow(id, k)
    \/ k = 0 /\ \E id \in WorkflowId : Activate(id)

DefinitionSteps ==
  \E k \in 0..1 :
    \/ \E body \in createDefinitionSchema : CreateDefinition(body, k)
    \/ \E id \in TagId :
         \/ \E body \in updateDefinitionSchema : UpdateDefinition(id, body, k)
         \/ DeleteDefinition(id, k)

MappingSteps ==
  \E k \in 0..1, id \in TagId :
    \/ \E mapping \in acquisitionSchema : PutMapping(id, mapping, k)
    \/ DeleteMapping(id, k)

Restarts ==
  \E badWorkflow \in 1..MaxWorkflows + 1, badPage \in 1..MaxPages + 1, migrated \in Migrations :
    Restart(badWorkflow, badPage, migrated)

Requests == spent.ops < MaxOps /\ (PageSteps \/ WorkflowSteps \/ DefinitionSteps \/ MappingSteps)

Next == Requests \/ Restarts

Spec == Init /\ [][Next]_vars

-----------------------------------------------------------------------------
(* At every moment, a restart that can read its files would find of each   *)
(* page and each workflow what the last acknowledged request left, or what *)
(* a failed one after it tried to store: no acknowledged change is undone  *)
(* and no acknowledged deletion comes back, whichever of the renames, the  *)
(* unlink and the index of the handlers since then failed.  And the pages  *)
(* that come back have the switch values their PATCHes acknowledged        *)
(* (overviewPages.ts 261-309, workflowManager.ts 159-227,                   *)
(* overviewControlStates.ts 90-119).                                        *)
Durable ==
  /\ \A i \in PageId : Loaded(pages, Whole(pages))[i] \in promised.pages[i]
  /\ \A i \in WorkflowId :
       LoadedWorkflows(Whole(workflows))[i] \in promised.workflows[i]
  /\ \A i \in Readable(pages, Whole(pages)), element \in Switch :
       switches.file[<<i, element>>] = told[<<i, element>>]

(* What a client can read of the definitions and the mappings is what the  *)
(* server would have after a restart, also after writes that failed; and   *)
(* that file is one the server starts with, though load refuses mappings   *)
(* beyond the limits.  Of the switches of a page, a read answers the last  *)
(* value that a PATCH acknowledged; and where the last write of the page   *)
(* was acknowledged it answers exactly what it would answer after a        *)
(* restart, the values that elements of an older version hold included.    *)
(* (After a page write that failed, the page in memory, and with it which  *)
(* elements are switches and what those nobody has set hold, is ahead of   *)
(* the disk.)  (definitionCatalog.ts 92-99, acquisitionConfig.ts 59-68 and *)
(* 98-104, overviewControlStates.ts 90-106, overviewControlRoutes.ts 8-25.) *)
ReadsSurvive ==
  /\ definitions.memory = definitions.file
  /\ mappings.memory = mappings.file
  /\ WithinLimits(mappings.file)
  /\ \A i \in Listed(pages) :
       LET answer == effective(i, pages.memory[i], switches.memory)
       IN  /\ \A element \in DOMAIN answer :
                told[<<i, element>>] # None => answer[element] = told[<<i, element>>]
           /\ promised.pages[i] = {pages.memory[i]} =>
                /\ i \in Readable(pages, Whole(pages))
                /\ answer = effective(i, pages.files[i], switches.file)

(* A workflow is armed only if a request named that mode for it since the  *)
(* server started and no change of its mode was acknowledged since: no     *)
(* restart, migration of workflow.json, failed write, copy, change of the  *)
(* active workflow or later change arms one, and neither does the copy of  *)
(* the active workflow that PUT /api/workflow saves (workflowManager.ts    *)
(* 104-178, 191-203; index.ts 17, 28-29, 61-68, 87).                        *)
ArmedOnRequest ==
  \A i \in Listed(workflows) : workflows.memory[i].mode = "LIVE_ARMED" => i \in armed

=============================================================================
