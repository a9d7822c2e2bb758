-------------------------- MODULE WorkflowRuntime --------------------------
(***************************************************************************)
(* server/src/runtimeSessions.ts: the sessions of running workflows, what  *)
(* they read from a device, the commands they write to it, and who owns an *)
(* output resource; with the routes of server/src/index.ts that edit,      *)
(* start, stop and delete workflows and connect the device.                *)
(*                                                                         *)
(* Each workflow has one source node (a Modbus input or a manual trigger)  *)
(* that decides one output node; the blocks between them are the identity. *)
(* A definition is what workflows.get() clones: the closures of pollers,   *)
(* pending reads and one-shot timers keep the clone they began with.       *)
(* Writes are on change and without a minimum interval, the defaults of    *)
(* writeOutput().  Promise continuations run before the next event, so a   *)
(* lost connection fails everything in flight in one step.                 *)
(***************************************************************************)
EXTENDS Naturals, Sequences, FiniteSets

CONSTANTS
  Workflow,       \* workflow ids
  None,           \* absent: no definition, no value, no owner
  Resource,       \* what resourceKey() tells apart
  Definitions,    \* what edits of each workflow may save: [mode, enabled, valid, target]
  SourceOf,       \* the source of each workflow: a reading or a trigger mode
  WriteAtStart,   \* workflows whose initialWritePolicy is not DO_NOT_WRITE_UNTIL_CHANGE
  AllowWrites,    \* ALLOW_WRITES
  Ambiguous,      \* a write that fails may have been carried out
  Deleting,       \* bound: the workflows that may be deleted
  MaxReads,       \* bound: pending reads of a workflow
  MaxWrites       \* bound: queued writes when a workflow is started

Mode == {"DESIGN", "SIMULATION", "LIVE_LOCKED", "LIVE_ARMED"}
LiveMode == {"LIVE_LOCKED", "LIVE_ARMED"}
Source == {"READING", "MOMENTARY", "TOGGLE", "ONE_SHOT"}
Definition == [mode : Mode, enabled : BOOLEAN, valid : BOOLEAN, target : Resource \cup {None}]
Value == BOOLEAN
Write == [wf : Workflow, target : Resource, value : Value, kept : BOOLEAN]

ASSUME RuntimeAssumption ==
  /\ None \notin Workflow /\ None \notin Resource
  /\ None \notin Value /\ None \notin Definition /\ None \notin Write
  /\ Definitions \in [Workflow -> SUBSET Definition]
  /\ SourceOf \in [Workflow -> Source]
  /\ WriteAtStart \subseteq Workflow /\ AllowWrites \in BOOLEAN /\ Ambiguous \in BOOLEAN
  /\ Deleting \subseteq Workflow
  /\ MaxReads \in Nat /\ MaxWrites \in Nat

VARIABLES
  definition,  \* what workflows.get(w) returns (None: deleted)
  session,     \* the session of each workflow: none, running or stopped
  source,      \* nodeRuntime of the source node: its GOOD value, or None
  poll,        \* the definition its poller keeps (None: no poller)
  timer,       \* the definition its one-shot timer keeps (None: no timer)
  reads,       \* its pending reads, each with the definition it keeps
  pending,     \* outputPending has its output node
  written,     \* lastWrittenCommand of its output node (None: not initialized)
  owner,       \* outputOwners
  connected,   \* the device connection's actualState is connected
  writes,      \* writes waiting in the device queue, next one first
  sending,     \* the write on the wire
  register,    \* the values of the resources in the device
  doubted      \* history: see below

saved == <<definition, session, owner>>
values == <<source, poll, timer, reads>>
output == <<pending, written>>
device == <<connected, writes, sending, register>>
vars == <<saved, values, output, device, doubted>>

Kept == Definition \cup {None}

TypeOK ==
  /\ definition \in [Workflow -> Kept]
  /\ session \in [Workflow -> {"none", "running", "stopped"}]
  /\ source \in [Workflow -> Value \cup {None}]
  /\ poll \in [Workflow -> Kept]
  /\ timer \in [Workflow -> Kept]
  /\ reads \in [Workflow -> Seq(Definition)]
  /\ pending \in [Workflow -> BOOLEAN]
  /\ written \in [Workflow -> Value \cup {None}]
  /\ owner \in [Resource -> Workflow \cup {None}]
  /\ connected \in BOOLEAN
  /\ writes \in Seq(Write)
  /\ sending \in Write \cup {None}
  /\ register \in [Resource -> Value]
  /\ doubted \subseteq Workflow

(* Persisted LIVE_ARMED is loaded as LIVE_LOCKED.                          *)
Init ==
  /\ definition \in [Workflow -> UNION {Definitions[w] : w \in Workflow}]
  /\ \A w \in Workflow : definition[w] \in Definitions[w] /\ definition[w].mode # "LIVE_ARMED"
  /\ session = [w \in Workflow |-> "none"]
  /\ source = [w \in Workflow |-> None]
  /\ poll = [w \in Workflow |-> None] /\ timer = [w \in Workflow |-> None]
  /\ reads = [w \in Workflow |-> <<>>]
  /\ pending = [w \in Workflow |-> FALSE] /\ written = [w \in Workflow |-> None]
  /\ owner = [r \in Resource |-> None]
  /\ connected = FALSE /\ writes = <<>> /\ sending = None
  /\ register = [r \in Resource |-> FALSE]
  /\ doubted = {}

Running(w) == session[w] = "running"

(* History: the running workflows whose session took something for the     *)
(* value of its resource that no answered write of it put there, or whose  *)
(* resource may have changed after that without a word to the session.     *)
OnTarget(r) == {w \in Workflow : Running(w) /\ definition[w].target = r}
Moved(w) == IF definition'[w].target # definition[w].target THEN {w} ELSE {}

-----------------------------------------------------------------------------
(* evaluate(), scheduleOutputs(), writeOutput()                            *)

(* With the definition d the source value v is written, unless a write is  *)
(* pending, the resource is another workflow's or v was written last.      *)
Commands(w, d, v) ==
  /\ d.mode = "LIVE_ARMED" /\ AllowWrites
  /\ d.target # None /\ v # None
  /\ ~ pending[w]
  /\ owner'[d.target] \in {None, w}
  /\ written[w] # v
  /\ connected

Evaluate(w, d, v) ==
  \/ /\ ~ Commands(w, d, v) /\ UNCHANGED <<output, writes>>
     /\ doubted' = doubted \cup Moved(w)
  \/ /\ Commands(w, d, v) /\ written[w] = None /\ w \notin WriteAtStart
     /\ written' = [written EXCEPT ![w] = v] /\ doubted' = doubted \cup {w}
     /\ UNCHANGED <<pending, writes>>
  \/ /\ Commands(w, d, v) /\ (written[w] # None \/ w \in WriteAtStart)
     /\ pending' = [pending EXCEPT ![w] = TRUE]
     /\ writes' = <<[wf |-> w, target |-> d.target, value |-> v, kept |-> TRUE]>> \o writes
     /\ UNCHANGED written /\ doubted' = doubted \cup Moved(w)

-----------------------------------------------------------------------------
(* syncPollers(): the workflows of S get the poller their definition asks  *)
(* for, which reads at once.                                               *)

Polled(w, d) == SourceOf[w] = "READING" /\ d.mode \in LiveMode /\ connected'

SyncPollers(S) ==
  LET on == {w \in S : Polled(w, definition'[w])}
  IN  /\ poll' = [w \in Workflow |-> IF w \in on THEN definition'[w]
                                     ELSE IF w \in S THEN None ELSE poll[w]]
      /\ reads' = [w \in Workflow |-> IF w \in on THEN Append(reads[w], definition'[w])
                                      ELSE reads[w]]

ReadsBounded(S) == \A w \in S : Len(reads[w]) < MaxReads

(* Mutant: stopSession() forgets no written command.                       *)
StopBelieving(S) ==
  /\ poll' = [w \in Workflow |-> IF w \in S THEN None ELSE poll[w]]
  /\ timer' = [w \in Workflow |-> IF w \in S THEN None ELSE timer[w]]
  /\ pending' = [w \in Workflow |-> IF w \in S THEN FALSE ELSE pending[w]]
  /\ owner' = [r \in Resource |->
                 IF \E w \in S : definition[w].target = r THEN None ELSE owner[r]]
  /\ doubted' = doubted \ S /\ UNCHANGED written

(* stopSession(): the outputs of the definition are released, whoever owns *)
(* them; requests that are queued or on the wire stay there.               *)
StopSession(S) ==
  /\ poll' = [w \in Workflow |-> IF w \in S THEN None ELSE poll[w]]
  /\ timer' = [w \in Workflow |-> IF w \in S THEN None ELSE timer[w]]
  /\ pending' = [w \in Workflow |-> IF w \in S THEN FALSE ELSE pending[w]]
  /\ written' = [w \in Workflow |-> IF w \in S THEN None ELSE written[w]]
  /\ owner' = [r \in Resource |->
                 IF \E w \in S : definition[w].target = r THEN None ELSE owner[r]]
  /\ doubted' = doubted \ S

-----------------------------------------------------------------------------
(* Routes                                                                  *)

MayStart(w, d) ==
  /\ d.enabled /\ d.mode # "DESIGN"
  /\ d.mode = "LIVE_ARMED" => /\ AllowWrites /\ d.valid
                              /\ d.target # None => owner[d.target] \in {None, w}

(* A session that was stopped is used again: its node values stay.         *)
Start(w) ==
  LET d == definition[w]
  IN  /\ d # None /\ ~ Running(w) /\ MayStart(w, d)
      /\ ReadsBounded({w}) /\ Len(writes) < MaxWrites
      /\ session' = [session EXCEPT ![w] = "running"]
      /\ owner' = [r \in Resource |->
                     IF d.mode = "LIVE_ARMED" /\ d.target = r THEN w ELSE owner[r]]
      /\ source' = [source EXCEPT
                      ![w] = IF SourceOf[w] # "READING" /\ @ = None THEN FALSE ELSE @]
      /\ UNCHANGED <<definition, timer, connected, sending, register>>
      /\ Evaluate(w, d, source'[w])
      /\ SyncPollers({w})

Stop(w) ==
  /\ definition[w] # None
  /\ session' = [session EXCEPT ![w] = IF @ = "none" THEN @ ELSE "stopped"]
  /\ StopSession({w})
  /\ UNCHANGED <<definition, source, reads, device>>

StopAll ==
  LET S == {w \in Workflow : Running(w) /\ definition[w] # None}
  IN  /\ session' = [w \in Workflow |-> IF w \in S THEN "stopped" ELSE session[w]]
      /\ StopSession(S)
      /\ UNCHANGED <<definition, source, reads, device>>

(* The session is stopped and dropped, with its node values, before the    *)
(* manager may refuse to delete the last workflow; continuations keep the  *)
(* dropped session.                                                        *)
Orphaned(x, w) == IF x # None /\ x.wf = w THEN [x EXCEPT !.kept = FALSE] ELSE x

Delete(w) ==
  /\ definition[w] # None
  /\ IF session[w] = "none"
     THEN UNCHANGED <<owner, values, output, writes, sending, doubted>>
     ELSE /\ StopSession({w})
          /\ source' = [source EXCEPT ![w] = None]
          /\ reads' = [reads EXCEPT ![w] = <<>>]
          /\ writes' = [i \in DOMAIN writes |-> Orphaned(writes[i], w)]
          /\ sending' = Orphaned(sending, w)
  /\ session' = [session EXCEPT ![w] = "none"]
  /\ definition' = IF \E x \in Workflow \ {w} : definition[x] # None
                   THEN [definition EXCEPT ![w] = None] ELSE definition
  /\ UNCHANGED <<connected, register>>

(* Mutant: a running session is not refreshed.                             *)
EditOnly(w, d) ==
  /\ definition[w] \notin {None, d}
  /\ definition' = [definition EXCEPT ![w] = d]
  /\ UNCHANGED <<session, owner, values, output, device, doubted>>

(* PUT and mode routes: save, then refresh() a running session.            *)
Edit(w, d) ==
  /\ definition[w] \notin {None, d}
  /\ definition' = [definition EXCEPT ![w] = d]
  /\ UNCHANGED <<session, owner, source, timer, connected, sending, register>>
  /\ IF Running(w)
     THEN ReadsBounded({w}) /\ SyncPollers({w}) /\ Evaluate(w, d, source[w])
     ELSE UNCHANGED <<poll, reads, output, writes, doubted>>

(* manualTrigger()                                                         *)
Triggered(w) ==
  CASE SourceOf[w] = "TOGGLE" -> {~ (source[w] = TRUE)}
    [] SourceOf[w] = "MOMENTARY" -> {TRUE, FALSE}
    [] SourceOf[w] = "ONE_SHOT" -> {TRUE}
    [] SourceOf[w] = "READING" -> {}

ManualTrigger(w, v) ==
  LET d == definition[w]
  IN  /\ d # None /\ Running(w) /\ d.mode # "DESIGN"
      /\ source' = [source EXCEPT ![w] = v]
      /\ timer' = IF SourceOf[w] = "ONE_SHOT" THEN [timer EXCEPT ![w] = d] ELSE timer
      /\ UNCHANGED <<saved, poll, reads, connected, sending, register>>
      /\ Evaluate(w, d, v)

PulseEnds(w) ==
  /\ timer[w] # None
  /\ timer' = [timer EXCEPT ![w] = None]
  /\ source' = [source EXCEPT ![w] = FALSE]
  /\ UNCHANGED <<saved, poll, reads, connected, sending, register>>
  /\ Evaluate(w, timer[w], FALSE)

-----------------------------------------------------------------------------
(* Reads                                                                   *)

(* A poll asks the device, or notes that it is not connected.              *)
PollTick(w) ==
  /\ poll[w] # None /\ ReadsBounded({w})
  /\ IF connected
     THEN reads' = [reads EXCEPT ![w] = Append(@, poll[w])] /\ UNCHANGED source
     ELSE source' = [source EXCEPT ![w] = None] /\ UNCHANGED reads
  /\ UNCHANGED <<saved, poll, timer, output, device, doubted>>

ReadAnswered(w, v) ==
  /\ reads[w] # <<>>
  /\ reads' = [reads EXCEPT ![w] = Tail(@)]
  /\ UNCHANGED <<saved, poll, timer, connected, sending, register>>
  /\ IF Running(w)
     THEN source' = [source EXCEPT ![w] = v] /\ Evaluate(w, Head(reads[w]), v)
     ELSE UNCHANGED <<source, output, writes, doubted>>

(* A failure is noted even in a session that was stopped.                  *)
ReadFails(w) ==
  /\ reads[w] # <<>>
  /\ reads' = [reads EXCEPT ![w] = Tail(@)]
  /\ source' = [source EXCEPT ![w] = None]
  /\ UNCHANGED <<saved, poll, timer, output, device, doubted>>

-----------------------------------------------------------------------------
(* Writes: the device queue sends the latest one first, one at a time.     *)

Transmit ==
  /\ connected /\ sending = None /\ writes # <<>>
  /\ sending' = Head(writes) /\ writes' = Tail(writes)
  /\ UNCHANGED <<saved, values, output, connected, register, doubted>>

CarriedOut == register' = [register EXCEPT ![sending.target] = sending.value]
Untold == CarriedOut /\ doubted' = doubted \cup OnTarget(sending.target)

SettledAnswered(w) == UNCHANGED pending    \* Mutant: the end of a write leaves outputPending.

Settled(w) == pending' = IF sending.kept THEN [pending EXCEPT ![w] = FALSE] ELSE pending

WriteAnswered ==
  /\ sending # None
  /\ CarriedOut /\ Settled(sending.wf)
  /\ LET w == sending.wf
         told == sending.kept /\ Running(w)
         held == definition[w] # None /\ definition[w].target = sending.target
         by == OnTarget(sending.target)
     IN  /\ written' = IF told THEN [written EXCEPT ![w] = sending.value] ELSE written
         /\ doubted' = IF ~ told THEN doubted \cup by
                       ELSE IF held THEN (doubted \cup by) \ {w}
                       ELSE doubted \cup by \cup {w}
  /\ sending' = None
  /\ UNCHANGED <<saved, values, connected, writes>>

WriteFails ==
  /\ sending # None
  /\ (Ambiguous /\ Untold) \/ UNCHANGED <<register, doubted>>
  /\ Settled(sending.wf)
  /\ sending' = None
  /\ UNCHANGED <<saved, values, written, connected, writes>>

-----------------------------------------------------------------------------
(* The connection                                                          *)

Connect ==
  LET S == {w \in Workflow : Running(w) /\ definition[w] # None}
  IN  /\ connected' = TRUE /\ ReadsBounded(S)
      /\ UNCHANGED <<saved, source, timer, output, writes, sending, register, doubted>>
      /\ SyncPollers(S)

InFlight == {writes[i] : i \in DOMAIN writes} \cup ({sending} \ {None})

(* Every request fails; their continuations write nothing.                 *)
Lost(Unpolled) ==
  /\ connected' = FALSE
  /\ reads' = [w \in Workflow |-> <<>>] /\ writes' = <<>> /\ sending' = None
  /\ source' = [w \in Workflow |->
                  IF reads[w] # <<>> \/ w \in Unpolled THEN None ELSE source[w]]
  /\ poll' = [w \in Workflow |-> IF w \in Unpolled THEN None ELSE poll[w]]
  /\ pending' = [w \in Workflow |->
                   IF \E x \in InFlight : x.wf = w /\ x.kept THEN FALSE ELSE pending[w]]
  /\ (Ambiguous /\ sending # None /\ Untold) \/ UNCHANGED <<register, doubted>>
  /\ UNCHANGED <<saved, timer, written>>

Drop == connected /\ Lost({})

(* The disconnect route also takes the pollers of the device away.         *)
Disconnect == connected /\ Lost({w \in Workflow : poll[w] # None})

-----------------------------------------------------------------------------
Routes ==
  \/ \E w \in Workflow : Start(w) \/ Stop(w)
  \/ \E w \in Deleting : Delete(w)
  \/ \E w \in Workflow : \E d \in Definitions[w] : Edit(w, d)
  \/ \E w \in Workflow : \E v \in Triggered(w) : ManualTrigger(w, v)
  \/ StopAll
  \/ Connect
  \/ Disconnect

Events ==
  \/ \E w \in Workflow : PulseEnds(w) \/ PollTick(w) \/ ReadFails(w)
  \/ \E w \in Workflow, v \in Value : ReadAnswered(w, v)
  \/ Transmit \/ WriteAnswered \/ WriteFails
  \/ Drop

Next == Routes \/ Events

Spec == Init /\ [][Next]_vars

(* Pollers tick; reads and writes end, by their timeouts at the latest;    *)
(* and a device that is asked for ever answers a write now and then.       *)
Fairness ==
  /\ \A w \in Workflow : /\ WF_vars(PollTick(w))
                         /\ WF_vars(ReadFails(w) \/ \E v \in Value : ReadAnswered(w, v))
                         /\ WF_vars(PulseEnds(w))
  /\ WF_vars(Transmit)
  /\ WF_vars(WriteFails) /\ SF_vars(WriteAnswered)

FairSpec == Spec /\ Fairness
-----------------------------------------------------------------------------
(* Properties                                                              *)

(* An output that waits for its write has one in flight: no failure, stop, *)
(* deletion or lost connection leaves it waiting for ever.                 *)
PendingBacked ==
  \A w \in Workflow : pending[w] => \E x \in InFlight : x.wf = w /\ x.kept

(* The poller of a workflow is that of its current definition, and there   *)
(* is one exactly while it runs live; only a lost connection may leave a   *)
(* poller behind that finds the device away.                               *)
PollersMatch ==
  \A w \in Workflow :
    LET due == Running(w) /\ SourceOf[w] = "READING" /\ definition[w].mode \in LiveMode
    IN  /\ poll[w] # None => due /\ poll[w] = definition[w]
        /\ connected /\ due => poll[w] # None

(* A resource is owned by a workflow that runs, so that no start is        *)
(* refused for a workflow that was stopped.  Needs outputs that are not    *)
(* moved to another resource while their workflow runs.                    *)
OwnersRun == \A r \in Resource : owner[r] # None => Running(owner[r])

(* What write-on-change takes for the value of the resource is its value,  *)
(* after any stop, restart, deletion, lost connection and late answer.     *)
(* Only these put it in doubt, until the next answered write to where the  *)
(* output is now: a first value taken for written, an output moved while   *)
(* its workflow runs, a write of another session that is answered, and a   *)
(* write that failed and was carried out.                                  *)
BelievedIsWritten ==
  \A w \in Workflow \ doubted :
    Running(w) /\ written[w] # None /\ definition[w].target # None
      => register[definition[w].target] = written[w]

(* "Level value commanded to the device": when a workflow runs armed and   *)
(* connected from some time on and its source keeps a value, the resource  *)
(* has that value from some time on.  Needs a resource of its own, and a   *)
(* session that is not deceived about it for ever.                         *)
Commanding(w, r, v) ==
  /\ Running(w) /\ connected /\ source[w] = v /\ w \notin doubted
  /\ definition[w].mode = "LIVE_ARMED" /\ definition[w].target = r

LevelReachesDevice ==
  \A w \in Workflow, r \in Resource, v \in Value :
    <>[]Commanding(w, r, v) => <>[](register[r] = v)

(* Writes require a running workflow: none is sent for a stopped one.      *)
TransmitsRunning ==
  [][sending' # sending /\ sending' # None => Running(sending'.wf)]_vars

(* Writes require LIVE_ARMED mode: none is requested by a workflow whose   *)
(* mode is another.                                                        *)
RequestsArmed ==
  [][\A w \in Workflow : ~ pending[w] /\ pending'[w] => definition'[w].mode = "LIVE_ARMED"]_vars

(* A running workflow is protected: it keeps the resources it owns.        *)
OwnerKept ==
  [][\A r \in Resource : owner[r] # None /\ Running(owner[r]) /\ session'[owner[r]] = "running"
                           => owner'[r] = owner[r]]_vars

=============================================================================
