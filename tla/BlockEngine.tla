------------------------------ MODULE BlockEngine ------------------------------
(***************************************************************************)
(* server/src/engine.ts and RuntimeSessionManager.evaluate(): the scans of *)
(* a running workflow.  A read, a trigger, an edit or a lost connection    *)
(* changes the runtime of a source block, and the whole workflow is        *)
(* evaluated: block by block in the order of the list, in passes, until a  *)
(* pass makes no progress.  Edges, latches and timers are moved on by      *)
(* being evaluated, and only then: nothing evaluates a workflow when a     *)
(* timer is due.                                                           *)
(*                                                                         *)
(* Signals are Boolean; the blocks that calculate with numbers, constants  *)
(* and the polarity of an output are not modelled.  BAD stands for BAD,    *)
(* STALE and DISCONNECTED.                                                 *)
(***************************************************************************)
EXTENDS Integers, FiniteSets, Sequences

CONSTANTS
  Unset,       \* no entry in a Map, or undefined
  Values,      \* the array of values that a multi input has for its own
  Nodes,       \* workflow.nodes: a sequence of [id, type, duration, reads, inputCount]
  Edges,       \* workflow.edges: <<source, sourcePort, target, targetPort>>
  MaxPasses,   \* settings.maxPasses
  MaxTime      \* bound: the clock

Ids == {Nodes[i].id : i \in DOMAIN Nodes}
NodeOf == [id \in Ids |-> Nodes[CHOOSE i \in DOMAIN Nodes : Nodes[i].id = id]]
OfType(types) == {id \in Ids : NodeOf[id].type \in types}
SourceTypes == {"MODBUS_INPUT", "MODBUS_MULTI_INPUT", "MANUAL_TRIGGER"}
Inputs == OfType({"MODBUS_INPUT", "MODBUS_MULTI_INPUT"})
Sources == OfType(SourceTypes)
Outputs == OfType({"MODBUS_OUTPUT"})
GateTypes == {"AND", "OR", "XOR", "NAND", "NOR", "NOT"}
TimerTypes == {"TON", "TOF", "PULSE", "DEBOUNCE", "MIN_ON_TIME", "MIN_OFF_TIME"}
Timers == OfType(TimerTypes)
LatchTypes == {"SR_LATCH", "RS_LATCH"}
StepTypes == {"RISING_EDGE", "FALLING_EDGE", "MEMORY"}
Remembering == OfType(TimerTypes \cup LatchTypes \cup StepTypes)
Incoming == [id \in Ids |-> {e \in Edges : e[3] = id}]
SubInputs(id) == 0..(NodeOf[id].reads - 1)

(* The inputs that a block of a type has; changeInputCount() is for gates. *)
counts(type) ==
  IF type \in SourceTypes THEN {0}
  ELSE IF type \in {"MODBUS_OUTPUT", "NOT"} \cup StepTypes THEN {1}
  ELSE IF type \in GateTypes THEN 2..16 ELSE {2}

ASSUME BlocksAreKnown ==
  /\ Len(Nodes) \in Nat /\ DOMAIN Nodes = 1..Len(Nodes)
  /\ \A i, j \in DOMAIN Nodes : Nodes[i].id = Nodes[j].id => i = j
  /\ \A i \in DOMAIN Nodes :
       /\ Nodes[i].type \in SourceTypes \cup {"MODBUS_OUTPUT"}
                              \cup GateTypes \cup TimerTypes \cup LatchTypes \cup StepTypes
       /\ Nodes[i].duration \in Nat /\ Nodes[i].inputCount \in counts(Nodes[i].type)
       /\ Nodes[i].type = "MODBUS_INPUT" => Nodes[i].reads = 1
       /\ Nodes[i].type = "MODBUS_MULTI_INPUT" => Nodes[i].reads \in 1..8
  /\ MaxPasses \in Nat \ {0} /\ MaxTime \in Nat

(* What start() asks of an armed workflow: its edges join its blocks, one  *)
(* edge for each input, and no cycle: some block of any set is first.      *)
validateWorkflow ==
  /\ \A e \in Edges : {e[1], e[3]} \subseteq Ids
  /\ \A e, f \in Edges : e[3] = f[3] /\ e[4] = f[4] => e = f
  /\ \A id \in Ids : {e[4] : e \in Incoming[id]} = 0..(NodeOf[id].inputCount - 1)
  /\ \A S \in SUBSET Ids \ {{}} : \E id \in S : \A e \in Incoming[id] : e[1] \notin S
(* The editor draws edges from outputs that blocks have.                   *)
ASSUME GraphIsValid ==
  /\ validateWorkflow
  /\ \A e \in Edges : e[1] \in Inputs => e[2] \in SubInputs(e[1])

(* The passes of an evaluation are enough for any order of the list.       *)
EnoughPasses == Cardinality(Ids \ Sources) =< MaxPasses

VARIABLES
  running,   \* session.running
  outputs,   \* what each sub-input of an input block read last, or Unset
  runtime,   \* session.nodeRuntime: block -> [value, quality], or Unset
  memory,    \* session.engineMemory: block -> value, or Unset
  start,     \* the same, of the keys with ":t"
  now,       \* the clock
  held       \* history: first input of a block, as evaluated last: [on, before, since, at]

engineVars == <<running, outputs, runtime, memory, start, now, held>>

Good(value) == [value |-> value, quality |-> "GOOD"]
Bad(value) == [value |-> value, quality |-> "BAD"]
Uncertain(value) == [value |-> value, quality |-> "UNCERTAIN"]
Truth(x) == x \notin {FALSE, Unset}

RuntimeValue == BOOLEAN \cup {Unset, Values}
Runtime == [value : RuntimeValue, quality : {"GOOD", "BAD", "UNCERTAIN"}]
History == [on : BOOLEAN, before : BOOLEAN, since : Nat \cup {Unset}, at : Nat \cup {Unset}]
ASSUME UnsetAssumption == Unset \notin Runtime \cup BOOLEAN \cup Nat /\ Values \notin BOOLEAN

EngineTypeOK ==
  /\ running \in BOOLEAN /\ now \in Nat
  /\ outputs = [id \in Inputs |-> outputs[id]]
  /\ \A id \in Inputs : outputs[id] \in [SubInputs(id) -> Runtime \cup {Unset}]
  /\ runtime \in [Ids -> Runtime \cup {Unset}]
  /\ memory \in [Ids -> BOOLEAN \cup {Unset}] /\ start \in [Ids -> Nat \cup {Unset}]
  /\ held \in [Remembering -> History]

------------------------------------------------------------------------------
(* evaluateNode(): what a block shows, and what its memory keeps then.     *)

(* Mutant: the first input decides.                                        *)
FirstIsGood(in) == in[1].quality = "GOOD"
AllGood(in) == \A i \in DOMAIN in : in[i].quality = "GOOD"

Gate(type, b) ==
  CASE type = "AND"  -> \A i \in DOMAIN b : b[i]
    [] type = "OR"   -> \E i \in DOMAIN b : b[i]
    [] type = "NAND" -> \E i \in DOMAIN b : ~b[i]
    [] type = "NOR"  -> \A i \in DOMAIN b : ~b[i]
    [] type = "XOR"  -> Cardinality({i \in DOMAIN b : b[i]}) % 2 = 1
    [] type = "NOT"  -> ~b[1]

Latch(type, b, old) ==
  CASE type = "SR_LATCH" -> ~b[2] /\ (b[1] \/ old)
    [] type = "RS_LATCH" -> ~b[1] /\ (b[2] \/ old)

(* An edge or a memory block with the input b and what it remembers.       *)
Step(type, b, kept) ==
  CASE type = "RISING_EDGE"  -> b /\ ~Truth(kept)
    [] type = "FALLING_EDGE" -> ~b /\ Truth(kept)
    [] type = "MEMORY"       -> IF kept = Unset THEN b ELSE Truth(kept)

Timer(n, b, active, elapsed) ==
  CASE n.type = "TON"   -> b /\ elapsed >= n.duration
    [] n.type = "TOF"   -> b \/ elapsed < n.duration
    [] n.type = "PULSE" -> b /\ elapsed < n.duration
    [] OTHER            -> IF elapsed >= n.duration THEN b ELSE active

(* Mutant: only the first change sets the time.                            *)
RestartedOnce(old, b, active, time) == IF b # active /\ old = Unset THEN time ELSE old
(* A change sets the time; the block goes by the time from before it.      *)
Restarted(old, b, active, time) == IF b # active THEN time ELSE old

Shows(value, kept, began) == [shown |-> Good(value), kept |-> kept, began |-> began]

evaluateNode(n, in, kept, began) ==
  LET b      == [i \in DOMAIN in |-> Truth(in[i].value)]
      active == Truth(kept)
      since  == IF began = Unset THEN now ELSE began
  IN CASE ~AllGood(in) -> [shown |-> Uncertain(kept), kept |-> kept, began |-> began]
       [] AllGood(in) /\ n.type \in GateTypes -> Shows(Gate(n.type, b), kept, began)
       [] AllGood(in) /\ n.type \in LatchTypes ->
            LET v == Latch(n.type, b, active) IN Shows(v, v, began)
       [] AllGood(in) /\ n.type \in StepTypes -> Shows(Step(n.type, b[1], kept), b[1], began)
       [] AllGood(in) /\ n.type \in TimerTypes ->
            Shows(Timer(n, b[1], active, now - since),
                  IF b[1] # active THEN b[1] ELSE kept, Restarted(began, b[1], active, now))

(* The output block has the value that is to be written.                   *)
Outcome(n, in, kept, began) ==
  IF n.type # "MODBUS_OUTPUT" THEN evaluateNode(n, in, kept, began)
  ELSE [shown |-> IF in[1].quality = "GOOD" THEN in[1] ELSE Uncertain(in[1].value),
        kept |-> kept, began |-> began]

------------------------------------------------------------------------------
(* evaluate(): s is the session on the way.                                *)

(* What an edge carries: the sub-input's own value, or else the block's.   *)
Carried(s, e) ==
  IF NodeOf[e[1]].type = "MODBUS_MULTI_INPUT" /\ s.outputs[e[1]][e[2]] # Unset
  THEN s.outputs[e[1]][e[2]] ELSE s.runtime[e[1]]

Wire == [id \in Ids |-> [i \in 1..NodeOf[id].inputCount |-> CHOOSE e \in Incoming[id] : e[4] = i - 1]]
InputsOf(s, id) == [i \in 1..NodeOf[id].inputCount |-> Carried(s, Wire[id][i])]

Ready(s, id) == \A e \in Incoming[id] : e[1] \in s.calculated /\ s.runtime[e[1]] # Unset

Calculate(s, n) ==
  LET o == Outcome(n, InputsOf(s, n.id), s.memory[n.id], s.start[n.id])
  IN [s EXCEPT !.runtime[n.id] = o.shown, !.memory[n.id] = o.kept, !.start[n.id] = o.began,
               !.calculated = @ \cup {n.id}, !.progressed = TRUE]

(* Mutant: a block is calculated again in every pass.                      *)
CalculatedAgain(s, n) == IF n.id \in Sources \/ ~Ready(s, n.id) THEN s ELSE Calculate(s, n)
Calculated(s, n) == IF n.id \in s.calculated \/ ~Ready(s, n.id) THEN s ELSE Calculate(s, n)

(* The list of blocks once; and again, while that makes progress.          *)
Along(s) ==
  LET after[i \in 0..Len(Nodes)] == IF i = 0 THEN s ELSE Calculated(after[i - 1], Nodes[i])
  IN  after

Pass(s) == IF s.progressed THEN Along([s EXCEPT !.progressed = FALSE])[Len(Nodes)] ELSE s

(* Mutant: the list is gone through once.                                  *)
OnePass(s) == [i \in 0..MaxPasses |-> Along(s)[Len(Nodes)]]
Rounds(s) ==
  LET after[i \in 0..MaxPasses] == IF i = 0 THEN s ELSE Pass(after[i - 1])
  IN  after

(* With what was read and the values of the triggers, as of now.           *)
Beginning(read, sources, kept, starts) ==
  [outputs |-> read, memory |-> kept, start |-> starts, calculated |-> Sources,
   progressed |-> TRUE,
   runtime |-> [id \in Ids |-> IF id \in Sources \ Inputs /\ sources[id] = Unset
                               THEN Good(FALSE) ELSE sources[id]]]
evaluate(read, sources, kept, starts) == Rounds(Beginning(read, sources, kept, starts))[MaxPasses]

(* The history of a block: its first input when all its inputs were GOOD.  *)
Unseen == [on |-> FALSE, before |-> FALSE, since |-> Unset, at |-> Unset]
Seen(s, id) ==
  LET in == InputsOf(s, id)
      on == Truth(in[1].value)
      h  == held[id]
  IN IF Ready(s, id) /\ AllGood(in)
     THEN [on |-> on, before |-> h.on, at |-> now,
           since |-> IF on # h.on THEN now ELSE h.since]
     ELSE h

Evaluated(read, sources) ==
  \E s \in {evaluate(read, sources, memory, start)} :
    /\ runtime' = s.runtime /\ memory' = s.memory /\ start' = s.start
    /\ held' = [id \in Remembering |-> Seen(s, id)]

------------------------------------------------------------------------------
EngineInit ==
  /\ running = FALSE /\ now = 0
  /\ outputs = [id \in Inputs |-> [port \in SubInputs(id) |-> Unset]]
  /\ runtime = [id \in Ids |-> Unset]
  /\ memory = [id \in Ids |-> Unset] /\ start = [id \in Ids |-> Unset]
  /\ held = [id \in Remembering |-> Unseen]

(* readNode()'s commit: the block of a multi input has the worst quality   *)
(* of the sub-inputs that were read so far.                                *)
Block(id, read) ==
  LET seen == {read[port] : port \in SubInputs(id)} \ {Unset}
  IN IF NodeOf[id].type = "MODBUS_INPUT" THEN read[0]
     ELSE IF \E r \in seen : r.quality = "BAD" THEN Bad(Values) ELSE Good(Values)

Commit(id, port, value) ==
  LET read == [outputs EXCEPT ![id][port] = value]
      sources == [runtime EXCEPT ![id] = Block(id, read[id])]
  IN /\ outputs' = read
     /\ IF running THEN Evaluated(read, sources)
        ELSE runtime' = sources /\ UNCHANGED <<memory, start, held>>
     /\ UNCHANGED <<running, now>>

LastKnown(r) == IF r = Unset THEN Unset ELSE r.value

NodeRead(id, port, v) == running /\ Commit(id, port, Good(v))

(* A read that fails, or finds the device away.  A pending one may fail    *)
(* after the workflow was stopped.                                         *)
NodeReadFails(id, port) ==
  (running \/ outputs[id][port] # Unset) /\ Commit(id, port, Bad(LastKnown(outputs[id][port])))

(* onDeviceDisconnected(): every input that is polled.                     *)
Disconnected ==
  LET read == [id \in Inputs |-> [port \in SubInputs(id) |-> Bad(LastKnown(outputs[id][port]))]]
  IN /\ running
     /\ outputs' = read
     /\ Evaluated(read, [id \in Ids |-> IF id \in Inputs THEN Block(id, read[id]) ELSE runtime[id]])
     /\ UNCHANGED <<running, now>>

(* manualTrigger(), or the end of its pulse.                               *)
Trigger(id, v) ==
  /\ running
  /\ Evaluated(outputs, [runtime EXCEPT ![id] = Good(v)])
  /\ UNCHANGED <<running, outputs, now>>

(* start(), or refresh() after an edit.                                    *)
StartOrRefresh ==
  /\ running' = TRUE
  /\ Evaluated(outputs, runtime)
  /\ UNCHANGED <<outputs, now>>

(* stopSession() clears the memory and keeps the runtimes.                 *)
stopSession ==
  /\ running' = FALSE
  /\ memory' = [id \in Ids |-> Unset] /\ start' = [id \in Ids |-> Unset]
  /\ held' = [id \in Remembering |-> Unseen]
  /\ UNCHANGED <<outputs, runtime, now>>

Tick == now < MaxTime /\ now' = now + 1 /\ UNCHANGED <<running, outputs, runtime, memory, start, held>>

EngineNext ==
  \/ \E id \in Inputs : \E port \in SubInputs(id) :
       NodeReadFails(id, port) \/ \E v \in BOOLEAN : NodeRead(id, port, v)
  \/ \E id \in Sources \ Inputs, v \in BOOLEAN : Trigger(id, v)
  \/ Disconnected
  \/ StartOrRefresh
  \/ stopSession
  \/ Tick

EngineSpec == EngineInit /\ [][EngineNext]_engineVars

------------------------------------------------------------------------------
(* Properties                                                              *)

IsGood(id) == runtime[id] # Unset /\ runtime[id].quality = "GOOD"
Now == [outputs |-> outputs, runtime |-> runtime]

(* The edges a block depends on: those into it, and into the blocks they   *)
(* come from.                                                              *)
Closed(id, S) == Incoming[id] \subseteq S /\ \A e \in S : Incoming[e[1]] \subseteq S
Upstream == [id \in Ids |-> {e \in Edges : \A S \in SUBSET Edges : Closed(id, S) => e \in S}]

(* One evaluation reaches every block: whatever the order of the list, a   *)
(* block with inputs that were read has been calculated, and a gate or an  *)
(* output shows its inputs of now.                                         *)
FollowsSources ==
  running => \A id \in Ids \ Sources :
    (\A e \in Upstream[id] : e[1] \in Inputs => runtime[e[1]] # Unset) =>
      LET in == InputsOf(Now, id)
          n  == NodeOf[id]
      IN /\ runtime[id] # Unset
         /\ AllGood(in) /\ n.type \in GateTypes =>
              runtime[id] = Good(Gate(n.type, [i \in DOMAIN in |-> Truth(in[i].value)]))
         /\ AllGood(in) /\ id \in Outputs => runtime[id] = in[1]

(* A failed read, and the end of it, reaches every block below it: a block *)
(* is GOOD, and an output is written, only if no read above it is failed.  *)
QualitySpreads ==
  running => \A id \in Ids \ Sources : \A e \in Upstream[id] :
    IsGood(id) /\ e[1] \in Inputs => outputs[e[1]][e[2]] \in {Unset} \cup {Good(v) : v \in BOOLEAN}

(* A block that remembers is moved on once by each evaluation: a rising    *)
(* edge is TRUE for the one evaluation in which its input was found on     *)
(* after it was off in the one before.                                     *)
OncePerScan ==
  \A id \in OfType({"RISING_EDGE"}) :
    running /\ IsGood(id) => runtime[id].value = (held[id].on /\ ~held[id].before)

(* Where its input was the same in the last two evaluations, a timer goes  *)
(* by the time since it changed.                                           *)
TimersHold ==
  \A id \in Timers :
    LET h == held[id]
        due == h.at - h.since >= NodeOf[id].duration
        type == NodeOf[id].type
    IN running /\ IsGood(id) /\ h.since # Unset /\ h.on = h.before =>
         runtime[id].value = CASE type = "TON"   -> h.on /\ due
                               [] type = "TOF"   -> h.on \/ ~due
                               [] type = "PULSE" -> h.on /\ ~due
                               [] OTHER          -> h.on

(* "TRUE after the enable input has stayed TRUE for the preset duration":  *)
(* a TON that is on has seen its input on for so long.                     *)
TimersDelay ==
  \A id \in OfType({"TON"}) :
    running /\ IsGood(id) /\ runtime[id].value =>
      held[id].on /\ held[id].at - held[id].since >= NodeOf[id].duration

(* "Each sub-input owns [its] runtime, quality and output port": a block   *)
(* is GOOD only if what is connected to it was read.                       *)
SubInputsOwnQuality ==
  \A id \in Ids : \A e \in Upstream[id] :
    running /\ IsGood(id) /\ e[1] \in Inputs => outputs[e[1]][e[2]] # Unset

==============================================================================
