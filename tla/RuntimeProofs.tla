---------------------------- MODULE RuntimeProofs ---------------------------
(* Theorems about the two modules of a running workflow: WorkflowRuntime,   *)
(* for any number of workflows and resources, any definitions, and any      *)
(* bounds; and BlockEngine, for any workflow that is valid, in any order of *)
(* its blocks, and for any bound of the clock.                              *)
EXTENDS WorkflowRuntime, BlockEngine, SequenceTheorems, FiniteSetTheorems,
        WellFoundedInduction, TLAPS

-----------------------------------------------------------------------------
(***************************************************************************)
(* WorkflowRuntime                                                         *)
(***************************************************************************)

(* What the operators that actions share do to the types.                  *)

LEMMA EvaluateType ==
  ASSUME RuntimeAssumption, TypeOK,
         NEW w \in Workflow, NEW d \in Definition, NEW v \in Value \cup {None},
         Evaluate(w, d, v)
  PROVE  /\ pending' \in [Workflow -> BOOLEAN]
         /\ written' \in [Workflow -> Value \cup {None}]
         /\ writes' \in Seq(Write)
         /\ doubted' \subseteq Workflow
<1> DEFINE x == [wf |-> w, target |-> d.target, value |-> v, kept |-> TRUE]
<1>0. doubted' \subseteq Workflow
  BY DEF Evaluate, Moved, TypeOK
<1>1. CASE UNCHANGED <<output, writes>>
  BY <1>0, <1>1 DEF TypeOK, output
<1>2. CASE /\ written' = [written EXCEPT ![w] = v]
           /\ UNCHANGED <<pending, writes>>
  BY <1>0, <1>2 DEF TypeOK
<1>3. CASE /\ Commands(w, d, v)
           /\ pending' = [pending EXCEPT ![w] = TRUE]
           /\ writes' = <<x>> \o writes
           /\ UNCHANGED written
  <2>1. x \in Write
    BY <1>3 DEF Commands, Definition, Write
  <2>2. <<x>> \in Seq(Write)
    BY <2>1
  <2>3. writes' \in Seq(Write)
    BY <1>3, <2>2, ConcatProperties DEF TypeOK
  <2> QED
    BY <1>0, <1>3, <2>3 DEF TypeOK
<1> QED
  BY <1>1, <1>2, <1>3 DEF Evaluate

LEMMA SyncPollersType ==
  ASSUME TypeOK, NEW S \in SUBSET Workflow, \A w \in S : definition'[w] \in Definition,
         SyncPollers(S)
  PROVE  /\ poll' \in [Workflow -> Kept]
         /\ reads' \in [Workflow -> Seq(Definition)]
<1> DEFINE on == {w \in S : Polled(w, definition'[w])}
<1>1. \A w \in Workflow : w \in on => /\ definition'[w] \in Definition
                                      /\ Append(reads[w], definition'[w]) \in Seq(Definition)
  BY AppendProperties DEF TypeOK
<1>2. poll' = [w \in Workflow |-> IF w \in on THEN definition'[w]
                                  ELSE IF w \in S THEN None ELSE poll[w]]
  BY DEF SyncPollers
<1>3. reads' = [w \in Workflow |-> IF w \in on THEN Append(reads[w], definition'[w])
                                   ELSE reads[w]]
  BY DEF SyncPollers
<1>4. poll' \in [Workflow -> Kept]
  BY <1>1, <1>2 DEF TypeOK, Kept
<1>5. reads' \in [Workflow -> Seq(Definition)]
  BY <1>1, <1>3 DEF TypeOK
<1> QED
  BY <1>4, <1>5

LEMMA StopSessionType ==
  ASSUME TypeOK, NEW S, StopSession(S)
  PROVE  /\ poll' \in [Workflow -> Kept] /\ timer' \in [Workflow -> Kept]
         /\ pending' \in [Workflow -> BOOLEAN]
         /\ written' \in [Workflow -> Value \cup {None}]
         /\ owner' \in [Resource -> Workflow \cup {None}]
         /\ doubted' \subseteq Workflow
BY DEF StopSession, TypeOK, Kept

(* A function of the elements of a sequence is a sequence.                 *)
LEMMA OrphanedWrites ==
  ASSUME NEW s \in Seq(Write), NEW w
  PROVE  /\ [i \in DOMAIN s |-> Orphaned(s[i], w)] \in Seq(Write)
         /\ DOMAIN [i \in DOMAIN s |-> Orphaned(s[i], w)] = DOMAIN s
<1>1. \A x \in Write : Orphaned(x, w) \in Write
  BY DEF Orphaned, Write
<1>2. DOMAIN s = 1 .. Len(s) /\ Len(s) \in Nat /\ \A i \in 1 .. Len(s) : s[i] \in Write
  BY LenProperties, ElementOfSeq
<1>3. [i \in 1 .. Len(s) |-> Orphaned(s[i], w)] \in [1 .. Len(s) -> Write]
  BY <1>1, <1>2
<1> QED
  BY <1>2, <1>3, SeqDef

LEMMA LostType ==
  ASSUME TypeOK, NEW U, Lost(U)
  PROVE  TypeOK'
<1>1. <<>> \in Seq(Definition) /\ <<>> \in Seq(Write)
  BY EmptySeq
<1>2. register' \in [Resource -> Value] /\ doubted' \subseteq Workflow
  BY DEF Lost, Untold, CarriedOut, OnTarget, TypeOK, Write
<1>3. /\ source' \in [Workflow -> Value \cup {None}]
      /\ poll' \in [Workflow -> Kept]
      /\ pending' \in [Workflow -> BOOLEAN]
      /\ reads' \in [Workflow -> Seq(Definition)]
  BY <1>1 DEF Lost, TypeOK, Kept
<1> QED
  BY <1>1, <1>2, <1>3 DEF Lost, TypeOK, saved

-----------------------------------------------------------------------------
(* Type correctness.                                                       *)

LEMMA InitType == ASSUME RuntimeAssumption, Init PROVE TypeOK
<1>1. \A w \in Workflow : <<>> \in Seq(Definition)
  BY EmptySeq
<1>2. writes \in Seq(Write)
  BY EmptySeq DEF Init
<1> QED
  BY <1>1, <1>2 DEF Init, TypeOK, RuntimeAssumption, Kept, Value

LEMMA RouteType ==
  ASSUME RuntimeAssumption, TypeOK, Routes
  PROVE  TypeOK'
<1>1. ASSUME NEW w \in Workflow, Start(w)
      PROVE  TypeOK'
  <2>1. /\ definition[w] \in Definition
        /\ definition' = definition
    BY <1>1 DEF Start, TypeOK, Kept
  <2>2. source' \in [Workflow -> Value \cup {None}]
    BY <1>1 DEF Start, TypeOK, Value
  <2>3. /\ Evaluate(w, definition[w], source'[w])
        /\ SyncPollers({w})
    BY <1>1 DEF Start
  <2>4. /\ pending' \in [Workflow -> BOOLEAN]
        /\ written' \in [Workflow -> Value \cup {None}]
        /\ writes' \in Seq(Write) /\ doubted' \subseteq Workflow
    BY <2>1, <2>2, <2>3, EvaluateType
  <2>5. /\ poll' \in [Workflow -> Kept]
        /\ reads' \in [Workflow -> Seq(Definition)]
    BY <2>1, <2>3, SyncPollersType
  <2>6. /\ session' \in [Workflow -> {"none", "running", "stopped"}]
        /\ owner' \in [Resource -> Workflow \cup {None}]
    BY <1>1 DEF Start, TypeOK
  <2> QED
    BY <1>1, <2>2, <2>4, <2>5, <2>6 DEF Start, TypeOK
<1>2. ASSUME NEW w \in Workflow, Stop(w)
      PROVE  TypeOK'
  <2>1. StopSession({w})
    BY <1>2 DEF Stop
  <2> QED
    BY <1>2, <2>1, StopSessionType DEF Stop, TypeOK, device
<1>3. ASSUME NEW w \in Deleting, Delete(w)
      PROVE  TypeOK'
  <2>1. w \in Workflow
    BY DEF RuntimeAssumption
  <2>2. definition' \in [Workflow -> Kept]
    BY <1>3, <2>1 DEF Delete, TypeOK, Kept
  <2>3. session' \in [Workflow -> {"none", "running", "stopped"}]
    BY <1>3, <2>1 DEF Delete, TypeOK
  <2>4. CASE session[w] = "none"
    BY <1>3, <2>2, <2>3, <2>4 DEF Delete, TypeOK, values, output
  <2>5. CASE session[w] # "none"
    <3>1. StopSession({w})
      BY <1>3, <2>5 DEF Delete
    <3>2. writes' \in Seq(Write)
      <4>1. writes \in Seq(Write)
        BY DEF TypeOK
      <4>2. [i \in DOMAIN writes |-> Orphaned(writes[i], w)] \in Seq(Write)
        BY <4>1, OrphanedWrites
      <4> QED
        BY <1>3, <2>5, <4>2 DEF Delete
    <3>3. sending' \in Write \cup {None}
      BY <1>3, <2>5 DEF Delete, TypeOK, Orphaned, Write
    <3>4. reads' \in [Workflow -> Seq(Definition)]
      <4>1. <<>> \in Seq(Definition)
        BY EmptySeq
      <4>2. reads' = [reads EXCEPT ![w] = <<>>]
        BY <1>3, <2>5 DEF Delete
      <4> QED
        BY <4>1, <4>2 DEF TypeOK
    <3>5. source' \in [Workflow -> Value \cup {None}]
      BY <1>3, <2>5 DEF Delete, TypeOK
    <3> QED
      BY <1>3, <2>2, <2>3, <3>1, <3>2, <3>3, <3>4, <3>5, StopSessionType DEF Delete, TypeOK
  <2> QED
    BY <2>4, <2>5
<1>4. ASSUME NEW w \in Workflow, NEW d \in Definitions[w], Edit(w, d)
      PROVE  TypeOK'
  <2>1. d \in Definition
    BY DEF RuntimeAssumption
  <2>2. /\ definition' \in [Workflow -> Kept]
        /\ definition'[w] = d
    BY <1>4, <2>1 DEF Edit, TypeOK, Kept
  <2>3. CASE Running(w)
    <3>1. SyncPollers({w}) /\ Evaluate(w, d, source[w])
      BY <1>4, <2>3 DEF Edit
    <3>2. /\ poll' \in [Workflow -> Kept]
          /\ reads' \in [Workflow -> Seq(Definition)]
      BY <2>1, <2>2, <3>1, SyncPollersType
    <3>3. source[w] \in Value \cup {None}
      BY DEF TypeOK
    <3>4. /\ pending' \in [Workflow -> BOOLEAN]
          /\ written' \in [Workflow -> Value \cup {None}]
          /\ writes' \in Seq(Write) /\ doubted' \subseteq Workflow
      BY <2>1, <3>1, <3>3, EvaluateType
    <3> QED
      BY <1>4, <2>2, <3>2, <3>4 DEF Edit, TypeOK
  <2>4. CASE ~ Running(w)
    BY <1>4, <2>2, <2>4 DEF Edit, TypeOK, output
  <2> QED
    BY <2>3, <2>4
<1>5. ASSUME NEW w \in Workflow, NEW v \in Triggered(w), ManualTrigger(w, v)
      PROVE  TypeOK'
  <2>1. v \in Value /\ definition[w] \in Definition
    BY <1>5 DEF Triggered, ManualTrigger, TypeOK, Kept, Value, RuntimeAssumption, Source
  <2>2. Evaluate(w, definition[w], v)
    BY <1>5 DEF ManualTrigger
  <2>3. /\ pending' \in [Workflow -> BOOLEAN]
        /\ written' \in [Workflow -> Value \cup {None}]
        /\ writes' \in Seq(Write) /\ doubted' \subseteq Workflow
    BY <2>1, <2>2, EvaluateType
  <2>4. /\ source' \in [Workflow -> Value \cup {None}]
        /\ timer' \in [Workflow -> Kept]
    BY <1>5, <2>1 DEF ManualTrigger, TypeOK, Kept
  <2> QED
    BY <1>5, <2>3, <2>4 DEF ManualTrigger, TypeOK, saved
<1>6. CASE StopAll
  <2>1. PICK S : StopSession(S)
    BY <1>6 DEF StopAll
  <2>2. session' \in [Workflow -> {"none", "running", "stopped"}]
    BY <1>6 DEF StopAll, TypeOK
  <2> QED
    BY <1>6, <2>1, <2>2, StopSessionType DEF StopAll, TypeOK, device
<1>7. CASE Connect
  <2> DEFINE S == {w \in Workflow : Running(w) /\ definition[w] # None}
  <2>1. SyncPollers(S) /\ definition' = definition
    BY <1>7 DEF Connect, saved
  <2>2. \A w \in S : definition'[w] \in Definition
    BY <2>1 DEF TypeOK, Kept
  <2>3. /\ poll' \in [Workflow -> Kept]
        /\ reads' \in [Workflow -> Seq(Definition)]
    BY <2>1, <2>2, SyncPollersType
  <2> QED
    BY <1>7, <2>3 DEF Connect, TypeOK, saved, output
<1>8. CASE Disconnect
  BY <1>8, LostType DEF Disconnect
<1> QED
  BY <1>1, <1>2, <1>3, <1>4, <1>5, <1>6, <1>7, <1>8 DEF Routes

LEMMA EventType ==
  ASSUME RuntimeAssumption, TypeOK, Events
  PROVE  TypeOK'
<1>1. ASSUME NEW w \in Workflow, PulseEnds(w)
      PROVE  TypeOK'
  <2>1. timer[w] \in Definition /\ FALSE \in Value \cup {None}
    BY <1>1 DEF PulseEnds, TypeOK, Kept, Value
  <2>2. Evaluate(w, timer[w], FALSE)
    BY <1>1 DEF PulseEnds
  <2>3. /\ pending' \in [Workflow -> BOOLEAN]
        /\ written' \in [Workflow -> Value \cup {None}]
        /\ writes' \in Seq(Write) /\ doubted' \subseteq Workflow
    BY <2>1, <2>2, EvaluateType
  <2> QED
    BY <1>1, <2>3 DEF PulseEnds, TypeOK, saved, Value, Kept
<1>2. ASSUME NEW w \in Workflow, PollTick(w)
      PROVE  TypeOK'
  <2>1. poll[w] \in Definition /\ reads[w] \in Seq(Definition)
    BY <1>2 DEF PollTick, TypeOK, Kept
  <2>2. Append(reads[w], poll[w]) \in Seq(Definition)
    BY <2>1, AppendProperties
  <2>3. /\ reads' \in [Workflow -> Seq(Definition)]
        /\ source' \in [Workflow -> Value \cup {None}]
    <3>1. CASE connected
      <4>1. /\ reads' = [reads EXCEPT ![w] = Append(reads[w], poll[w])]
            /\ source' = source
        BY <1>2, <3>1 DEF PollTick
      <4> QED
        BY <2>2, <4>1 DEF TypeOK
    <3>2. CASE ~ connected
      BY <1>2, <3>2 DEF PollTick, TypeOK
    <3> QED
      BY <3>1, <3>2
  <2> QED
    BY <1>2, <2>3 DEF PollTick, TypeOK, saved, output, device
<1>3. ASSUME NEW w \in Workflow, ReadFails(w)
      PROVE  TypeOK'
  <2>1. Tail(reads[w]) \in Seq(Definition)
    BY <1>3, HeadTailProperties DEF ReadFails, TypeOK
  <2> QED
    BY <1>3, <2>1 DEF ReadFails, TypeOK, saved, output, device
<1>4. ASSUME NEW w \in Workflow, NEW v \in Value, ReadAnswered(w, v)
      PROVE  TypeOK'
  <2>1. Head(reads[w]) \in Definition /\ Tail(reads[w]) \in Seq(Definition)
    BY <1>4, HeadTailProperties DEF ReadAnswered, TypeOK
  <2>2. reads' \in [Workflow -> Seq(Definition)]
    BY <1>4, <2>1 DEF ReadAnswered, TypeOK
  <2>3. CASE Running(w)
    <3>1. Evaluate(w, Head(reads[w]), v)
      BY <1>4, <2>3 DEF ReadAnswered
    <3>2. /\ pending' \in [Workflow -> BOOLEAN]
          /\ written' \in [Workflow -> Value \cup {None}]
          /\ writes' \in Seq(Write) /\ doubted' \subseteq Workflow
      BY <2>1, <3>1, EvaluateType
    <3> QED
      <4>0. source' = [source EXCEPT ![w] = v] /\ source \in [Workflow -> Value \cup {None}]
        BY <1>4, <2>3 DEF ReadAnswered, TypeOK
      <4>1. source' \in [Workflow -> Value \cup {None}]
        BY <1>4, <4>0
      <4>2. UNCHANGED <<saved, poll, timer, connected, sending, register>>
        BY <1>4 DEF ReadAnswered
      <4> QED
        BY <2>2, <3>2, <4>1, <4>2 DEF TypeOK, saved
  <2>4. CASE ~ Running(w)
    BY <1>4, <2>2, <2>4 DEF ReadAnswered, TypeOK, saved, output
  <2> QED
    BY <2>3, <2>4
<1>5. CASE Transmit
  <2>1. Head(writes) \in Write /\ Tail(writes) \in Seq(Write)
    BY <1>5, HeadTailProperties DEF Transmit, TypeOK
  <2> QED
    BY <1>5, <2>1 DEF Transmit, TypeOK, saved, values, output
<1>6. CASE WriteAnswered
  <2>1. sending \in Write
    BY <1>6 DEF WriteAnswered, TypeOK
  <2> QED
    BY <1>6, <2>1 DEF WriteAnswered, CarriedOut, OnTarget, Settled, TypeOK, Write, saved, values
<1>7. CASE WriteFails
  <2>1. sending \in Write
    BY <1>7 DEF WriteFails, TypeOK
  <2> QED
    BY <1>7, <2>1 DEF WriteFails, Untold, CarriedOut, OnTarget, Settled, TypeOK, Write, saved, values
<1>8. CASE Drop
  BY <1>8, LostType DEF Drop
<1> QED
  BY <1>1, <1>2, <1>3, <1>4, <1>5, <1>6, <1>7, <1>8 DEF Events

(* Every variable keeps its type: sessions, pollers, reads and writes are  *)
(* those of the workflows and definitions there are.                       *)
THEOREM TypeCorrect == Spec => []TypeOK
<1>1. RuntimeAssumption
  BY RuntimeAssumption
<1>2. Init => TypeOK
  BY <1>1, InitType
<1>3. TypeOK /\ [Next]_vars => TypeOK'
  <2>1. CASE UNCHANGED vars
    BY <2>1 DEF vars, saved, values, output, device, TypeOK
  <2> QED
    BY <1>1, <2>1, RouteType, EventType DEF Next
<1> QED
  BY <1>2, <1>3, PTL DEF Spec

-----------------------------------------------------------------------------
(* Pollers.                                                                *)

(* The workflows whose definition is gone do not run: without this fact    *)
(* Connect, which skips them, might leave a running one unpolled.          *)
RunsDefined == \A w \in Workflow : Running(w) => definition[w] # None

PollersInv == TypeOK /\ RunsDefined /\ PollersMatch

(* A step that synchronizes the pollers of running workflows, and leaves   *)
(* every other workflow alone or finds it not running.                     *)
LEMMA SyncPollersMatch ==
  ASSUME RuntimeAssumption, PollersInv, NEW S \in SUBSET Workflow, SyncPollers(S),
         \A w \in S : session'[w] = "running" /\ definition'[w] \in Definition,
         \A w \in Workflow \ S : /\ session'[w] = session[w]
                                 /\ definition'[w] = definition[w]
                                 /\ Running(w) => connected' = connected
  PROVE  RunsDefined' /\ PollersMatch'
<1>1. RunsDefined'
  BY DEF PollersInv, RunsDefined, Running, RuntimeAssumption
<1>2. ASSUME NEW w \in S
      PROVE  /\ session'[w] = "running" /\ definition'[w] \in Definition
             /\ poll'[w] = IF Polled(w, definition'[w]) THEN definition'[w] ELSE None
  BY <1>2 DEF SyncPollers
<1>3. ASSUME NEW w \in Workflow \ S
      PROVE  poll'[w] = poll[w]
  BY <1>3 DEF SyncPollers
<1>4. ASSUME NEW w \in S
      PROVE  /\ poll'[w] # None => /\ session'[w] = "running" /\ SourceOf[w] = "READING"
                                   /\ definition'[w].mode \in LiveMode
                                   /\ poll'[w] = definition'[w]
             /\ connected' /\ SourceOf[w] = "READING" /\ definition'[w].mode \in LiveMode
                  => poll'[w] # None
  BY <1>2, <1>4 DEF Polled, RuntimeAssumption
<1>5. ASSUME NEW w \in Workflow \ S
      PROVE  /\ poll'[w] # None => /\ session'[w] = "running" /\ SourceOf[w] = "READING"
                                   /\ definition'[w].mode \in LiveMode
                                   /\ poll'[w] = definition'[w]
             /\ connected' /\ session'[w] = "running" /\ SourceOf[w] = "READING"
                  /\ definition'[w].mode \in LiveMode
                  => poll'[w] # None
  BY <1>3, <1>5 DEF PollersInv, PollersMatch, Running
<1> QED
  BY <1>1, <1>4, <1>5 DEF PollersMatch, Running

(* A step that takes pollers away, together with what they were due to.    *)
LEMMA FewerPollersMatch ==
  ASSUME PollersInv,
         NEW S, \A w \in Workflow \cap S : session'[w] # "running" /\ poll'[w] = None,
         \A w \in Workflow \ S : /\ session'[w] = session[w] /\ poll'[w] = poll[w]
                                 /\ definition'[w] = definition[w],
         connected' => connected
  PROVE  RunsDefined' /\ PollersMatch'
BY DEF PollersInv, RunsDefined, PollersMatch, Running

LEMMA LostPollers ==
  ASSUME PollersInv, NEW U, Lost(U)
  PROVE  RunsDefined' /\ PollersMatch'
BY DEF Lost, saved, PollersInv, RunsDefined, PollersMatch, Running

LEMMA RoutePollers ==
  ASSUME RuntimeAssumption, PollersInv, Routes
  PROVE  RunsDefined' /\ PollersMatch'
<1> USE DEF PollersInv
<1>1. ASSUME NEW w \in Workflow, Start(w)
      PROVE  RunsDefined' /\ PollersMatch'
  <2>1. /\ SyncPollers({w}) /\ connected' = connected /\ definition' = definition
        /\ session' = [session EXCEPT ![w] = "running"] /\ definition[w] # None
    BY <1>1 DEF Start
  <2>2. /\ session'[w] = "running" /\ definition'[w] \in Definition
        /\ \A x \in Workflow \ {w} : session'[x] = session[x]
    BY <2>1 DEF TypeOK, Kept
  <2> QED
    BY <2>1, <2>2, SyncPollersMatch
<1>2. ASSUME NEW w \in Workflow, Stop(w)
      PROVE  RunsDefined' /\ PollersMatch'
  <2>1. /\ session'[w] # "running" /\ poll'[w] = None
        /\ \A x \in Workflow \ {w} : session'[x] = session[x] /\ poll'[x] = poll[x]
        /\ definition' = definition /\ connected' = connected
    BY <1>2 DEF Stop, StopSession, TypeOK, device
  <2> QED
    BY <2>1, FewerPollersMatch
<1>3. ASSUME NEW w \in Deleting, Delete(w)
      PROVE  RunsDefined' /\ PollersMatch'
  <2>1. w \in Workflow
    BY DEF RuntimeAssumption
  <2>2. \A x \in Workflow \ {w} : session'[x] = session[x] /\ definition'[x] = definition[x]
    BY <1>3, <2>1 DEF Delete, TypeOK
  <2>3. session'[w] # "running" /\ connected' = connected
    BY <1>3, <2>1 DEF Delete, TypeOK
  <2>4. poll'[w] = None /\ \A x \in Workflow \ {w} : poll'[x] = poll[x]
    <3>1. CASE session[w] = "none"
      <4>1. poll[w] = None
        BY <2>1, <3>1 DEF PollersMatch, Running
      <4> QED
        BY <1>3, <3>1, <4>1 DEF Delete, values
    <3>2. CASE session[w] # "none"
      BY <1>3, <2>1, <3>2 DEF Delete, StopSession, TypeOK
    <3> QED
      BY <3>1, <3>2
  <2> QED
    BY <2>2, <2>3, <2>4, FewerPollersMatch
<1>4. ASSUME NEW w \in Workflow, NEW d \in Definitions[w], Edit(w, d)
      PROVE  RunsDefined' /\ PollersMatch'
  <2>1. /\ d \in Definition /\ d # None
        /\ definition'[w] = d /\ \A x \in Workflow \ {w} : definition'[x] = definition[x]
        /\ session' = session /\ connected' = connected
    BY <1>4 DEF Edit, TypeOK, RuntimeAssumption
  <2>2. CASE Running(w)
    <3>1. SyncPollers({w})
      BY <1>4, <2>2 DEF Edit
    <3> QED
      BY <2>1, <2>2, <3>1, SyncPollersMatch DEF Running
  <2>3. CASE ~ Running(w)
    <3>1. poll' = poll /\ poll[w] = None
      BY <1>4, <2>3 DEF Edit, PollersMatch
    <3> QED
      BY <2>1, <2>3, <3>1, FewerPollersMatch DEF Running
  <2> QED
    BY <2>2, <2>3
<1>5. ASSUME NEW w \in Workflow, NEW v \in Triggered(w), ManualTrigger(w, v)
      PROVE  RunsDefined' /\ PollersMatch'
  BY <1>5 DEF ManualTrigger, saved, RunsDefined, PollersMatch, Running
<1>6. CASE StopAll
  <2> DEFINE S == {w \in Workflow : Running(w) /\ definition[w] # None}
  <2>1. StopSession(S) /\ UNCHANGED <<definition, reads, device>>
        /\ session' = [w \in Workflow |-> IF w \in S THEN "stopped" ELSE session[w]]
    BY <1>6 DEF StopAll
  <2>2. /\ \A w \in Workflow \cap S : session'[w] # "running" /\ poll'[w] = None
        /\ \A w \in Workflow \ S : /\ session'[w] = session[w] /\ poll'[w] = poll[w]
                                   /\ definition'[w] = definition[w]
        /\ connected' = connected
    BY <2>1 DEF StopSession, device
  <2> QED
    BY <2>2, FewerPollersMatch
<1>7. CASE Connect
  <2> DEFINE S == {w \in Workflow : Running(w) /\ definition[w] # None}
  <2>1. SyncPollers(S) /\ UNCHANGED saved
    BY <1>7 DEF Connect
  <2>2. /\ \A w \in S : session'[w] = "running" /\ definition'[w] \in Definition
        /\ \A w \in Workflow \ S : ~ Running(w) /\ session'[w] = session[w]
                                   /\ definition'[w] = definition[w]
    BY <2>1 DEF saved, Running, RunsDefined, TypeOK, Kept
  <2> QED
    BY <2>1, <2>2, SyncPollersMatch
<1>8. CASE Disconnect
  BY <1>8, LostPollers DEF Disconnect
<1> QED
  BY <1>1, <1>2, <1>3, <1>4, <1>5, <1>6, <1>7, <1>8 DEF Routes

LEMMA EventPollers ==
  ASSUME PollersInv, Events
  PROVE  RunsDefined' /\ PollersMatch'
<1>1. CASE Drop
  BY <1>1, LostPollers DEF Drop
<1>2. CASE ~ Drop
  <2>1. UNCHANGED <<session, definition, poll, connected>>
    BY <1>2 DEF Events, PulseEnds, PollTick, ReadFails, ReadAnswered, Transmit,
                WriteAnswered, WriteFails, saved, values, device
  <2> QED
    BY <2>1 DEF PollersInv, RunsDefined, PollersMatch, Running
<1> QED
  BY <1>1, <1>2

LEMMA PollersKept == Spec => [](RunsDefined /\ PollersMatch)
<1>1. RuntimeAssumption
  BY RuntimeAssumption
<1>2. Init => RunsDefined /\ PollersMatch
  BY DEF Init, RunsDefined, PollersMatch, Running
<1>3. PollersInv /\ [Next]_vars => RunsDefined' /\ PollersMatch'
  <2>1. CASE UNCHANGED vars
    BY <2>1 DEF vars, saved, values, device, PollersInv, RunsDefined, PollersMatch, Running
  <2> QED
    BY <1>1, <2>1, RoutePollers, EventPollers DEF Next
<1> QED
  BY <1>2, <1>3, TypeCorrect, PTL DEF Spec, PollersInv

(* The poller of a workflow is that of its current definition and there is *)
(* one exactly while the workflow runs live with the device connected,     *)
(* after any edit, mode change, stop, deletion and reconnection.           *)
THEOREM PollersCorrect == Spec => []PollersMatch
BY PollersKept, PTL

-----------------------------------------------------------------------------
(* Pending outputs.                                                        *)

PendingInv == TypeOK /\ PendingBacked

(* The writes of a queue after one is put in front, or the first is taken. *)
LEMMA PrependElements ==
  ASSUME NEW s \in Seq(Write), NEW x \in Write
  PROVE  {(<<x>> \o s)[i] : i \in DOMAIN (<<x>> \o s)} = {x} \cup {s[i] : i \in DOMAIN s}
<1> DEFINE t == <<x>> \o s
<1>1. <<x>> \in Seq(Write) /\ Len(<<x>>) = 1 /\ <<x>>[1] = x
  OBVIOUS
<1>2. /\ t \in Seq(Write) /\ Len(t) = 1 + Len(s)
      /\ \A i \in 1 .. 1 + Len(s) : t[i] = IF i <= 1 THEN <<x>>[i] ELSE s[i - 1]
  BY <1>1, ConcatProperties
<1>3. DOMAIN t = 1 .. 1 + Len(s) /\ DOMAIN s = 1 .. Len(s) /\ Len(s) \in Nat
  BY <1>2, LenProperties
<1>4. t[1] = x
  BY <1>1, <1>2, <1>3
<1>5. \A i \in 1 .. Len(s) : i + 1 \in DOMAIN t /\ t[i + 1] = s[i]
  BY <1>2, <1>3
<1>6. \A i \in DOMAIN t : i = 1 \/ (i - 1 \in DOMAIN s /\ t[i] = s[i - 1])
  BY <1>2, <1>3
<1> HIDE DEF t
<1>7. 1 \in DOMAIN t
  BY <1>3
<1>8. {t[i] : i \in DOMAIN t} = {x} \cup {s[i] : i \in DOMAIN s}
  BY <1>3, <1>4, <1>5, <1>6, <1>7
<1> QED
  BY <1>8 DEF t

LEMMA HeadTailElements ==
  ASSUME NEW s \in Seq(Write), s # <<>>
  PROVE  {s[i] : i \in DOMAIN s} = {Head(s)} \cup {Tail(s)[i] : i \in DOMAIN Tail(s)}
<1> DEFINE t == Tail(s)
<1>1. /\ Head(s) = s[1] /\ t \in Seq(Write) /\ Len(t) = Len(s) - 1
      /\ \A i \in 1 .. Len(t) : t[i] = s[i + 1]
  BY HeadTailProperties
<1>2. DOMAIN s = 1 .. Len(s) /\ DOMAIN t = 1 .. Len(t) /\ Len(s) \in Nat /\ Len(t) \in Nat
  BY <1>1, LenProperties
<1>3. Len(s) >= 1
  BY <1>2, EmptySeq
<1>4. \A i \in DOMAIN t : i + 1 \in DOMAIN s /\ t[i] = s[i + 1]
  BY <1>1, <1>2
<1>5. \A i \in DOMAIN s : i = 1 \/ (i - 1 \in DOMAIN t /\ s[i] = t[i - 1])
  BY <1>1, <1>2
<1>6. 1 \in DOMAIN s
  BY <1>2, <1>3
<1> HIDE DEF t
<1>7. {s[i] : i \in DOMAIN s} = {Head(s)} \cup {t[i] : i \in DOMAIN t}
  BY <1>1, <1>2, <1>4, <1>5, <1>6
<1> QED
  BY <1>7 DEF t

(* What is in flight may grow, and fewer outputs may wait.                 *)
LEMMA FewerPending ==
  ASSUME PendingInv, pending' \in [Workflow -> BOOLEAN],
         \A w \in Workflow : pending'[w] => pending[w],
         InFlight \subseteq InFlight'
  PROVE  PendingBacked'
BY DEF PendingInv, PendingBacked

LEMMA EvaluatePending ==
  ASSUME RuntimeAssumption, PendingInv,
         NEW w \in Workflow, NEW d \in Definition, NEW v \in Value \cup {None},
         Evaluate(w, d, v), sending' = sending
  PROVE  PendingBacked'
<1> DEFINE x == [wf |-> w, target |-> d.target, value |-> v, kept |-> TRUE]
<1>1. CASE UNCHANGED <<pending, writes>>
  BY <1>1 DEF PendingInv, PendingBacked, InFlight
<1>2. CASE /\ Commands(w, d, v)
           /\ pending' = [pending EXCEPT ![w] = TRUE]
           /\ writes' = <<x>> \o writes
  <2>1. x \in Write /\ x.wf = w /\ x.kept /\ writes \in Seq(Write)
    BY <1>2 DEF Commands, Definition, Write, PendingInv, TypeOK
  <2> HIDE DEF x
  <2>2. {writes'[i] : i \in DOMAIN writes'} = {x} \cup {writes[i] : i \in DOMAIN writes}
    <3>1. {(<<x>> \o writes)[i] : i \in DOMAIN (<<x>> \o writes)}
            = {x} \cup {writes[i] : i \in DOMAIN writes}
      BY <2>1, PrependElements
    <3> QED
      BY <1>2, <3>1
  <2>3. x \in InFlight' /\ InFlight \subseteq InFlight'
    BY <2>2 DEF InFlight
  <2>4. pending'[w] /\ \A y \in Workflow \ {w} : pending'[y] = pending[y]
    BY <1>2 DEF PendingInv, TypeOK
  <2> QED
    BY <2>1, <2>3, <2>4 DEF PendingInv, PendingBacked
<1> QED
  BY <1>1, <1>2 DEF Evaluate, output

(* A stop forgets that its outputs wait; their writes stay in flight.      *)
LEMMA StopPending ==
  ASSUME PendingInv, NEW S, StopSession(S), UNCHANGED <<writes, sending>>
  PROVE  PendingBacked'
BY FewerPending DEF StopSession, PendingInv, TypeOK, InFlight

(* A write that ends was kept for an output that waits no more, or kept    *)
(* for none.                                                               *)
LEMMA SettledPending ==
  ASSUME PendingInv, sending # None, Settled(sending.wf),
         sending' = None, writes' = writes
  PROVE  PendingBacked'
<1> SUFFICES ASSUME NEW w \in Workflow, pending'[w]
             PROVE  \E x \in InFlight' : x.wf = w /\ x.kept
  BY DEF PendingBacked
<1>1. pending[w] /\ ~ (sending.kept /\ sending.wf = w)
  BY DEF Settled, PendingInv, TypeOK, Write
<1>2. PICK x \in InFlight : x.wf = w /\ x.kept
  BY <1>1 DEF PendingInv, PendingBacked
<1>3. x \in InFlight'
  BY <1>1, <1>2 DEF InFlight
<1> QED
  BY <1>2, <1>3

(* A lost connection ends every write, and every wait for one.             *)
LEMMA LostPending ==
  ASSUME PendingInv, NEW U, Lost(U)
  PROVE  PendingBacked'
<1>1. \A w \in Workflow :
        pending'[w] = IF \E x \in InFlight : x.wf = w /\ x.kept THEN FALSE ELSE pending[w]
  BY DEF Lost
<1>2. \A w \in Workflow : ~ pending'[w]
  BY <1>1 DEF PendingInv, PendingBacked, TypeOK
<1> QED
  BY <1>2 DEF PendingBacked


(* What a refused or carried out deletion does to the writes of others.    *)
LEMMA DeletePending ==
  ASSUME RuntimeAssumption, PendingInv, NEW w \in Workflow, Delete(w)
  PROVE  PendingBacked'
<1>1. CASE session[w] = "none"
  BY <1>1, FewerPending DEF Delete, output, InFlight, PendingInv, TypeOK
<1>2. CASE session[w] # "none"
  <2>1. /\ StopSession({w})
        /\ writes' = [i \in DOMAIN writes |-> Orphaned(writes[i], w)]
        /\ sending' = Orphaned(sending, w)
    BY <1>2 DEF Delete
  <2>2. ASSUME NEW y \in Workflow, pending'[y]
        PROVE  \E x \in InFlight' : x.wf = y /\ x.kept
    <3>1. y # w /\ pending[y]
      BY <2>1, <2>2 DEF StopSession
    <3>2. PICK x \in InFlight : x.wf = y /\ x.kept
      BY <3>1 DEF PendingInv, PendingBacked
    <3>3. Orphaned(x, w) = x
      BY <3>1, <3>2 DEF Orphaned
    <3>4. CASE x = sending /\ sending # None
      BY <2>1, <3>2, <3>3, <3>4 DEF InFlight
    <3>5. CASE \E i \in DOMAIN writes : x = writes[i]
      <4>1. PICK i \in DOMAIN writes : x = writes[i]
        BY <3>5
      <4>2. i \in DOMAIN writes' /\ writes'[i] = x
        BY <2>1, <3>3, <4>1
      <4> QED
        BY <3>2, <4>2 DEF InFlight
    <3> QED
      BY <3>4, <3>5 DEF InFlight
  <2> QED
    BY <2>2 DEF PendingBacked
<1> QED
  BY <1>1, <1>2

LEMMA RoutePending ==
  ASSUME RuntimeAssumption, PendingInv, Routes
  PROVE  PendingBacked'
<1> USE DEF PendingInv
<1>1. ASSUME NEW w \in Workflow, Start(w)
      PROVE  PendingBacked'
  <2>1. /\ definition[w] \in Definition
        /\ source' \in [Workflow -> Value \cup {None}]
        /\ Evaluate(w, definition[w], source'[w]) /\ sending' = sending
    BY <1>1 DEF Start, TypeOK, Kept, Value
  <2> QED
    BY <2>1, EvaluatePending
<1>2. ASSUME NEW w \in Workflow, Stop(w)
      PROVE  PendingBacked'
  BY <1>2, StopPending DEF Stop, device
<1>3. ASSUME NEW w \in Deleting, Delete(w)
      PROVE  PendingBacked'
  BY <1>3, DeletePending DEF RuntimeAssumption
<1>4. ASSUME NEW w \in Workflow, NEW d \in Definitions[w], Edit(w, d)
      PROVE  PendingBacked'
  <2>1. d \in Definition /\ source[w] \in Value \cup {None} /\ sending' = sending
    BY <1>4 DEF Edit, RuntimeAssumption, TypeOK
  <2>2. CASE Running(w)
    BY <1>4, <2>1, <2>2, EvaluatePending DEF Edit
  <2>3. CASE ~ Running(w)
    BY <1>4, <2>1, <2>3 DEF Edit, output, PendingBacked, InFlight
  <2> QED
    BY <2>2, <2>3
<1>5. ASSUME NEW w \in Workflow, NEW v \in Triggered(w), ManualTrigger(w, v)
      PROVE  PendingBacked'
  <2>1. v \in Value \cup {None} /\ definition[w] \in Definition
    BY <1>5 DEF Triggered, ManualTrigger, TypeOK, Kept, Value, RuntimeAssumption, Source
  <2>2. Evaluate(w, definition[w], v) /\ sending' = sending
    BY <1>5 DEF ManualTrigger
  <2> QED
    BY <2>1, <2>2, EvaluatePending
<1>6. CASE StopAll
  BY <1>6, StopPending DEF StopAll, device
<1>7. CASE Connect
  BY <1>7 DEF Connect, output, PendingBacked, InFlight
<1>8. CASE Disconnect
  BY <1>8, LostPending DEF Disconnect
<1> QED
  BY <1>1, <1>2, <1>3, <1>4, <1>5, <1>6, <1>7, <1>8 DEF Routes

LEMMA EventPending ==
  ASSUME RuntimeAssumption, PendingInv, Events
  PROVE  PendingBacked'
<1> USE DEF PendingInv
<1>1. ASSUME NEW w \in Workflow, PulseEnds(w)
      PROVE  PendingBacked'
  <2>1. timer[w] \in Definition /\ FALSE \in Value \cup {None}
    BY <1>1 DEF PulseEnds, TypeOK, Kept, Value
  <2>2. Evaluate(w, timer[w], FALSE) /\ sending' = sending
    BY <1>1 DEF PulseEnds
  <2> QED
    BY <2>1, <2>2, EvaluatePending
<1>2. ASSUME NEW w \in Workflow, PollTick(w) \/ ReadFails(w)
      PROVE  PendingBacked'
  BY <1>2 DEF PollTick, ReadFails, output, device, PendingBacked, InFlight
<1>3. ASSUME NEW w \in Workflow, NEW v \in Value, ReadAnswered(w, v)
      PROVE  PendingBacked'
  <2>1. Head(reads[w]) \in Definition
    BY <1>3, HeadTailProperties DEF ReadAnswered, TypeOK
  <2>2. CASE Running(w)
    BY <1>3, <2>1, <2>2, EvaluatePending DEF ReadAnswered
  <2>3. CASE ~ Running(w)
    BY <1>3, <2>3 DEF ReadAnswered, output, PendingBacked, InFlight
  <2> QED
    BY <2>2, <2>3
<1>4. CASE Transmit
  <2>1. /\ writes # <<>> /\ sending = None /\ pending' = pending
        /\ sending' = Head(writes) /\ writes' = Tail(writes)
    BY <1>4 DEF Transmit, output
  <2>2. writes \in Seq(Write) /\ Head(writes) # None
    BY <2>1, HeadTailProperties DEF TypeOK, RuntimeAssumption
  <2>3. {writes[i] : i \in DOMAIN writes}
          = {Head(writes)} \cup {Tail(writes)[i] : i \in DOMAIN Tail(writes)}
    BY <2>1, <2>2, HeadTailElements
  <2>4. InFlight \subseteq InFlight'
    BY <2>1, <2>2, <2>3 DEF InFlight
  <2> QED
    BY <2>1, <2>4, FewerPending DEF TypeOK
<1>5. CASE WriteAnswered
  BY <1>5, SettledPending DEF WriteAnswered
<1>6. CASE WriteFails
  BY <1>6, SettledPending DEF WriteFails
<1>7. CASE Drop
  BY <1>7, LostPending DEF Drop
<1> QED
  BY <1>1, <1>2, <1>3, <1>4, <1>5, <1>6, <1>7 DEF Events

(* An output that waits for its write has one in flight that will tell it  *)
(* the end: no failure, stop, restart, deletion or lost connection leaves  *)
(* an output waiting for ever.                                             *)
THEOREM PendingCorrect == Spec => []PendingBacked
<1>1. RuntimeAssumption
  BY RuntimeAssumption
<1>2. Init => PendingBacked
  BY DEF Init, PendingBacked
<1>3. PendingInv /\ [Next]_vars => PendingBacked'
  <2>1. CASE UNCHANGED vars
    BY <2>1 DEF vars, output, device, PendingInv, PendingBacked, InFlight
  <2> QED
    BY <1>1, <2>1, RoutePending, EventPending DEF Next
<1> QED
  BY <1>2, <1>3, TypeCorrect, PTL DEF Spec, PendingInv

-----------------------------------------------------------------------------
(* Write on change.                                                        *)

(* A session that does not run believes nothing, and no timer of it will   *)
(* evaluate its workflow.                                                  *)
StoppedForget == \A w \in Workflow : ~ Running(w) => written[w] = None /\ timer[w] = None

BelievedInv == TypeOK /\ RunsDefined /\ StoppedForget /\ BelievedIsWritten

(* A step that leaves the resources alone, and lets no workflow forget a   *)
(* doubt, believe something else, or move its output.                      *)
LEMMA SameBelieved ==
  ASSUME BelievedInv, NEW S \in SUBSET Workflow, UNCHANGED register,
         \A x \in Workflow \ S :
           /\ session'[x] = "running" => Running(x) /\ definition'[x] = definition[x]
           /\ written'[x] = written[x]
           /\ x \in doubted => x \in doubted',
         \A x \in S : written'[x] = None \/ x \in doubted'
  PROVE  BelievedIsWritten'
BY DEF BelievedInv, BelievedIsWritten, Running

(* Evaluation commands, and believes at most a first value, which is put   *)
(* in doubt, as is what a workflow believes whose output is moved.         *)
LEMMA EvaluateBelieved ==
  ASSUME RuntimeAssumption, BelievedInv,
         NEW w \in Workflow, NEW d, NEW v,
         Evaluate(w, d, v), UNCHANGED register,
         session' \in {session, [session EXCEPT ![w] = "running"]}, session'[w] = "running",
         \A x \in Workflow \ {w} : definition'[x] = definition[x] /\ timer'[x] = timer[x]
  PROVE  BelievedIsWritten' /\ StoppedForget'
<1> USE DEF BelievedInv
<1>1. ASSUME NEW x \in Workflow \ {w}
      PROVE  /\ written'[x] = written[x] /\ session'[x] = session[x] /\ timer'[x] = timer[x]
             /\ definition'[x] = definition[x] /\ (x \in doubted <=> x \in doubted')
  BY DEF Evaluate, Moved, TypeOK, output
<1>2. \/ w \in doubted' \/ written'[w] = None
      \/ /\ Running(w) /\ written'[w] = written[w] /\ w \notin doubted
         /\ definition'[w].target = definition[w].target
  BY DEF Evaluate, Moved, TypeOK, output, StoppedForget
<1>3. StoppedForget'
  BY <1>1 DEF StoppedForget, Running
<1>4. BelievedIsWritten'
  <2> SUFFICES ASSUME NEW x \in Workflow, x \notin doubted', Running(x)', written'[x] # None,
                      definition'[x].target # None
               PROVE  register'[definition'[x].target] = written'[x]
    BY DEF BelievedIsWritten
  <2>1. CASE x = w
    BY <1>2, <2>1 DEF BelievedIsWritten
  <2>2. CASE x # w
    BY <1>1, <2>2 DEF BelievedIsWritten, Running
  <2> QED
    BY <2>1, <2>2
<1> QED
  BY <1>3, <1>4

(* A write that is carried out without a word to its session puts what is  *)
(* believed of its resource in doubt.                                      *)
LEMMA UntoldBelieved ==
  ASSUME BelievedInv, sending # None, Untold, UNCHANGED <<session, definition, written, timer>>
  PROVE  BelievedIsWritten' /\ StoppedForget'
<1> USE DEF BelievedInv
<1>1. StoppedForget'
  BY DEF StoppedForget, Running
<1>2. /\ register' = [register EXCEPT ![sending.target] = sending.value]
      /\ doubted' = doubted \cup OnTarget(sending.target)
  BY DEF Untold, CarriedOut
<1>3. ASSUME NEW x \in Workflow, x \notin doubted', Running(x), written[x] # None,
             definition[x].target # None
      PROVE  register'[definition[x].target] = written[x]
  <2>1. definition[x].target # sending.target
    BY <1>2, <1>3 DEF OnTarget
  <2>2. register'[definition[x].target] = register[definition[x].target]
    <3>1. definition[x].target \in Resource
      BY <1>3 DEF TypeOK, Kept, Definition, RunsDefined
    <3> QED
      BY <1>2, <2>1, <3>1 DEF TypeOK
  <2> QED
    BY <1>2, <1>3, <2>2 DEF BelievedIsWritten
<1> QED
  BY <1>1, <1>3 DEF BelievedIsWritten, Running

(* A stop forgets what its sessions believed; the others keep theirs.      *)
LEMMA StopBelieved ==
  ASSUME BelievedInv, NEW S \in SUBSET Workflow, StopSession(S), UNCHANGED register,
         \A x \in Workflow \ S : session'[x] = session[x] /\ definition'[x] = definition[x]
  PROVE  BelievedIsWritten' /\ StoppedForget'
<1>1. /\ \A x \in Workflow \ S : /\ written'[x] = written[x] /\ timer'[x] = timer[x]
                                 /\ x \in doubted => x \in doubted'
      /\ \A x \in S : written'[x] = None /\ timer'[x] = None
  BY DEF StopSession
<1>2. StoppedForget'
  BY <1>1 DEF StoppedForget, Running, BelievedInv
<1>3. BelievedIsWritten'
  BY <1>1, SameBelieved DEF Running
<1> QED
  BY <1>2, <1>3

LEMMA LostBelieved ==
  ASSUME BelievedInv, NEW U, Lost(U)
  PROVE  BelievedIsWritten' /\ StoppedForget'
<1>1. UNCHANGED <<session, definition, written, timer>>
  BY DEF Lost, saved
<1>2. CASE UNCHANGED <<register, doubted>>
  BY <1>1, <1>2 DEF BelievedInv, BelievedIsWritten, StoppedForget, Running
<1>3. CASE sending # None /\ Untold
  BY <1>1, <1>3, UntoldBelieved
<1> QED
  BY <1>2, <1>3 DEF Lost

LEMMA RouteBelieved ==
  ASSUME RuntimeAssumption, BelievedInv, Routes
  PROVE  BelievedIsWritten' /\ StoppedForget'
<1> USE DEF BelievedInv
<1>1. ASSUME NEW w \in Workflow, Start(w)
      PROVE  BelievedIsWritten' /\ StoppedForget'
  <2>1. /\ session' = [session EXCEPT ![w] = "running"]
        /\ UNCHANGED <<definition, timer, register>>
        /\ Evaluate(w, definition[w], source'[w])
    BY <1>1 DEF Start
  <2> QED
    BY <2>1, EvaluateBelieved DEF TypeOK
<1>2. ASSUME NEW w \in Workflow, Stop(w)
      PROVE  BelievedIsWritten' /\ StoppedForget'
  <2>1. /\ StopSession({w}) /\ UNCHANGED <<definition, register>>
        /\ \A x \in Workflow \ {w} : session'[x] = session[x]
    BY <1>2 DEF Stop, device, TypeOK
  <2> QED
    BY <2>1, StopBelieved
<1>3. ASSUME NEW w \in Deleting, Delete(w)
      PROVE  BelievedIsWritten' /\ StoppedForget'
  <2>1. w \in Workflow /\ UNCHANGED register
    BY <1>3 DEF RuntimeAssumption, Delete
  <2>2. \A x \in Workflow \ {w} : session'[x] = session[x] /\ definition'[x] = definition[x]
    BY <1>3, <2>1 DEF Delete, TypeOK
  <2>3. CASE session[w] = "none"
    <3>1. UNCHANGED <<written, timer, doubted>> /\ ~ Running(w) /\ session'[w] = "none"
      BY <1>3, <2>1, <2>3 DEF Delete, values, output, Running, TypeOK
    <3>2. \A x \in Workflow : Running(x)' => Running(x) /\ definition'[x] = definition[x]
      BY <2>2, <3>1 DEF Running
    <3> QED
      BY <2>1, <2>2, <3>1, <3>2 DEF BelievedIsWritten, StoppedForget, Running
  <2>4. CASE session[w] # "none"
    BY <1>3, <2>1, <2>2, <2>4, StopBelieved DEF Delete
  <2> QED
    BY <2>3, <2>4
<1>4. ASSUME NEW w \in Workflow, NEW d \in Definitions[w], Edit(w, d)
      PROVE  BelievedIsWritten' /\ StoppedForget'
  <2>1. /\ \A x \in Workflow \ {w} : definition'[x] = definition[x]
        /\ UNCHANGED <<session, timer, register>>
    BY <1>4 DEF Edit, TypeOK
  <2>2. CASE Running(w)
    BY <1>4, <2>1, <2>2, EvaluateBelieved DEF Edit, Running
  <2>3. CASE ~ Running(w)
    <3>1. UNCHANGED <<written, doubted>>
      BY <1>4, <2>3 DEF Edit, output
    <3> QED
      BY <2>1, <2>3, <3>1 DEF BelievedIsWritten, StoppedForget, Running
  <2> QED
    BY <2>2, <2>3
<1>5. ASSUME NEW w \in Workflow, NEW v \in Triggered(w), ManualTrigger(w, v)
      PROVE  BelievedIsWritten' /\ StoppedForget'
  <2>1. /\ Running(w) /\ UNCHANGED <<saved, register>> /\ Evaluate(w, definition[w], v)
        /\ \A x \in Workflow \ {w} : timer'[x] = timer[x]
    BY <1>5 DEF ManualTrigger, TypeOK
  <2> QED
    BY <2>1, EvaluateBelieved DEF saved, Running
<1>6. CASE StopAll
  <2> DEFINE S == {w \in Workflow : Running(w) /\ definition[w] # None}
  <2>1. /\ StopSession(S) /\ UNCHANGED <<definition, register>>
        /\ \A x \in Workflow \ S : session'[x] = session[x]
    BY <1>6 DEF StopAll, device
  <2> HIDE DEF S
  <2>2. S \in SUBSET Workflow
    BY DEF S
  <2> QED
    BY <2>1, <2>2, StopBelieved
<1>7. CASE Connect
  <2>1. UNCHANGED <<saved, timer, output, register, doubted>>
    BY <1>7 DEF Connect
  <2> QED
    BY <2>1 DEF BelievedIsWritten, StoppedForget, Running, saved, output
<1>8. CASE Disconnect
  BY <1>8, LostBelieved DEF Disconnect
<1> QED
  BY <1>1, <1>2, <1>3, <1>4, <1>5, <1>6, <1>7, <1>8 DEF Routes

(* A write that is answered: its value is in the resource, and its session *)
(* believes so, unless it was stopped and believes nothing.                *)
LEMMA AnswerBelieved ==
  ASSUME BelievedInv, WriteAnswered
  PROVE  BelievedIsWritten' /\ StoppedForget'
<1> USE DEF BelievedInv
<1> DEFINE w == sending.wf
           by == OnTarget(sending.target)
<1>1. /\ sending \in Write /\ UNCHANGED <<saved, timer>>
      /\ register' = [register EXCEPT ![sending.target] = sending.value]
  BY DEF WriteAnswered, CarriedOut, TypeOK, values
<1>2. w \in Workflow /\ sending.target \in Resource /\ sending.value \in Value
  BY <1>1 DEF Write
<1>3. CASE ~ (sending.kept /\ Running(w))
  <2>1. written' = written /\ doubted' = doubted \cup by
    BY <1>3 DEF WriteAnswered
  <2> QED
    BY <1>1, <2>1, UntoldBelieved DEF Untold, CarriedOut, WriteAnswered, saved
<1>4. CASE sending.kept /\ Running(w)
  <2>1. /\ written' = [written EXCEPT ![w] = sending.value]
        /\ doubted' = IF definition[w].target = sending.target THEN (doubted \cup by) \ {w}
                      ELSE doubted \cup by \cup {w}
    BY <1>2, <1>4 DEF WriteAnswered, RunsDefined
  <2>2. StoppedForget'
    BY <1>1, <1>2, <1>4, <2>1 DEF StoppedForget, Running, saved, TypeOK
  <2>3. ASSUME NEW x \in Workflow, x \notin doubted', Running(x), written'[x] # None,
               definition[x].target # None
        PROVE  register'[definition[x].target] = written'[x]
    <3>1. CASE x = w
      BY <1>1, <1>2, <2>1, <2>3, <3>1 DEF TypeOK
    <3>2. CASE x # w
      <4>1. x \notin doubted /\ definition[x].target # sending.target
        BY <2>1, <2>3, <3>2 DEF OnTarget
      <4>2. written'[x] = written[x]
        BY <2>1, <3>2 DEF TypeOK
      <4>3. definition[x].target \in Resource
        BY <2>3 DEF TypeOK, Kept, Definition, RunsDefined
      <4>4. register'[definition[x].target] = register[definition[x].target]
        BY <1>1, <4>1, <4>3 DEF TypeOK
      <4> QED
        BY <2>3, <4>1, <4>2, <4>4 DEF BelievedIsWritten
    <3> QED
      BY <3>1, <3>2
  <2> QED
    BY <1>1, <2>2, <2>3 DEF BelievedIsWritten, Running, saved
<1> QED
  BY <1>3, <1>4

LEMMA EventBelieved ==
  ASSUME RuntimeAssumption, BelievedInv, Events
  PROVE  BelievedIsWritten' /\ StoppedForget'
<1> USE DEF BelievedInv
<1>1. ASSUME NEW w \in Workflow, PulseEnds(w)
      PROVE  BelievedIsWritten' /\ StoppedForget'
  <2>1. /\ Running(w) /\ UNCHANGED <<saved, register>> /\ Evaluate(w, timer[w], FALSE)
        /\ \A x \in Workflow \ {w} : timer'[x] = timer[x]
    BY <1>1 DEF PulseEnds, StoppedForget, TypeOK
  <2> QED
    BY <2>1, EvaluateBelieved DEF saved, Running
<1>2. ASSUME NEW w \in Workflow, PollTick(w) \/ ReadFails(w)
      PROVE  BelievedIsWritten' /\ StoppedForget'
  <2>1. UNCHANGED <<saved, timer, output, device, doubted>>
    BY <1>2 DEF PollTick, ReadFails
  <2> QED
    BY <2>1 DEF BelievedIsWritten, StoppedForget, Running, saved, output, device
<1>3. ASSUME NEW w \in Workflow, NEW v \in Value, ReadAnswered(w, v)
      PROVE  BelievedIsWritten' /\ StoppedForget'
  <2>1. UNCHANGED <<saved, timer, register>>
    BY <1>3 DEF ReadAnswered
  <2>2. CASE Running(w)
    BY <1>3, <2>1, <2>2, EvaluateBelieved DEF ReadAnswered, saved, Running
  <2>3. CASE ~ Running(w)
    <3>1. UNCHANGED <<output, doubted>>
      BY <1>3, <2>3 DEF ReadAnswered
    <3> QED
      BY <2>1, <3>1 DEF BelievedIsWritten, StoppedForget, Running, saved, output
  <2> QED
    BY <2>2, <2>3
<1>4. CASE Transmit
  BY <1>4 DEF Transmit, BelievedIsWritten, StoppedForget, Running, saved, values, output
<1>5. CASE WriteAnswered
  BY <1>5, AnswerBelieved
<1>6. CASE WriteFails
  <2>1. UNCHANGED <<saved, timer, written>> /\ sending # None
    BY <1>6 DEF WriteFails, values
  <2>2. CASE UNCHANGED <<register, doubted>>
    BY <2>1, <2>2 DEF BelievedIsWritten, StoppedForget, Running, saved
  <2>3. CASE Untold
    BY <2>1, <2>3, UntoldBelieved DEF saved
  <2> QED
    BY <1>6, <2>2, <2>3 DEF WriteFails
<1>7. CASE Drop
  BY <1>7, LostBelieved DEF Drop
<1> QED
  BY <1>1, <1>2, <1>3, <1>4, <1>5, <1>6, <1>7 DEF Events

(* What write-on-change takes for the value of a resource is its value,    *)
(* unless it is in doubt: with outputs that are shared, edited and deleted *)
(* and writes whose outcome nobody knows, the causes that BelievedIsWritten*)
(* names are all there are.                                                *)
THEOREM BelievedCorrect == Spec => []BelievedIsWritten
<1>1. RuntimeAssumption
  BY RuntimeAssumption
<1>2. Init => BelievedIsWritten /\ StoppedForget
  BY DEF Init, BelievedIsWritten, StoppedForget
<1>3. BelievedInv /\ [Next]_vars => BelievedIsWritten' /\ StoppedForget'
  <2>1. CASE BelievedInv /\ UNCHANGED vars
    BY <2>1 DEF vars, saved, values, output, device, BelievedInv, StoppedForget,
                BelievedIsWritten, Running
  <2> QED
    BY <1>1, <2>1, RouteBelieved, EventBelieved DEF Next
<1>4. Spec => []RunsDefined
  BY PollersKept, PTL
<1> QED
  BY <1>2, <1>3, <1>4, TypeCorrect, PTL DEF Spec, BelievedInv

-----------------------------------------------------------------------------
(***************************************************************************)
(* BlockEngine                                                             *)
(***************************************************************************)

(* Induction on numbers, from the theorem of the library that every set of  *)
(* finite sets has a minimal one: the intervals 0 .. n of the n outside I.  *)

LEMMA Induction ==
  ASSUME NEW I \in SUBSET Nat, 0 \in I, \A n \in I : n + 1 \in I
  PROVE  I = Nat
<1> SUFFICES ASSUME NEW m \in Nat, m \notin I PROVE FALSE
  OBVIOUS
<1> DEFINE R == StrictSubsetOrdering(Nat)
           F == FiniteSubsetsOf(Nat)
           T == {0 .. n : n \in Nat \ I}
<1>1. IsWellFoundedOn(R, F)
  BY FS_StrictSubsetOrderingWellFounded
<1>2. T \subseteq F
  <2>1. \A n \in Nat : 0 .. n \in F
    BY FS_Interval DEF FiniteSubsetsOf
  <2> QED
    BY <2>1
<1>3. T # {}
  OBVIOUS
<1>4. \E x \in T : \A y \in T : <<y, x>> \notin R
  <2> HIDE DEF R, F, T
  <2> QED
    BY <1>1, <1>2, <1>3, WFMin
<1>5. PICK n \in Nat \ I : \A k \in Nat \ I : <<0 .. k, 0 .. n>> \notin R
  BY <1>4
<1>6. n # 0 /\ n - 1 \in Nat /\ n - 1 \notin I
  <2>1. n # 0
    OBVIOUS
  <2>2. n - 1 \in Nat /\ (n - 1) + 1 = n
    BY <2>1
  <2> QED
    BY <2>1, <2>2
<1>7. <<0 .. n - 1, 0 .. n>> \in R
  BY <1>6 DEF StrictSubsetOrdering
<1> QED
  BY <1>5, <1>6, <1>7

-----------------------------------------------------------------------------
(* The blocks and edges of a valid workflow.                               *)

LEMMA NodeIs ==
  ASSUME NEW i \in DOMAIN Nodes
  PROVE  Nodes[i].id \in Ids /\ NodeOf[Nodes[i].id] = Nodes[i]
<1> DEFINE id == Nodes[i].id
           j == CHOOSE k \in DOMAIN Nodes : Nodes[k].id = id
<1>1. id \in Ids
  BY DEF Ids
<1>2. NodeOf[id] = Nodes[j]
  BY <1>1 DEF NodeOf
<1>3. j \in DOMAIN Nodes /\ Nodes[j].id = id
  OBVIOUS
<1>4. j = i
  <2> HIDE DEF j
  <2> QED
    BY <1>3, BlocksAreKnown
<1> QED
  BY <1>1, <1>2, <1>4

LEMMA BlockIs ==
  ASSUME NEW id \in Ids
  PROVE  /\ \E i \in DOMAIN Nodes : Nodes[i] = NodeOf[id]
         /\ NodeOf[id].id = id /\ NodeOf[id].duration \in Nat
         /\ NodeOf[id].type \in SourceTypes \cup {"MODBUS_OUTPUT"}
                                  \cup GateTypes \cup TimerTypes \cup LatchTypes \cup StepTypes
         /\ NodeOf[id].inputCount \in counts(NodeOf[id].type)
         /\ id \in Inputs <=> NodeOf[id].type \in {"MODBUS_INPUT", "MODBUS_MULTI_INPUT"}
         /\ id \in Sources <=> NodeOf[id].type \in SourceTypes
         /\ id \in Outputs <=> NodeOf[id].type = "MODBUS_OUTPUT"
         /\ id \in Timers <=> NodeOf[id].type \in TimerTypes
         /\ id \in Remembering <=> NodeOf[id].type \in TimerTypes \cup LatchTypes \cup StepTypes
         /\ NodeOf[id].type = "MODBUS_INPUT" => 0 \in SubInputs(id)
<1>1. PICK i \in DOMAIN Nodes : Nodes[i].id = id
  BY DEF Ids
<1>2. NodeOf[id] = Nodes[i]
  BY <1>1, NodeIs
<1>3. /\ Nodes[i].duration \in Nat /\ Nodes[i].inputCount \in counts(Nodes[i].type)
      /\ Nodes[i].type \in SourceTypes \cup {"MODBUS_OUTPUT"}
                                  \cup GateTypes \cup TimerTypes \cup LatchTypes \cup StepTypes
      /\ Nodes[i].type = "MODBUS_INPUT" => Nodes[i].reads = 1
  BY BlocksAreKnown
<1>4. NodeOf[id].type = "MODBUS_INPUT" => 0 \in SubInputs(id)
  BY <1>2, <1>3 DEF SubInputs
<1> QED
  BY <1>1, <1>2, <1>3, <1>4 DEF Inputs, Sources, Outputs, Timers, Remembering, OfType

LEMMA CountIs ==
  ASSUME NEW id \in Ids
  PROVE  /\ NodeOf[id].inputCount \in Nat
         /\ id \in Sources => NodeOf[id].inputCount = 0
         /\ id \notin Sources => NodeOf[id].inputCount >= 1
         /\ id \in Outputs => NodeOf[id].inputCount = 1 /\ id \notin Sources
<1> DEFINE t == NodeOf[id].type
           c == NodeOf[id].inputCount
<1>1. c \in counts(t) /\ (id \in Sources <=> t \in SourceTypes) /\ (id \in Outputs <=> t = "MODBUS_OUTPUT")
  BY BlockIs
<1>2. "MODBUS_OUTPUT" \notin SourceTypes
  BY DEF SourceTypes
<1> HIDE DEF t, c
<1>3. counts(t) \in {{1}, {2}, 2 .. 16} \/ (t \in SourceTypes /\ counts(t) = {0})
  BY DEF counts
<1>4. t = "MODBUS_OUTPUT" => counts(t) = {1}
  BY <1>2 DEF counts
<1>5. t \in SourceTypes => counts(t) = {0}
  BY DEF counts
<1>6. t \notin SourceTypes => c \in Nat /\ c >= 1
  BY <1>1, <1>3
<1>7. t \in SourceTypes => c = 0
  BY <1>1, <1>5
<1> QED
  BY <1>1, <1>2, <1>4, <1>6, <1>7 DEF c, t

LEMMA EdgeIs ==
  ASSUME NEW id \in Ids, NEW e \in Incoming[id]
  PROVE  /\ e \in Edges /\ e[1] \in Ids /\ e[3] = id
         /\ e[1] \in Inputs => e[2] \in SubInputs(e[1])
         /\ e[4] \in 0 .. NodeOf[id].inputCount - 1
<1>1. e \in Edges /\ e[3] = id
  BY DEF Incoming
<1>2. e[4] \in {f[4] : f \in Incoming[id]}
  OBVIOUS
<1> QED
  BY <1>1, <1>2, GraphIsValid DEF validateWorkflow

(* Each input of a block has its edge, and each edge is that of an input.  *)
LEMMA WireIs ==
  ASSUME NEW id \in Ids
  PROVE  /\ \A i \in 1 .. NodeOf[id].inputCount :
              Wire[id][i] \in Incoming[id] /\ Wire[id][i][4] = i - 1
         /\ \A e \in Incoming[id] : /\ e[4] + 1 \in 1 .. NodeOf[id].inputCount
                                    /\ Wire[id][e[4] + 1] = e
<1> DEFINE c == NodeOf[id].inputCount
<1>0. c \in Nat
  BY CountIs
<1>1. ASSUME NEW i \in 1 .. c
      PROVE  Wire[id][i] \in Incoming[id] /\ Wire[id][i][4] = i - 1
  <2>1. i - 1 \in {e[4] : e \in Incoming[id]}
    BY <1>0, GraphIsValid DEF validateWorkflow
  <2>2. \E e \in Incoming[id] : e[4] = i - 1
    BY <2>1
  <2>3. Wire[id][i] = CHOOSE e \in Incoming[id] : e[4] = i - 1
    BY DEF Wire
  <2> QED
    BY <2>2, <2>3
<1>2. ASSUME NEW e \in Incoming[id]
      PROVE  e[4] + 1 \in 1 .. c /\ Wire[id][e[4] + 1] = e
  <2>1. e[4] \in 0 .. c - 1
    BY EdgeIs
  <2>2. e[4] + 1 \in 1 .. c /\ (e[4] + 1) - 1 = e[4]
    BY <1>0, <2>1
  <2>3. Wire[id][e[4] + 1] \in Incoming[id] /\ Wire[id][e[4] + 1][4] = e[4]
    BY <1>1, <2>2
  <2>4. \A f \in Incoming[id] : f \in Edges /\ f[3] = id
    BY EdgeIs
  <2> QED
    BY <2>2, <2>3, <2>4, GraphIsValid DEF validateWorkflow
<1> QED
  BY <1>1, <1>2

LEMMA SourceEdges == ASSUME NEW id \in Sources PROVE id \in Ids /\ Incoming[id] = {}
<1>1. id \in Ids
  BY DEF Sources, Inputs, OfType
<1>2. NodeOf[id].inputCount = 0
  BY <1>1, CountIs
<1> QED
  BY <1>1, <1>2, EdgeIs

(* Of any blocks one is first.                                             *)
LEMMA First ==
  ASSUME NEW S \in SUBSET Ids, S # {}
  PROVE  \E id \in S : \A e \in Incoming[id] : e[1] \in Ids /\ e[1] \notin S
<1>1. PICK id \in S : \A e \in Incoming[id] : e[1] \notin S
  BY GraphIsValid DEF validateWorkflow
<1> QED
  BY <1>1, EdgeIs

-----------------------------------------------------------------------------
(* The session of an evaluation.                                           *)

Memories == BOOLEAN \cup {Unset}
Began == Nat \cup {Unset}
Shown == Runtime \cup {Unset}

Reads(read) == \A id \in Inputs : read[id] \in [SubInputs(id) -> Shown]

Session(read) ==
  [outputs : {read}, memory : [Ids -> Memories], start : [Ids -> Began],
   calculated : SUBSET Ids, progressed : BOOLEAN, runtime : [Ids -> Shown]]

LEMMA SessionIs ==
  ASSUME NEW read, NEW s \in Session(read)
  PROVE  /\ s.outputs = read /\ s.memory \in [Ids -> Memories] /\ s.start \in [Ids -> Began]
         /\ s.calculated \in SUBSET Ids /\ s.progressed \in BOOLEAN
         /\ s.runtime \in [Ids -> Shown]
BY DEF Session

LEMMA RuntimeIs ==
  /\ \A v \in RuntimeValue : Good(v) \in Runtime /\ Bad(v) \in Runtime /\ Uncertain(v) \in Runtime
  /\ \A r \in Runtime : r # Unset /\ r.value \in RuntimeValue
  /\ Memories \subseteq RuntimeValue /\ BOOLEAN \subseteq RuntimeValue
BY UnsetAssumption DEF Good, Bad, Uncertain, Runtime, RuntimeValue, Memories

(* What arrives at an input is a runtime, once its block has one.          *)
LEMMA CarriedIs ==
  ASSUME NEW read, Reads(read), NEW s \in Session(read),
         NEW id \in Ids, NEW e \in Incoming[id], s.runtime[e[1]] # Unset
  PROVE  Carried(s, e) \in Runtime
<1>1. e[1] \in Ids /\ (e[1] \in Inputs => e[2] \in SubInputs(e[1]))
  BY EdgeIs
<1>2. s.runtime[e[1]] \in Runtime /\ s.outputs = read
  BY <1>1, SessionIs DEF Shown
<1>3. CASE NodeOf[e[1]].type = "MODBUS_MULTI_INPUT" /\ read[e[1]][e[2]] # Unset
  <2>1. e[1] \in Inputs
    BY <1>1, <1>3, BlockIs
  <2>2. read[e[1]][e[2]] \in Runtime
    BY <1>1, <1>3, <2>1 DEF Reads, Shown
  <2> QED
    BY <1>2, <1>3, <2>2 DEF Carried
<1>4. CASE ~ (NodeOf[e[1]].type = "MODBUS_MULTI_INPUT" /\ read[e[1]][e[2]] # Unset)
  BY <1>2, <1>4 DEF Carried
<1> QED
  BY <1>3, <1>4

LEMMA InputsAre ==
  ASSUME NEW read, Reads(read), NEW s \in Session(read), NEW id \in Ids, Ready(s, id)
  PROVE  InputsOf(s, id) \in [1 .. NodeOf[id].inputCount -> Runtime]
<1>1. \A i \in 1 .. NodeOf[id].inputCount : Carried(s, Wire[id][i]) \in Runtime
  BY WireIs, CarriedIs DEF Ready
<1> QED
  BY <1>1 DEF InputsOf

Signals(in) == [i \in DOMAIN in |-> Truth(in[i].value)]

(* The cases of evaluateNode(), of which a type has one.                   *)
LEMMA Evaluates ==
  ASSUME NEW n, NEW in, NEW kept, NEW began
  PROVE  LET o == evaluateNode(n, in, kept, began)
             b == Signals(in)
             active == Truth(kept)
             elapsed == now - (IF began = Unset THEN now ELSE began)
         IN  /\ ~ AllGood(in) => o = [shown |-> Uncertain(kept), kept |-> kept, began |-> began]
             /\ AllGood(in) /\ n.type \in GateTypes => o = Shows(Gate(n.type, b), kept, began)
             /\ AllGood(in) /\ n.type \in LatchTypes =>
                  o = Shows(Latch(n.type, b, active), Latch(n.type, b, active), began)
             /\ AllGood(in) /\ n.type \in StepTypes => o = Shows(Step(n.type, b[1], kept), b[1], began)
             /\ AllGood(in) /\ n.type \in TimerTypes =>
                  o = Shows(Timer(n, b[1], active, elapsed), IF b[1] # active THEN b[1] ELSE kept,
                            Restarted(began, b[1], active, now))
<1>1. /\ n.type \in GateTypes => n.type \notin LatchTypes \cup StepTypes \cup TimerTypes
      /\ n.type \in LatchTypes => n.type \notin GateTypes \cup StepTypes \cup TimerTypes
      /\ n.type \in StepTypes => n.type \notin GateTypes \cup LatchTypes \cup TimerTypes
      /\ n.type \in TimerTypes => n.type \notin GateTypes \cup LatchTypes \cup StepTypes
  BY DEF StepTypes, GateTypes, LatchTypes, TimerTypes
<1>2. CASE ~ AllGood(in)
  BY <1>2 DEF evaluateNode
<1>3. CASE AllGood(in) /\ n.type \in GateTypes
  BY <1>1, <1>3 DEF evaluateNode, Signals
<1>4. CASE AllGood(in) /\ n.type \in LatchTypes
  BY <1>1, <1>4 DEF evaluateNode, Signals
<1>5. CASE AllGood(in) /\ n.type \in StepTypes
  BY <1>1, <1>5 DEF evaluateNode, Signals
<1>6. CASE AllGood(in) /\ n.type \in TimerTypes
  BY <1>1, <1>6 DEF evaluateNode, Signals
<1> QED
  BY <1>1, <1>2, <1>3, <1>4, <1>5, <1>6

(* A block remembers Booleans and times, and shows a runtime.              *)
Outcomes == [shown : Runtime, kept : Memories, began : Began]

LEMMA EvaluatedIs ==
  ASSUME NEW id \in Ids, id \notin Sources, id \notin Outputs, now \in Nat,
         NEW in \in [1 .. NodeOf[id].inputCount -> Runtime],
         NEW kept \in Memories, NEW began \in Began
  PROVE  evaluateNode(NodeOf[id], in, kept, began) \in Outcomes
<1> DEFINE n == NodeOf[id]
           b == Signals(in)
           active == Truth(kept)
           elapsed == now - (IF began = Unset THEN now ELSE began)
           o == evaluateNode(n, in, kept, began)
<1>1. /\ DOMAIN in = 1 .. n.inputCount /\ 1 \in DOMAIN in
      /\ n.type \in GateTypes \cup TimerTypes \cup LatchTypes \cup StepTypes
  BY BlockIs, CountIs
<1>2. \A x : Truth(x) \in BOOLEAN
  BY DEF Truth
<1>3. /\ DOMAIN b = DOMAIN in /\ \A i \in DOMAIN in : b[i] \in BOOLEAN
      /\ 1 \in DOMAIN in /\ b[1] \in BOOLEAN /\ active \in BOOLEAN
  BY <1>1, <1>2 DEF Signals
<1>4. \A v \in BOOLEAN, m \in Memories, t \in Began : Shows(v, m, t) \in Outcomes
  BY RuntimeIs DEF Shows, Outcomes
<1> HIDE DEF b, active, elapsed
<1>5. CASE ~ AllGood(in)
  <2>1. o = [shown |-> Uncertain(kept), kept |-> kept, began |-> began]
    BY <1>5, Evaluates DEF b, active, elapsed
  <2> QED
    BY <2>1, RuntimeIs DEF Outcomes
<1>6. CASE AllGood(in) /\ n.type \in GateTypes
  <2>1. o = Shows(Gate(n.type, b), kept, began)
    BY <1>6, Evaluates DEF b, active, elapsed
  <2>2. Gate(n.type, b) \in BOOLEAN
    BY <1>3, <1>6 DEF Gate, GateTypes
  <2> QED
    BY <1>4, <2>1, <2>2
<1>7. CASE AllGood(in) /\ n.type \in LatchTypes
  <2>1. o = Shows(Latch(n.type, b, active), Latch(n.type, b, active), began)
    BY <1>7, Evaluates DEF b, active, elapsed
  <2>2. Latch(n.type, b, active) \in BOOLEAN
    BY <1>3, <1>7 DEF Latch, LatchTypes
  <2> QED
    BY <1>4, <2>1, <2>2 DEF Memories
<1>8. CASE AllGood(in) /\ n.type \in StepTypes
  <2>1. o = Shows(Step(n.type, b[1], kept), b[1], began)
    BY <1>8, Evaluates DEF b, active, elapsed
  <2>2. Step(n.type, b[1], kept) \in BOOLEAN
    BY <1>3, <1>8 DEF Step, StepTypes, Truth
  <2> QED
    BY <1>3, <1>4, <2>1, <2>2 DEF Memories
<1>9. CASE AllGood(in) /\ n.type \in TimerTypes
  <2>1. o = Shows(Timer(n, b[1], active, elapsed), IF b[1] # active THEN b[1] ELSE kept,
                  Restarted(began, b[1], active, now))
    BY <1>9, Evaluates DEF b, active, elapsed
  <2>2. Timer(n, b[1], active, elapsed) \in BOOLEAN
    BY <1>3, <1>9 DEF Timer
  <2>3. Restarted(began, b[1], active, now) \in Began
    BY DEF Restarted, Began
  <2>4. (IF b[1] # active THEN b[1] ELSE kept) \in Memories
    BY <1>3 DEF Memories
  <2> QED
    BY <1>4, <2>1, <2>2, <2>3, <2>4
<1> QED
  BY <1>1, <1>5, <1>6, <1>7, <1>8, <1>9

LEMMA OutcomeIs ==
  ASSUME NEW id \in Ids, id \notin Sources, now \in Nat,
         NEW in \in [1 .. NodeOf[id].inputCount -> Runtime],
         NEW kept \in Memories, NEW began \in Began
  PROVE  Outcome(NodeOf[id], in, kept, began) \in Outcomes
<1>1. CASE id \notin Outputs
  <2>1. NodeOf[id].type # "MODBUS_OUTPUT"
    BY <1>1, BlockIs
  <2> QED
    BY <1>1, <2>1, EvaluatedIs DEF Outcome
<1>2. CASE id \in Outputs
  <2>1. NodeOf[id].type = "MODBUS_OUTPUT"
    BY <1>2, BlockIs
  <2>2. in[1] \in Runtime /\ Uncertain(in[1].value) \in Runtime
    <3>1. 1 \in 1 .. NodeOf[id].inputCount
      BY <1>2, CountIs
    <3>2. in[1] \in Runtime
      BY <3>1
    <3> QED
      BY <3>2, RuntimeIs
  <2>3. Outcome(NodeOf[id], in, kept, began) =
          [shown |-> IF in[1].quality = "GOOD" THEN in[1] ELSE Uncertain(in[1].value),
           kept |-> kept, began |-> began]
    BY <2>1 DEF Outcome
  <2> QED
    BY <2>2, <2>3 DEF Outcomes
<1> QED
  BY <1>1, <1>2

-----------------------------------------------------------------------------
(* What holds of the session s of an evaluation that began with z: the     *)
(* blocks that were not calculated yet are as they were, and the others    *)
(* are what comes of their inputs of now.                                  *)

Result(z, s, id) == Outcome(NodeOf[id], InputsOf(s, id), z.memory[id], z.start[id])

Untouched(z, s, id) ==
  s.runtime[id] = z.runtime[id] /\ s.memory[id] = z.memory[id] /\ s.start[id] = z.start[id]

Standing(s, id) == [shown |-> s.runtime[id], kept |-> s.memory[id], began |-> s.start[id]]

FixedPoint(z, s, id) ==
  /\ Ready(s, id)
  /\ Standing(s, id) = Result(z, s, id)

Loop(read, z, s) ==
  /\ s \in Session(read) /\ Sources \subseteq s.calculated
  /\ \A id \in Ids : id \in Sources \/ id \notin s.calculated => Untouched(z, s, id)
  /\ \A id \in s.calculated \ Sources : FixedPoint(z, s, id)

Left(s, id) == id \in s.calculated \/ ~ Ready(s, id)

(* Where the blocks above it are the same, a block has the same inputs.    *)
LEMMA SameInputs ==
  ASSUME NEW s, NEW t, NEW id \in Ids, s.outputs = t.outputs,
         \A e \in Incoming[id] : s.runtime[e[1]] = t.runtime[e[1]]
  PROVE  InputsOf(s, id) = InputsOf(t, id)
<1>1. \A i \in 1 .. NodeOf[id].inputCount : Carried(s, Wire[id][i]) = Carried(t, Wire[id][i])
  BY WireIs DEF Carried
<1> QED
  BY <1>1 DEF InputsOf

LEMMA CalculateIs ==
  ASSUME NEW read, NEW s \in Session(read), NEW id \in Ids,
         Outcome(NodeOf[id], InputsOf(s, id), s.memory[id], s.start[id]) \in Outcomes
  PROVE  LET t == Calculate(s, NodeOf[id])
             o == Outcome(NodeOf[id], InputsOf(s, id), s.memory[id], s.start[id])
         IN  /\ t \in Session(read) /\ t.progressed
             /\ t.calculated = s.calculated \cup {id}
             /\ \A x \in Ids \ {id} : Untouched(s, t, x)
             /\ Standing(t, id) = o
<1> DEFINE t == Calculate(s, NodeOf[id])
           o == Outcome(NodeOf[id], InputsOf(s, id), s.memory[id], s.start[id])
<1>1. t = [s EXCEPT !.runtime[id] = o.shown, !.memory[id] = o.kept, !.start[id] = o.began,
                    !.calculated = s.calculated \cup {id}, !.progressed = TRUE]
  BY BlockIs DEF Calculate
<1>2. /\ o.shown \in Shown /\ o.kept \in Memories /\ o.began \in Began
  <2> HIDE DEF o
  <2>1. o \in Outcomes
    BY DEF o
  <2> QED
    BY <2>1 DEF Outcomes, Shown
<1>3. /\ s.memory \in [Ids -> Memories] /\ s.start \in [Ids -> Began] /\ s.runtime \in [Ids -> Shown]
      /\ s.calculated \in SUBSET Ids /\ s.outputs = read
  BY SessionIs
<1> HIDE DEF t, o
<1>4. t = [outputs |-> read, memory |-> [s.memory EXCEPT ![id] = o.kept],
           start |-> [s.start EXCEPT ![id] = o.began], calculated |-> s.calculated \cup {id},
           progressed |-> TRUE, runtime |-> [s.runtime EXCEPT ![id] = o.shown]]
  BY <1>1, <1>3 DEF Session
<1>5. /\ t.outputs = read /\ t.memory = [s.memory EXCEPT ![id] = o.kept]
      /\ t.start = [s.start EXCEPT ![id] = o.began] /\ t.calculated = s.calculated \cup {id}
      /\ t.progressed /\ t.runtime = [s.runtime EXCEPT ![id] = o.shown]
  BY <1>4
<1>6. /\ t.memory \in [Ids -> Memories] /\ t.start \in [Ids -> Began] /\ t.runtime \in [Ids -> Shown]
      /\ t.calculated \in SUBSET Ids
  BY <1>2, <1>3, <1>5
<1>7. t \in Session(read)
  <2> DEFINE M == [s.memory EXCEPT ![id] = o.kept]
             S == [s.start EXCEPT ![id] = o.began]
             C == s.calculated \cup {id}
             R == [s.runtime EXCEPT ![id] = o.shown]
  <2>1. M \in [Ids -> Memories] /\ S \in [Ids -> Began] /\ R \in [Ids -> Shown] /\ C \in SUBSET Ids
    BY <1>5, <1>6
  <2>2. t = [outputs |-> read, memory |-> M, start |-> S, calculated |-> C, progressed |-> TRUE, runtime |-> R]
    BY <1>4
  <2> HIDE DEF M, S, C, R
  <2> QED
    BY <2>1, <2>2 DEF Session
<1>8. \A x \in Ids \ {id} : Untouched(s, t, x)
  BY <1>3, <1>5 DEF Untouched
<1>9. Standing(t, id) = o
  <2>1. t.runtime[id] = o.shown /\ t.memory[id] = o.kept /\ t.start[id] = o.began
    BY <1>3, <1>5
  <2>2. o = [shown |-> o.shown, kept |-> o.kept, began |-> o.began]
    <3>1. o \in Outcomes
      BY DEF o
    <3> QED
      BY <3>1 DEF Outcomes
  <2> QED
    BY <2>1, <2>2 DEF Standing
<1> QED
  BY <1>5, <1>7, <1>8, <1>9 DEF t, o

(* A block that is calculated is none of those that were, so that these    *)
(* keep their inputs.                                                      *)
LEMMA CalculatedKeeps ==
  ASSUME NEW read, Reads(read), now \in Nat, NEW z \in Session(read), NEW s, Loop(read, z, s),
         NEW i \in DOMAIN Nodes
  PROVE  LET t == Calculated(s, Nodes[i])
         IN  /\ Loop(read, z, t) /\ s.calculated \subseteq t.calculated
             /\ \/ t = s /\ Left(s, Nodes[i].id)
                \/ t.progressed /\ t.calculated # s.calculated
<1> DEFINE n == Nodes[i]
           id == n.id
           t == Calculated(s, n)
<1>1. id \in Ids /\ NodeOf[id] = n
  BY NodeIs
<1>2. s \in Session(read) /\ Sources \subseteq s.calculated
  BY DEF Loop
<1>3. CASE Left(s, id)
  <2>1. t = s
    BY <1>3 DEF Left, Calculated
  <2> QED
    BY <1>3, <2>1
<1>4. CASE ~ Left(s, id)
  <2> DEFINE o == Outcome(n, InputsOf(s, id), s.memory[id], s.start[id])
  <2>1. id \notin s.calculated /\ id \notin Sources /\ Ready(s, id)
    BY <1>2, <1>4 DEF Left
  <2>2. t = Calculate(s, n)
    BY <2>1 DEF Calculated
  <2>3. o \in Outcomes
    <3>1. InputsOf(s, id) \in [1 .. NodeOf[id].inputCount -> Runtime]
      BY <1>1, <1>2, <2>1, InputsAre
    <3>2. s.memory[id] \in Memories /\ s.start[id] \in Began
      BY <1>1, <1>2, SessionIs
    <3> QED
      BY <1>1, <2>1, <3>1, <3>2, OutcomeIs
  <2>4. /\ t \in Session(read) /\ t.progressed /\ t.calculated = s.calculated \cup {id}
        /\ \A x \in Ids \ {id} : Untouched(s, t, x)
        /\ Standing(t, id) = o
    <3>1. Outcome(NodeOf[id], InputsOf(s, id), s.memory[id], s.start[id]) \in Outcomes
      BY <1>1, <2>3
    <3>2. t = Calculate(s, NodeOf[id]) /\ o = Outcome(NodeOf[id], InputsOf(s, id), s.memory[id], s.start[id])
      BY <1>1, <2>2
    <3> HIDE DEF o, t, id, n
    <3> QED
      BY <1>1, <1>2, <3>1, <3>2, CalculateIs
  <2>5. t.outputs = s.outputs
    BY <1>2, <2>4, SessionIs
  <2> HIDE DEF t, o
  (* What was calculated, and what is Ready, has its inputs from others.    *)
  <2>6. ASSUME NEW x \in Ids, Ready(s, x)
        PROVE  Ready(t, x) /\ InputsOf(s, x) = InputsOf(t, x)
    <3>1. ASSUME NEW e \in Incoming[x]
          PROVE  e[1] \in t.calculated /\ s.runtime[e[1]] = t.runtime[e[1]] /\ t.runtime[e[1]] # Unset
      <4>1. e[1] \in s.calculated /\ s.runtime[e[1]] # Unset
        BY <2>6 DEF Ready
      <4>2. e[1] \in Ids \ {id}
        BY <2>1, <4>1, EdgeIs
      <4> QED
        BY <2>4, <4>1, <4>2 DEF Untouched
    <3> QED
      BY <2>5, <3>1, SameInputs DEF Ready
  <2>7. ASSUME NEW x \in Ids, x \in Sources \/ x \notin t.calculated
        PROVE  Untouched(z, t, x)
    <3>1. x # id /\ (x \in Sources \/ x \notin s.calculated)
      BY <2>1, <2>4, <2>7
    <3>2. Untouched(z, s, x) /\ Untouched(s, t, x)
      BY <2>4, <3>1 DEF Loop
    <3> QED
      BY <3>2 DEF Untouched
  <2>8. ASSUME NEW x \in t.calculated \ Sources
        PROVE  FixedPoint(z, t, x)
    <3>1. CASE x = id
      <4>1. Untouched(z, s, id)
        BY <1>1, <2>1 DEF Loop
      <4>2. Ready(t, id) /\ InputsOf(s, id) = InputsOf(t, id)
        BY <1>1, <2>1, <2>6
      <4>3. o = Result(z, t, id)
        BY <1>1, <4>1, <4>2 DEF Result, Untouched, o
      <4> QED
        BY <2>4, <3>1, <4>2, <4>3 DEF FixedPoint
    <3>2. CASE x # id
      <4>1. x \in s.calculated \ Sources /\ x \in Ids
        BY <1>2, <2>4, <3>2, SessionIs
      <4>2. FixedPoint(z, s, x) /\ Untouched(s, t, x)
        BY <2>4, <3>2, <4>1 DEF Loop
      <4>3. Ready(t, x) /\ InputsOf(s, x) = InputsOf(t, x)
        BY <2>6, <4>1, <4>2 DEF FixedPoint
      <4>4. Result(z, s, x) = Result(z, t, x)
        BY <4>3 DEF Result
      <4> QED
        BY <4>2, <4>3, <4>4 DEF FixedPoint, Untouched, Standing
    <3> QED
      BY <3>1, <3>2
  <2>9. Loop(read, z, t)
    BY <1>2, <2>4, <2>7, <2>8 DEF Loop
  <2> QED
    BY <2>1, <2>4, <2>9 DEF t
<1> QED
  BY <1>3, <1>4

-----------------------------------------------------------------------------
(* The two loops: that their recursive functions are what they say.        *)

LEMMA AlongIs ==
  ASSUME NEW s
  PROVE  Along(s) = [i \in 0 .. Len(Nodes) |-> IF i = 0 THEN s ELSE Calculated(Along(s)[i - 1], Nodes[i])]
<1> DEFINE I == {m \in Nat : \E f : f = [i \in 0 .. m |-> IF i = 0 THEN s ELSE Calculated(f[i - 1], Nodes[i])]}
<1>1. 0 \in I
  <2> DEFINE f == [i \in 0 .. 0 |-> s]
  <2>1. f = [i \in 0 .. 0 |-> IF i = 0 THEN s ELSE Calculated(f[i - 1], Nodes[i])]
    OBVIOUS
  <2> QED
    BY <2>1
<1>2. ASSUME NEW m \in I PROVE m + 1 \in I
  <2>1. PICK f : f = [i \in 0 .. m |-> IF i = 0 THEN s ELSE Calculated(f[i - 1], Nodes[i])]
    OBVIOUS
  <2> DEFINE g == [i \in 0 .. m + 1 |-> IF i = m + 1 THEN Calculated(f[m], Nodes[m + 1]) ELSE f[i]]
  <2>2. ASSUME NEW i \in 0 .. m + 1
        PROVE  g[i] = IF i = 0 THEN s ELSE Calculated(g[i - 1], Nodes[i])
    <3>1. CASE i = m + 1
      <4>1. i # 0 /\ i - 1 = m /\ g[m] = f[m]
        BY <3>1
      <4> QED
        BY <3>1, <4>1
    <3>2. CASE i # m + 1
      <4>1. i \in 0 .. m
        BY <3>2
      <4>2. g[i] = f[i] /\ (i # 0 => g[i - 1] = f[i - 1])
        BY <3>2, <4>1
      <4>3. f[i] = IF i = 0 THEN s ELSE Calculated(f[i - 1], Nodes[i])
        BY <2>1, <4>1
      <4> QED
        BY <4>2, <4>3
    <3> QED
      BY <3>1, <3>2
  <2>3. g = [i \in 0 .. m + 1 |-> g[i]]
    OBVIOUS
  <2> HIDE DEF g
  <2>4. g = [i \in 0 .. m + 1 |-> IF i = 0 THEN s ELSE Calculated(g[i - 1], Nodes[i])]
    BY <2>2, <2>3
  <2>5. m + 1 \in Nat
    OBVIOUS
  <2> QED
    BY <2>4, <2>5, Zenon
<1>3. I = Nat
  <2> HIDE DEF I
  <2>1. I \in SUBSET Nat
    BY DEF I
  <2> QED
    BY <1>1, <1>2, <2>1, Induction
<1>4. \E f : f = [i \in 0 .. Len(Nodes) |-> IF i = 0 THEN s ELSE Calculated(f[i - 1], Nodes[i])]
  <2>1. Len(Nodes) \in I
    BY <1>3, BlocksAreKnown
  <2> QED
    BY <2>1
<1> QED
  BY <1>4 DEF Along

LEMMA RoundsAre ==
  ASSUME NEW s
  PROVE  Rounds(s) = [i \in 0 .. MaxPasses |-> IF i = 0 THEN s ELSE Pass(Rounds(s)[i - 1])]
<1> DEFINE I == {m \in Nat : \E f : f = [i \in 0 .. m |-> IF i = 0 THEN s ELSE Pass(f[i - 1])]}
<1>1. 0 \in I
  <2> DEFINE f == [i \in 0 .. 0 |-> s]
  <2>1. f = [i \in 0 .. 0 |-> IF i = 0 THEN s ELSE Pass(f[i - 1])]
    OBVIOUS
  <2> QED
    BY <2>1
<1>2. ASSUME NEW m \in I PROVE m + 1 \in I
  <2>1. PICK f : f = [i \in 0 .. m |-> IF i = 0 THEN s ELSE Pass(f[i - 1])]
    OBVIOUS
  <2> DEFINE g == [i \in 0 .. m + 1 |-> IF i = m + 1 THEN Pass(f[m]) ELSE f[i]]
  <2>2. ASSUME NEW i \in 0 .. m + 1
        PROVE  g[i] = IF i = 0 THEN s ELSE Pass(g[i - 1])
    <3>1. CASE i = m + 1
      <4>1. i # 0 /\ i - 1 = m /\ g[m] = f[m]
        BY <3>1
      <4> QED
        BY <3>1, <4>1
    <3>2. CASE i # m + 1
      <4>1. i \in 0 .. m
        BY <3>2
      <4>2. g[i] = f[i] /\ (i # 0 => g[i - 1] = f[i - 1])
        BY <3>2, <4>1
      <4>3. f[i] = IF i = 0 THEN s ELSE Pass(f[i - 1])
        BY <2>1, <4>1
      <4> QED
        BY <4>2, <4>3
    <3> QED
      BY <3>1, <3>2
  <2>3. g = [i \in 0 .. m + 1 |-> g[i]]
    OBVIOUS
  <2> HIDE DEF g
  <2>4. g = [i \in 0 .. m + 1 |-> IF i = 0 THEN s ELSE Pass(g[i - 1])]
    BY <2>2, <2>3
  <2>5. m + 1 \in Nat
    OBVIOUS
  <2> QED
    BY <2>4, <2>5, Zenon
<1>3. I = Nat
  <2> HIDE DEF I
  <2>1. I \in SUBSET Nat
    BY DEF I
  <2> QED
    BY <1>1, <1>2, <2>1, Induction
<1>4. \E f : f = [i \in 0 .. MaxPasses |-> IF i = 0 THEN s ELSE Pass(f[i - 1])]
  <2>1. MaxPasses \in I
    BY <1>3, BlocksAreKnown
  <2> QED
    BY <2>1
<1> QED
  BY <1>4 DEF Rounds

-----------------------------------------------------------------------------
(* A pass that begins with s, without progress: it leaves s alone, and no  *)
(* block was ready; or it calculated one.                                  *)

Went(read, z, s, t, i) ==
  /\ Loop(read, z, t) /\ s.calculated \subseteq t.calculated
  /\ \/ t = s /\ \A j \in 1 .. i : Left(s, Nodes[j].id)
     \/ t.progressed /\ t.calculated # s.calculated

LEMMA OneWent ==
  ASSUME NEW read, Reads(read), now \in Nat, NEW z \in Session(read), NEW s,
         NEW i \in Nat, i + 1 \in DOMAIN Nodes, NEW t, Went(read, z, s, t, i)
  PROVE  Went(read, z, s, Calculated(t, Nodes[i + 1]), i + 1)
<1> DEFINE u == Calculated(t, Nodes[i + 1])
<1>1. /\ Loop(read, z, u) /\ t.calculated \subseteq u.calculated
      /\ \/ u = t /\ Left(t, Nodes[i + 1].id)
         \/ u.progressed /\ u.calculated # t.calculated
  BY CalculatedKeeps DEF Went
<1> SUFFICES Went(read, z, s, u, i + 1)
  OBVIOUS
<1> HIDE DEF u
<1>2. s.calculated \subseteq u.calculated
  BY <1>1 DEF Went
<1>3. CASE t.progressed /\ t.calculated # s.calculated
  <2>1. s.calculated \subseteq t.calculated
    BY DEF Went
  <2>2. u.calculated # s.calculated
    BY <1>1, <1>3, <2>1
  <2>3. u.progressed
    BY <1>1, <1>3
  <2> QED
    BY <1>1, <1>2, <2>2, <2>3 DEF Went
<1>4. CASE t = s /\ \A j \in 1 .. i : Left(s, Nodes[j].id)
  <2>1. CASE u = t /\ Left(t, Nodes[i + 1].id)
    <3>1. ASSUME NEW j \in 1 .. i + 1 PROVE Left(s, Nodes[j].id)
      <4>1. j \in 1 .. i \/ j = i + 1
        OBVIOUS
      <4> QED
        BY <1>4, <2>1, <4>1
    <3>2. u = s
      BY <1>4, <2>1
    <3> QED
      BY <1>1, <1>2, <3>1, <3>2 DEF Went
  <2>2. CASE u.progressed /\ u.calculated # t.calculated
    BY <1>1, <1>2, <1>4, <2>2 DEF Went
  <2> QED
    BY <1>1, <2>1, <2>2
<1> QED
  BY <1>3, <1>4 DEF Went

LEMMA AllWent ==
  ASSUME NEW read, Reads(read), now \in Nat, NEW z \in Session(read), NEW s, Loop(read, z, s)
  PROVE  Went(read, z, s, Along(s)[Len(Nodes)], Len(Nodes))
<1> DEFINE I == {i \in Nat : i =< Len(Nodes) => Went(read, z, s, Along(s)[i], i)}
<1>0. Len(Nodes) \in Nat /\ DOMAIN Nodes = 1 .. Len(Nodes)
  BY BlocksAreKnown
<1>1. 0 \in I
  <2>1. Along(s)[0] = s
    BY <1>0, AlongIs
  <2> QED
    BY <2>1 DEF Went
<1>2. ASSUME NEW i \in I PROVE i + 1 \in I
  <2> SUFFICES ASSUME i + 1 =< Len(Nodes) PROVE Went(read, z, s, Along(s)[i + 1], i + 1)
    OBVIOUS
  <2>1. i + 1 \in DOMAIN Nodes /\ i \in Nat /\ i =< Len(Nodes) /\ i + 1 # 0 /\ (i + 1) - 1 = i
    BY <1>0
  <2>2. Along(s)[i + 1] = Calculated(Along(s)[i], Nodes[i + 1])
    BY <1>0, <2>1, AlongIs
  <2>3. Went(read, z, s, Along(s)[i], i)
    BY <2>1
  <2> HIDE DEF I
  <2> QED
    BY <2>1, <2>2, <2>3, OneWent
<1>3. I = Nat
  <2> HIDE DEF I
  <2>1. I \in SUBSET Nat
    BY DEF I
  <2> QED
    BY <1>1, <1>2, <2>1, Induction
<1> QED
  BY <1>0, <1>3

(* Nothing is left to calculate.                                           *)
Complete(s) == \A id \in Ids : Left(s, id)

LEMMA PassIs ==
  ASSUME NEW read, Reads(read), now \in Nat, NEW z \in Session(read), NEW s, Loop(read, z, s),
         s.progressed
  PROVE  /\ Loop(read, z, Pass(s)) /\ s.calculated \subseteq Pass(s).calculated
         /\ ~ Pass(s).progressed => Complete(Pass(s))
         /\ Pass(s).progressed => Pass(s).calculated # s.calculated
<1> DEFINE r == [s EXCEPT !.progressed = FALSE]
           t == Pass(s)
<1>1. t = Along(r)[Len(Nodes)]
  BY DEF Pass
<1>2. s \in Session(read)
  BY DEF Loop
<1>3. /\ r \in Session(read) /\ ~ r.progressed
      /\ r.outputs = s.outputs /\ r.memory = s.memory /\ r.start = s.start
      /\ r.calculated = s.calculated /\ r.runtime = s.runtime
  BY <1>2 DEF Session
<1> HIDE DEF r, t
<1>4. \A id \in Ids : /\ InputsOf(r, id) = InputsOf(s, id) /\ Standing(r, id) = Standing(s, id)
                      /\ Ready(r, id) <=> Ready(s, id)
                      /\ Untouched(z, r, id) <=> Untouched(z, s, id)
  BY <1>3, SameInputs DEF Ready, Standing, Untouched
<1>5. Loop(read, z, r)
  <2>1. \A id \in s.calculated \ Sources : FixedPoint(z, r, id)
    <3> SUFFICES ASSUME NEW id \in s.calculated \ Sources PROVE FixedPoint(z, r, id)
      OBVIOUS
    <3>1. id \in Ids /\ FixedPoint(z, s, id)
      BY <1>2, SessionIs DEF Loop
    <3>2. Result(z, r, id) = Result(z, s, id) /\ Ready(r, id) /\ Standing(r, id) = Standing(s, id)
      BY <1>4, <3>1 DEF FixedPoint, Result
    <3> QED
      BY <3>1, <3>2 DEF FixedPoint
  <2> QED
    BY <1>3, <1>4, <2>1 DEF Loop
<1>6. Went(read, z, r, t, Len(Nodes))
  BY <1>1, <1>5, AllWent
<1>7. CASE t = r /\ \A j \in 1 .. Len(Nodes) : Left(r, Nodes[j].id)
  <2>1. \A id \in Ids : \E j \in 1 .. Len(Nodes) : Nodes[j].id = id
    BY BlocksAreKnown DEF Ids
  <2> QED
    BY <1>3, <1>5, <1>7, <2>1 DEF Complete, t
<1>8. CASE t.progressed /\ t.calculated # r.calculated
  BY <1>3, <1>6, <1>8 DEF Went, t
<1> QED
  BY <1>6, <1>7, <1>8 DEF Went

LEMMA IdsAreFinite == IsFiniteSet(Ids)
<1> DEFINE D == 1 .. Len(Nodes)
           f == [i \in D |-> Nodes[i].id]
<1>1. IsFiniteSet(D)
  <2>1. 1 \in Int /\ Len(Nodes) \in Int
    BY BlocksAreKnown
  <2> QED
    BY <2>1, FS_Interval
<1>2. f \in Surjection(D, Ids)
  BY BlocksAreKnown DEF Surjection, Ids
<1> HIDE DEF D, f
<1> QED
  BY <1>1, <1>2, FS_Surjection DEF ExistsSurjection

(* Each pass that makes progress calculates one more block.                *)
Spent(read, z, s, i) ==
  /\ Loop(read, z, s)
  /\ ~ s.progressed => Complete(s)
  /\ s.progressed => Cardinality(s.calculated \ Sources) >= i

LEMMA OneSpent ==
  ASSUME NEW read, Reads(read), now \in Nat, NEW z \in Session(read), NEW s,
         NEW i \in Nat, Spent(read, z, s, i)
  PROVE  Spent(read, z, Pass(s), i + 1)
<1>1. CASE ~ s.progressed
  <2>1. Pass(s) = s
    BY <1>1 DEF Pass
  <2> QED
    BY <1>1, <2>1 DEF Spent
<1>2. CASE s.progressed
  <2> DEFINE t == Pass(s)
  <2>1. /\ Loop(read, z, t) /\ s.calculated \subseteq t.calculated
        /\ ~ t.progressed => Complete(t)
        /\ t.progressed => t.calculated # s.calculated
    BY <1>2, PassIs DEF Spent
  <2> HIDE DEF t
  <2>2. ASSUME t.progressed PROVE Cardinality(t.calculated \ Sources) >= i + 1
    <3> DEFINE A == s.calculated \ Sources
               B == t.calculated \ Sources
    <3>1. t.calculated \subseteq Ids /\ Sources \subseteq s.calculated
      BY <2>1, SessionIs DEF Loop, Spent
    <3>2. A \subseteq B /\ A # B /\ B \subseteq Ids
      BY <2>1, <2>2, <3>1
    <3>3. IsFiniteSet(B)
      BY <3>2, IdsAreFinite, FS_Subset
    <3>4. Cardinality(A) >= i
      BY <1>2 DEF Spent
    <3> HIDE DEF A, B
    <3>5. Cardinality(A) =< Cardinality(B) /\ Cardinality(A) # Cardinality(B) /\ IsFiniteSet(A)
      BY <3>2, <3>3, FS_Subset
    <3>6. Cardinality(A) \in Nat /\ Cardinality(B) \in Nat
      BY <3>3, <3>5, FS_CardinalityType
    <3>7. Cardinality(B) >= i + 1
      BY <3>4, <3>5, <3>6
    <3> QED
      BY <3>7 DEF B
  <2> QED
    BY <2>1, <2>2 DEF Spent, t
<1> QED
  BY <1>1, <1>2

(* What an evaluation makes of a session: each block that has its inputs   *)
(* is calculated, once, from what its inputs are in the end.               *)
LEMMA EvaluateIs ==
  ASSUME NEW read, Reads(read), now \in Nat, EnoughPasses,
         NEW sources \in [Ids -> Shown], NEW kept \in [Ids -> Memories], NEW starts \in [Ids -> Began]
  PROVE  LET z == Beginning(read, sources, kept, starts)
             e == evaluate(read, sources, kept, starts)
         IN  z \in Session(read) /\ Loop(read, z, e) /\ Complete(e)
<1> DEFINE z == Beginning(read, sources, kept, starts)
           R == Rounds(z)
<1>1. z \in Session(read)
  <2> DEFINE r == [id \in Ids |-> IF id \in Sources \ Inputs /\ sources[id] = Unset
                                  THEN Good(FALSE) ELSE sources[id]]
  <2>1. Good(FALSE) \in Shown
    BY RuntimeIs DEF Shown
  <2>2. r \in [Ids -> Shown]
    BY <2>1
  <2>3. Sources \in SUBSET Ids
    BY SourceEdges
  <2>4. z = [outputs |-> read, memory |-> kept, start |-> starts, calculated |-> Sources,
             progressed |-> TRUE, runtime |-> r]
    BY DEF Beginning
  <2> HIDE DEF r, z
  <2> QED
    BY <2>2, <2>3, <2>4 DEF Session
<1>2. z.calculated = Sources /\ z.progressed
  BY DEF Beginning
<1> HIDE DEF z
<1>3. Spent(read, z, z, 0)
  <2>1. Loop(read, z, z)
    BY <1>1, <1>2 DEF Loop, Untouched
  <2>2. z.calculated \ Sources = {}
    BY <1>2
  <2>3. Cardinality({}) = 0
    BY FS_EmptySet
  <2>4. Cardinality(z.calculated \ Sources) >= 0
    BY <2>2, <2>3
  <2> QED
    BY <1>2, <2>1, <2>4 DEF Spent
<1> DEFINE I == {i \in Nat : i =< MaxPasses => Spent(read, z, R[i], i)}
<1>4. 0 \in I
  <2>1. R[0] = z
    BY BlocksAreKnown, RoundsAre
  <2> QED
    BY <1>3, <2>1
<1>5. ASSUME NEW i \in I PROVE i + 1 \in I
  <2> SUFFICES ASSUME i + 1 =< MaxPasses PROVE Spent(read, z, R[i + 1], i + 1)
    OBVIOUS
  <2>1. MaxPasses \in Nat
    BY BlocksAreKnown
  <2>2. i + 1 \in 0 .. MaxPasses /\ i \in Nat /\ i =< MaxPasses /\ i + 1 # 0 /\ (i + 1) - 1 = i
    BY <2>1
  <2>3. R[i + 1] = Pass(R[i])
    <3>1. Rounds(z)[i + 1] = IF i + 1 = 0 THEN z ELSE Pass(Rounds(z)[(i + 1) - 1])
      BY <2>2, RoundsAre
    <3> QED
      BY <2>2, <3>1
  <2>4. Spent(read, z, R[i], i)
    BY <2>2
  <2> HIDE DEF I, R
  <2> QED
    BY <1>1, <2>2, <2>3, <2>4, OneSpent
<1>6. I = Nat
  <2> HIDE DEF I
  <2>1. I \in SUBSET Nat
    BY DEF I
  <2> QED
    BY <1>4, <1>5, <2>1, Induction
<1> DEFINE e == R[MaxPasses]
<1>7. Spent(read, z, e, MaxPasses) /\ MaxPasses \in Nat
  BY <1>6, BlocksAreKnown
<1>8. e = evaluate(read, sources, kept, starts)
  BY DEF evaluate, z
<1> HIDE DEF I, R, e
<1>9. ASSUME e.progressed PROVE Complete(e)
  <2> DEFINE A == e.calculated \ Sources
             B == Ids \ Sources
  <2>1. Loop(read, z, e) /\ Cardinality(e.calculated \ Sources) >= MaxPasses
    BY <1>7, <1>9 DEF Spent
  <2>2. A \subseteq B
    BY <2>1, SessionIs DEF Loop
  <2>3. IsFiniteSet(B)
    BY IdsAreFinite, FS_Subset
  <2>4. Cardinality(B) =< MaxPasses
    BY DEF EnoughPasses
  <2> HIDE DEF A, B
  <2>5. Cardinality(A) =< Cardinality(B) /\ IsFiniteSet(A) /\ (Cardinality(B) = Cardinality(A) => B = A)
    BY <2>2, <2>3, FS_Subset
  <2>6. Cardinality(A) \in Nat /\ Cardinality(B) \in Nat
    BY <2>3, <2>5, FS_CardinalityType
  <2>7. Cardinality(A) >= MaxPasses
    BY <2>1 DEF A
  <2>8. Cardinality(A) = Cardinality(B)
    BY <1>7, <2>4, <2>5, <2>6, <2>7
  <2>9. A = B
    BY <2>5, <2>8
  <2>10. Sources \subseteq e.calculated
    BY <2>1 DEF Loop
  <2>11. \A id \in Ids : id \in e.calculated
    BY <2>9, <2>10 DEF A, B
  <2> QED
    BY <2>11 DEF Complete, Left
<1>10. Loop(read, z, e) /\ Complete(e)
  BY <1>7, <1>9 DEF Spent
<1> QED
  BY <1>1, <1>10, <1>8 DEF z

-----------------------------------------------------------------------------
(* One scan of a timer or of an edge whose inputs are all GOOD: the memory *)
(* and the history go together.                                            *)

TimerShows(n, h) ==
  LET due == h.at - h.since >= n.duration
  IN  CASE n.type = "TON"   -> h.on /\ due
        [] n.type = "TOF"   -> h.on \/ ~ due
        [] n.type = "PULSE" -> h.on /\ ~ due
        [] OTHER            -> h.on

Scanned(h, on) ==
  [on |-> on, before |-> h.on, at |-> now, since |-> IF on # h.on THEN now ELSE h.since]

LEMMA TimerScans ==
  ASSUME NEW n, n.type \in TimerTypes, n.duration \in Nat, now \in Nat,
         NEW in, AllGood(in), 1 \in DOMAIN in,
         NEW h \in History, NEW kept \in Memories, h.on = Truth(kept)
  PROVE  LET on == Truth(in[1].value)
             o == evaluateNode(n, in, kept, h.since)
             k == Scanned(h, on)
         IN  /\ k \in History /\ Truth(o.kept) = k.on /\ o.began = k.since
             /\ k.since # Unset /\ k.on = k.before => o.shown.value = TimerShows(n, k)
<1> DEFINE on == Truth(in[1].value)
           o == evaluateNode(n, in, kept, h.since)
           k == Scanned(h, on)
           active == Truth(kept)
           elapsed == now - (IF h.since = Unset THEN now ELSE h.since)
<1>1. \A x : Truth(x) \in BOOLEAN
  BY DEF Truth
<1>2. Signals(in)[1] = on
  BY DEF Signals
<1>3. h.on \in BOOLEAN /\ h.since \in Nat \cup {Unset} /\ Unset \notin Nat
  BY UnsetAssumption DEF History
<1>4. o = Shows(Timer(n, on, active, elapsed), IF on # active THEN on ELSE kept,
                Restarted(h.since, on, active, now))
  BY <1>2, Evaluates
<1>5. on \in BOOLEAN /\ active \in BOOLEAN
  BY <1>1
<1>6. Truth(on) = on
  BY <1>5, UnsetAssumption DEF Truth
<1> HIDE DEF o, on
<1>7. k \in History
  BY <1>3, <1>5 DEF Scanned, History
<1>8. Truth(o.kept) = k.on
  <2>1. o.kept = (IF on # active THEN on ELSE kept) /\ k.on = on
    BY <1>4 DEF Shows, Scanned
  <2>2. CASE on # active
    BY <1>6, <2>1, <2>2
  <2>3. CASE on = active
    BY <2>1, <2>3
  <2> QED
    BY <2>2, <2>3
<1>9. o.began = k.since
  BY <1>4 DEF Shows, Scanned, Restarted
<1>10. ASSUME k.since # Unset, k.on = k.before
       PROVE  o.shown.value = TimerShows(n, k)
  <2>1. on = active /\ h.since \in Nat /\ elapsed = now - h.since /\ elapsed \in Int
    BY <1>3, <1>10 DEF Scanned
  <2>2. k.on = on /\ k.at = now /\ k.since = h.since
    BY <1>10, <2>1 DEF Scanned
  <2>3. o.shown.value = Timer(n, on, active, elapsed)
    BY <1>4 DEF Shows, Good
  <2> DEFINE due == k.at - k.since >= n.duration
  <2>4. due \in BOOLEAN /\ due <=> elapsed >= n.duration
    BY <2>1, <2>2
  <2>5. ~ due <=> elapsed < n.duration
    BY <2>1, <2>2
  <2> HIDE DEF elapsed, active, due, k
  <2>6. Timer(n, on, active, elapsed) = TimerShows(n, k)
    BY <1>5, <2>1, <2>2, <2>4, <2>5 DEF Timer, TimerShows, due
  <2> QED
    BY <2>3, <2>6
<1> QED
  BY <1>7, <1>8, <1>9, <1>10 DEF o, on

LEMMA EdgeScans ==
  ASSUME NEW n, n.type = "RISING_EDGE",
         NEW in, AllGood(in), 1 \in DOMAIN in, NEW began,
         NEW h \in History, NEW kept \in Memories, h.on = Truth(kept)
  PROVE  LET on == Truth(in[1].value)
             o == evaluateNode(n, in, kept, began)
             k == Scanned(h, on)
         IN  /\ Truth(o.kept) = k.on
             /\ o.shown.value = (k.on /\ ~ k.before)
<1> DEFINE on == Truth(in[1].value)
           o == evaluateNode(n, in, kept, began)
<1>1. on \in BOOLEAN /\ Truth(kept) \in BOOLEAN
  BY DEF Truth
<1>2. Signals(in)[1] = on
  BY DEF Signals
<1>3. o = Shows(Step(n.type, on, kept), on, began)
  BY <1>2, Evaluates DEF StepTypes
<1>4. Truth(on) = on
  BY <1>1, UnsetAssumption DEF Truth
<1> HIDE DEF o, on
<1>5. o.kept = on /\ o.shown.value = Step(n.type, on, kept)
  BY <1>3 DEF Shows, Good
<1>6. Step(n.type, on, kept) = (on /\ ~ Truth(kept))
  BY DEF Step
<1>7. Scanned(h, on).on = on /\ Scanned(h, on).before = Truth(kept)
  BY DEF Scanned
<1> QED
  BY <1>4, <1>5, <1>6, <1>7 DEF o, on

-----------------------------------------------------------------------------
(* The inductive invariant.                                                *)

Fed(id) == \A e \in Incoming[id] : runtime[e[1]] # Unset

(* What a read leaves: Booleans that are GOOD, and the block shows them.   *)
ReadsCorrect ==
  \A id \in Inputs :
    /\ \A port \in SubInputs(id) :
         outputs[id][port] # Unset /\ outputs[id][port].quality = "GOOD" =>
           outputs[id][port] \in {Good(v) : v \in BOOLEAN}
    /\ NodeOf[id].type = "MODBUS_INPUT" => runtime[id] = outputs[id][0]

(* No block shows anything before what it is fed by.                       *)
FedFirst == \A id \in Ids \ Sources : runtime[id] # Unset => Fed(id)

(* The history of a timer or of an edge is what its memory says.           *)
Remembered ==
  /\ \A id \in Timers \cup OfType({"RISING_EDGE"}) : held[id].on = Truth(memory[id])
  /\ \A id \in Timers : held[id].since = start[id]

Correct(id) ==
  LET in == InputsOf(Now, id)
      n  == NodeOf[id]
  IN  /\ ~ AllGood(in) => runtime[id].quality # "GOOD"
      /\ AllGood(in) /\ n.type \in GateTypes => runtime[id] = Good(Gate(n.type, Signals(in)))
      /\ AllGood(in) /\ id \in Outputs => runtime[id] = in[1]
      /\ AllGood(in) /\ n.type = "RISING_EDGE" => runtime[id].value = (held[id].on /\ ~ held[id].before)
      /\ AllGood(in) /\ id \in Timers /\ held[id].since # Unset /\ held[id].on = held[id].before =>
           runtime[id].value = TimerShows(n, held[id])

(* While it runs, every block that is fed shows what its inputs make of it. *)
Scanning ==
  running => /\ \A id \in Sources \ Inputs : runtime[id] # Unset
             /\ \A id \in Ids \ Sources : Fed(id) => runtime[id] # Unset /\ Correct(id)

EngineInv == EngineTypeOK /\ ReadsCorrect /\ FedFirst /\ Remembered /\ Scanning

-----------------------------------------------------------------------------
(* An evaluation, of a running workflow with these reads and sources.      *)
LEMMA Evaluation ==
  ASSUME EnoughPasses, EngineTypeOK, Remembered, running',
         NEW read, Reads(read), outputs' = read, NEW sources \in [Ids -> Shown],
         \A id \in Ids \ Sources :
           sources[id] # Unset => \A e \in Incoming[id] : sources[e[1]] # Unset,
         Evaluated(read, sources)
  PROVE  /\ runtime' \in [Ids -> Shown] /\ memory' \in [Ids -> Memories] /\ start' \in [Ids -> Began]
         /\ held' \in [Remembering -> History]
         /\ \A id \in Inputs : runtime'[id] = sources[id]
         /\ FedFirst' /\ Remembered' /\ Scanning'
<1> DEFINE z == Beginning(read, sources, memory, start)
           e == evaluate(read, sources, memory, start)
<1>1. /\ runtime' = e.runtime /\ memory' = e.memory /\ start' = e.start
      /\ held' = [id \in Remembering |-> Seen(e, id)]
  BY DEF Evaluated
<1>2. /\ now \in Nat /\ memory \in [Ids -> Memories] /\ start \in [Ids -> Began]
      /\ held \in [Remembering -> History]
  BY DEF EngineTypeOK, Memories, Began
<1>3. z \in Session(read) /\ Loop(read, z, e) /\ Complete(e)
  BY <1>2, EvaluateIs
<1>4. /\ e \in Session(read) /\ Sources \subseteq e.calculated /\ e.calculated \subseteq Ids
      /\ e.outputs = read /\ e.runtime \in [Ids -> Shown]
      /\ e.memory \in [Ids -> Memories] /\ e.start \in [Ids -> Began]
  BY <1>3, SessionIs DEF Loop
<1>5. /\ z.memory = memory /\ z.start = start
      /\ \A id \in Ids : id \notin Sources \ Inputs => z.runtime[id] = sources[id]
      /\ \A id \in Ids : sources[id] # Unset => z.runtime[id] = sources[id]
      /\ \A id \in Sources \ Inputs : z.runtime[id] # Unset
  <2>1. /\ z.memory = memory /\ z.start = start
        /\ z.runtime = [id \in Ids |-> IF id \in Sources \ Inputs /\ sources[id] = Unset
                                       THEN Good(FALSE) ELSE sources[id]]
    BY DEF Beginning
  <2>2. Good(FALSE) # Unset
    BY RuntimeIs
  <2>3. \A id \in Sources : id \in Ids
    BY SourceEdges
  <2> HIDE DEF z
  <2> QED
    BY <2>1, <2>2, <2>3
<1> HIDE DEF e, z
<1>6. Inputs \subseteq Sources
  BY DEF Inputs, Sources, SourceTypes, OfType
<1>7. \A id \in Inputs : runtime'[id] = sources[id]
  <2>1. \A id \in Inputs : id \in Ids /\ id \in Sources
    BY <1>6, SourceEdges
  <2> QED
    BY <1>1, <1>3, <1>5, <2>1 DEF Loop, Untouched
(* A block that was calculated is what its inputs make of it.              *)
<1>8. ASSUME NEW id \in e.calculated, id \notin Sources
      PROVE  /\ id \in Ids /\ Ready(e, id)
             /\ InputsOf(e, id) \in [1 .. NodeOf[id].inputCount -> Runtime]
             /\ Outcome(NodeOf[id], InputsOf(e, id), memory[id], start[id]) \in Outcomes
             /\ Standing(e, id) = Outcome(NodeOf[id], InputsOf(e, id), memory[id], start[id])
             /\ e.runtime[id] # Unset
  <2>1. id \in Ids /\ FixedPoint(z, e, id)
    BY <1>3, <1>4, <1>8 DEF Loop
  <2>2. InputsOf(e, id) \in [1 .. NodeOf[id].inputCount -> Runtime]
    BY <1>4, <2>1, InputsAre DEF FixedPoint
  <2>3. memory[id] \in Memories /\ start[id] \in Began
    BY <1>2, <2>1
  <2>4. Outcome(NodeOf[id], InputsOf(e, id), memory[id], start[id]) \in Outcomes
    BY <1>2, <1>8, <2>1, <2>2, <2>3, OutcomeIs
  <2>5. Standing(e, id) = Outcome(NodeOf[id], InputsOf(e, id), memory[id], start[id])
    BY <1>5, <2>1 DEF FixedPoint, Result
  <2>6. e.runtime[id] # Unset
    <3>1. Standing(e, id) \in Outcomes
      BY <2>4, <2>5
    <3>2. e.runtime[id] \in Runtime
      BY <3>1 DEF Standing, Outcomes
    <3> QED
      BY <3>2, RuntimeIs
  <2> QED
    BY <2>1, <2>2, <2>4, <2>5, <2>6 DEF FixedPoint
(* What shows something was calculated: the first block that was not would *)
(* have its inputs.                                                        *)
<1>9. \A id \in Ids : e.runtime[id] # Unset => id \in e.calculated
  <2> DEFINE S == {id \in Ids : e.runtime[id] # Unset /\ id \notin e.calculated}
  <2> SUFFICES ASSUME S # {} PROVE FALSE
    OBVIOUS
  <2>1. PICK id \in S : \A f \in Incoming[id] : f[1] \in Ids /\ f[1] \notin S
    BY First
  <2>2. id \in Ids /\ id \notin Sources /\ id \notin e.calculated
    BY <1>4
  <2>3. sources[id] # Unset
    BY <1>3, <1>5, <2>2 DEF Loop, Untouched
  <2>4. ASSUME NEW f \in Incoming[id] PROVE f[1] \in e.calculated /\ e.runtime[f[1]] # Unset
    <3>1. f[1] \in Ids /\ sources[f[1]] # Unset /\ z.runtime[f[1]] # Unset
      BY <1>5, <2>1, <2>2, <2>3
    <3>2. e.runtime[f[1]] # Unset
      BY <1>3, <1>8, <3>1 DEF Loop, Untouched
    <3> QED
      BY <2>1, <3>1, <3>2
  <2>5. Ready(e, id)
    BY <2>4 DEF Ready
  <2> QED
    BY <1>3, <2>2, <2>5 DEF Complete, Left
<1>10. ASSUME NEW id \in Ids, \A f \in Incoming[id] : e.runtime[f[1]] # Unset
       PROVE  id \in e.calculated
  <2>1. Ready(e, id)
    BY <1>9, <1>10, EdgeIs DEF Ready
  <2> QED
    BY <1>3, <2>1 DEF Complete, Left
<1>11. FedFirst'
  <2> SUFFICES ASSUME NEW id \in Ids \ Sources, e.runtime[id] # Unset, NEW f \in Incoming[id]
               PROVE  e.runtime[f[1]] # Unset
    BY <1>1 DEF FedFirst, Fed
  <2> QED
    BY <1>8, <1>9 DEF Ready
<1>12. \A id \in Timers \cup OfType({"RISING_EDGE"}) :
         /\ id \in Ids /\ id \notin Sources /\ id \notin Outputs /\ id \in Remembering
         /\ 1 \in 1 .. NodeOf[id].inputCount
  <2> SUFFICES ASSUME NEW id \in Timers \cup OfType({"RISING_EDGE"})
               PROVE  /\ id \in Ids /\ id \notin Sources /\ id \notin Outputs /\ id \in Remembering
                      /\ 1 \in 1 .. NodeOf[id].inputCount
    OBVIOUS
  <2>1. id \in Ids /\ NodeOf[id].type \in TimerTypes \cup {"RISING_EDGE"}
    BY DEF Timers, OfType
  <2>2. id \notin Sources /\ id \notin Outputs /\ id \in Remembering
    BY <2>1, BlockIs DEF TimerTypes, SourceTypes, StepTypes
  <2> QED
    BY <2>1, <2>2, CountIs
<1>13. ASSUME NEW id \in e.calculated, id \notin Sources, id \notin Outputs
       PROVE  Standing(e, id) = evaluateNode(NodeOf[id], InputsOf(e, id), memory[id], start[id])
  BY <1>8, <1>13, BlockIs DEF Outcome
<1>14. ASSUME NEW id \in Remembering
       PROVE  /\ Ready(e, id) /\ AllGood(InputsOf(e, id)) =>
                   held'[id] = Scanned(held[id], Truth(InputsOf(e, id)[1].value))
              /\ ~ (Ready(e, id) /\ AllGood(InputsOf(e, id))) => held'[id] = held[id]
              /\ held'[id] \in History
  <2>1. held'[id] = Seen(e, id)
    BY <1>1
  <2>2. Seen(e, id) = IF Ready(e, id) /\ AllGood(InputsOf(e, id))
                      THEN Scanned(held[id], Truth(InputsOf(e, id)[1].value)) ELSE held[id]
    BY DEF Seen, Scanned
  <2>3. held[id] \in History
    BY <1>2
  <2>4. Truth(InputsOf(e, id)[1].value) \in BOOLEAN
    BY DEF Truth
  <2>5. Scanned(held[id], Truth(InputsOf(e, id)[1].value)) \in History
    <3> HIDE DEF Truth
    <3> QED
      BY <1>2, <2>3, <2>4 DEF Scanned, History
  <2> QED
    BY <2>1, <2>2, <2>3, <2>5
<1>15. held' \in [Remembering -> History]
  BY <1>1, <1>14
<1>16. ASSUME NEW id \in Timers \cup OfType({"RISING_EDGE"})
       PROVE  /\ held'[id].on = Truth(memory'[id])
              /\ id \in Timers => held'[id].since = start'[id]
  <2> DEFINE in == InputsOf(e, id)
             o == evaluateNode(NodeOf[id], in, memory[id], start[id])
  <2>1. /\ id \in Ids /\ id \notin Sources /\ id \notin Outputs /\ id \in Remembering
        /\ held[id].on = Truth(memory[id]) /\ held[id] \in History /\ memory[id] \in Memories
        /\ id \in Timers => held[id].since = start[id]
    BY <1>2, <1>12 DEF Remembered
  <2>2. CASE id \in e.calculated /\ AllGood(in)
    <3>1. Ready(e, id) /\ Standing(e, id) = o /\ 1 \in DOMAIN in
      BY <1>8, <1>12, <1>13, <2>1, <2>2
    <3>2. held'[id] = Scanned(held[id], Truth(in[1].value))
      BY <1>14, <2>1, <2>2, <3>1
    <3>3. memory'[id] = o.kept /\ start'[id] = o.began
      BY <1>1, <3>1 DEF Standing
    <3>4. CASE id \in Timers
      <4>1. NodeOf[id].type \in TimerTypes /\ NodeOf[id].duration \in Nat
        BY <2>1, <3>4, BlockIs
      <4>2. o = evaluateNode(NodeOf[id], in, memory[id], held[id].since)
        BY <2>1, <3>4
      <4> HIDE DEF o, in
      <4> QED
        BY <1>2, <2>1, <2>2, <3>1, <3>2, <3>3, <4>1, <4>2, TimerScans
    <3>5. CASE id \notin Timers
      <4>1. NodeOf[id].type = "RISING_EDGE"
        BY <3>5 DEF OfType
      <4>2. Truth(o.kept) = Scanned(held[id], Truth(in[1].value)).on
        BY <2>1, <2>2, <3>1, <4>1, EdgeScans
      <4> HIDE DEF o, in
      <4> QED
        BY <3>2, <3>3, <3>5, <4>2
    <3> QED
      BY <3>4, <3>5
  <2>3. CASE id \in e.calculated /\ ~ AllGood(in)
    <3>1. Standing(e, id) = [shown |-> Uncertain(memory[id]), kept |-> memory[id], began |-> start[id]]
      BY <1>13, <2>1, <2>3, Evaluates
    <3>2. memory'[id] = memory[id] /\ start'[id] = start[id]
      BY <1>1, <3>1 DEF Standing
    <3> QED
      BY <1>14, <2>1, <2>3, <3>2
  <2>4. CASE id \notin e.calculated
    <3>1. ~ Ready(e, id)
      BY <1>3, <2>1, <2>4 DEF Complete, Left
    <3>2. memory'[id] = memory[id] /\ start'[id] = start[id]
      BY <1>1, <1>3, <1>5, <2>1, <2>4 DEF Loop, Untouched
    <3> QED
      BY <1>14, <2>1, <3>1, <3>2
  <2> QED
    BY <2>2, <2>3, <2>4
<1>17. Remembered'
  BY <1>16 DEF Remembered
<1>18. ASSUME NEW id \in Ids \ Sources, \A f \in Incoming[id] : e.runtime[f[1]] # Unset
       PROVE  runtime'[id] # Unset /\ Correct(id)'
  <2> DEFINE in == InputsOf(e, id)
             n == NodeOf[id]
  <2>1. id \in Ids /\ id \notin Sources /\ id \in e.calculated
    BY <1>10, <1>18
  <2>2. /\ Ready(e, id) /\ in \in [1 .. n.inputCount -> Runtime] /\ runtime'[id] # Unset
        /\ Standing(e, id) = Outcome(n, in, memory[id], start[id])
    BY <1>1, <1>8, <2>1
  <2>3. InputsOf(Now, id)' = in
    <3>1. Now' = [outputs |-> read, runtime |-> e.runtime]
      BY <1>1 DEF Now
    <3> DEFINE t == [outputs |-> read, runtime |-> e.runtime]
    <3>2. t.outputs = e.outputs /\ t.runtime = e.runtime
      BY <1>4
    <3> HIDE DEF t
    <3>3. InputsOf(t, id) = in
      BY <2>1, <3>2, SameInputs
    <3> QED
      BY <3>1, <3>3 DEF t
  <2>4. id \notin Outputs => Standing(e, id) = evaluateNode(n, in, memory[id], start[id])
    BY <1>13, <2>1
  <2>5. runtime'[id] = Standing(e, id).shown
    BY <1>1 DEF Standing
  <2>6. CASE id \in Outputs
    <3>1. n.type = "MODBUS_OUTPUT" /\ n.inputCount = 1
      BY <2>1, <2>6, BlockIs, CountIs
    <3>2. n.type \notin GateTypes /\ n.type # "RISING_EDGE" /\ n.type \notin TimerTypes
      BY <3>1 DEF GateTypes, TimerTypes
    <3>3. id \notin Timers
      BY <2>1, <3>2, BlockIs
    <3>4. runtime'[id] = IF in[1].quality = "GOOD" THEN in[1] ELSE Uncertain(in[1].value)
      BY <2>2, <2>5, <3>1 DEF Outcome
    <3>5. DOMAIN in = {1}
      BY <2>2, <3>1
    <3>6. AllGood(in) <=> in[1].quality = "GOOD"
      BY <3>5 DEF AllGood
    <3>7. Uncertain(in[1].value).quality # "GOOD"
      BY DEF Uncertain
    <3> HIDE DEF in, n
    <3>8. /\ ~ AllGood(in) => runtime'[id].quality # "GOOD"
          /\ AllGood(in) => runtime'[id] = in[1]
      BY <3>4, <3>6, <3>7
    <3> QED
      BY <2>2, <2>3, <3>2, <3>3, <3>8 DEF Correct, n
  <2>7. CASE id \notin Outputs
    <3> DEFINE o == evaluateNode(n, in, memory[id], start[id])
    <3>1. runtime'[id] = o.shown
      BY <2>4, <2>5, <2>7
    <3>2. ~ AllGood(in) => runtime'[id].quality # "GOOD"
      <4> SUFFICES ASSUME ~ AllGood(in) PROVE runtime'[id].quality # "GOOD"
        OBVIOUS
      <4>1. o = [shown |-> Uncertain(memory[id]), kept |-> memory[id], began |-> start[id]]
        BY Evaluates
      <4> QED
        BY <3>1, <4>1 DEF Uncertain
    <3>3. AllGood(in) /\ n.type \in GateTypes => runtime'[id] = Good(Gate(n.type, Signals(in)))
      <4> SUFFICES ASSUME AllGood(in), n.type \in GateTypes
                   PROVE  runtime'[id] = Good(Gate(n.type, Signals(in)))
        OBVIOUS
      <4>1. o = Shows(Gate(n.type, Signals(in)), memory[id], start[id])
        BY Evaluates
      <4> QED
        BY <3>1, <4>1 DEF Shows
    <3>4. ASSUME AllGood(in), id \in Timers \cup OfType({"RISING_EDGE"})
          PROVE  /\ held'[id] = Scanned(held[id], Truth(in[1].value))
                 /\ held[id].on = Truth(memory[id]) /\ held[id] \in History /\ memory[id] \in Memories
                 /\ 1 \in DOMAIN in
      BY <1>2, <1>12, <1>14, <2>1, <2>2, <3>4 DEF Remembered
    <3>5. AllGood(in) /\ n.type = "RISING_EDGE" => runtime'[id].value = (held'[id].on /\ ~ held'[id].before)
      <4> SUFFICES ASSUME AllGood(in), n.type = "RISING_EDGE"
                   PROVE  runtime'[id].value = (held'[id].on /\ ~ held'[id].before)
        OBVIOUS
      <4>1. id \in OfType({"RISING_EDGE"})
        BY <2>1 DEF OfType
      <4>2. o.shown.value = (Scanned(held[id], Truth(in[1].value)).on
                             /\ ~ Scanned(held[id], Truth(in[1].value)).before)
        BY <3>4, <4>1, EdgeScans
      <4> HIDE DEF o, in, n
      <4> QED
        BY <3>1, <3>4, <4>1, <4>2
    <3>6. AllGood(in) /\ id \in Timers /\ held'[id].since # Unset /\ held'[id].on = held'[id].before =>
            runtime'[id].value = TimerShows(n, held'[id])
      <4> SUFFICES ASSUME AllGood(in), id \in Timers, held'[id].since # Unset,
                          held'[id].on = held'[id].before
                   PROVE  runtime'[id].value = TimerShows(n, held'[id])
        OBVIOUS
      <4>1. n.type \in TimerTypes /\ n.duration \in Nat
        BY <2>1, BlockIs
      <4>2. o = evaluateNode(n, in, memory[id], held[id].since)
        BY DEF Remembered
      <4> HIDE DEF o, in, n
      <4> QED
        BY <1>2, <3>1, <3>4, <4>1, <4>2, TimerScans
    <3> HIDE DEF o, in, n
    <3> QED
      BY <2>2, <2>3, <2>7, <3>2, <3>3, <3>5, <3>6 DEF Correct, n
  <2> QED
    BY <2>6, <2>7
<1>19. Scanning'
  <2>1. \A id \in Sources \ Inputs : runtime'[id] # Unset
    BY <1>1, <1>3, <1>5, SourceEdges DEF Loop, Untouched
  <2>2. ASSUME NEW id \in Ids \ Sources, Fed(id)' PROVE runtime'[id] # Unset /\ Correct(id)'
    BY <1>1, <1>18, <2>2 DEF Fed
  <2> QED
    BY <2>1, <2>2 DEF Scanning
<1> QED
  BY <1>1, <1>4, <1>7, <1>11, <1>15, <1>17, <1>19

-----------------------------------------------------------------------------
(* The steps.                                                              *)

GoodRead(read) ==
  \A id \in Inputs : \A port \in SubInputs(id) :
    read[id][port] # Unset /\ read[id][port].quality = "GOOD" =>
      read[id][port] \in {Good(v) : v \in BOOLEAN}

LEMMA InitInv == EngineInit => EngineInv
<1> SUFFICES ASSUME EngineInit PROVE EngineInv
  OBVIOUS
<1>1. EngineTypeOK
  <2>1. outputs = [id \in Inputs |-> outputs[id]]
    BY DEF EngineInit
  <2>2. \A id \in Inputs : outputs[id] \in [SubInputs(id) -> Runtime \cup {Unset}]
    BY DEF EngineInit
  <2>3. held \in [Remembering -> History]
    BY DEF EngineInit, Unseen, History
  <2> QED
    BY <2>1, <2>2, <2>3 DEF EngineInit, EngineTypeOK
<1>2. ReadsCorrect
  <2>1. ASSUME NEW id \in Inputs
        PROVE  /\ \A port \in SubInputs(id) : outputs[id][port] = Unset
               /\ NodeOf[id].type = "MODBUS_INPUT" => runtime[id] = outputs[id][0]
    <3>1. id \in Ids
      BY DEF Inputs, OfType
    <3>2. NodeOf[id].type = "MODBUS_INPUT" => 0 \in SubInputs(id)
      BY <3>1, BlockIs
    <3> QED
      BY <3>1, <3>2 DEF EngineInit
  <2> QED
    BY <2>1 DEF ReadsCorrect
<1>3. FedFirst
  BY DEF EngineInit, FedFirst
<1>4. Remembered
  <2>1. \A id \in Timers \cup OfType({"RISING_EDGE"}) : id \in Ids /\ id \in Remembering
    BY DEF Timers, Remembering, OfType, TimerTypes, StepTypes
  <2>2. Truth(Unset) = FALSE
    BY DEF Truth
  <2>3. Unseen.on = FALSE /\ Unseen.since = Unset
    BY DEF Unseen
  <2>4. ASSUME NEW id \in Timers \cup OfType({"RISING_EDGE"})
        PROVE  held[id] = Unseen /\ memory[id] = Unset /\ start[id] = Unset
    BY <2>1 DEF EngineInit
  <2> QED
    BY <2>2, <2>3, <2>4 DEF Remembered
<1>5. Scanning
  BY DEF EngineInit, Scanning
<1> QED
  BY <1>1, <1>2, <1>3, <1>4, <1>5 DEF EngineInv

LEMMA AfterEvaluation ==
  ASSUME EnoughPasses, EngineInv, running' = TRUE, now' = now,
         NEW read, Reads(read), GoodRead(read), read = [id \in Inputs |-> read[id]],
         outputs' = read, NEW sources \in [Ids -> Shown],
         \A id \in Ids \ Sources : sources[id] = runtime[id],
         \A id \in Ids : runtime[id] # Unset => sources[id] # Unset,
         \A id \in Inputs : NodeOf[id].type = "MODBUS_INPUT" => sources[id] = read[id][0],
         Evaluated(read, sources)
  PROVE  EngineInv'
<1>1. \A id \in Ids \ Sources :
        sources[id] # Unset => \A e \in Incoming[id] : sources[e[1]] # Unset
  BY EdgeIs DEF EngineInv, FedFirst, Fed
<1>2. /\ runtime' \in [Ids -> Shown] /\ memory' \in [Ids -> Memories] /\ start' \in [Ids -> Began]
      /\ held' \in [Remembering -> History]
      /\ \A id \in Inputs : runtime'[id] = sources[id]
      /\ FedFirst' /\ Remembered' /\ Scanning'
  <2>1. running'
    OBVIOUS
  <2> QED
    BY <1>1, <2>1, Evaluation DEF EngineInv
<1>3. EngineTypeOK'
  <2>1. now' \in Nat /\ running' \in BOOLEAN
    BY DEF EngineInv, EngineTypeOK
  <2>2. outputs' = [id \in Inputs |-> outputs'[id]]
    OBVIOUS
  <2>3. \A id \in Inputs : outputs'[id] \in [SubInputs(id) -> Shown]
    BY DEF Reads
  <2> QED
    BY <1>2, <2>1, <2>2, <2>3 DEF EngineTypeOK, Memories, Began, Shown
<1>4. ReadsCorrect'
  BY <1>2 DEF ReadsCorrect, GoodRead
<1> QED
  BY <1>2, <1>3, <1>4 DEF EngineInv

LEMMA ShowsRead ==
  ASSUME NEW id \in Inputs, NEW r \in [SubInputs(id) -> Shown],
         NodeOf[id].type = "MODBUS_INPUT" => r[0] # Unset
  PROVE  /\ Block(id, r) \in Runtime
         /\ NodeOf[id].type = "MODBUS_INPUT" => Block(id, r) = r[0]
<1>1. id \in Ids /\ (NodeOf[id].type = "MODBUS_INPUT" => 0 \in SubInputs(id))
  <2>1. id \in Ids
    BY DEF Inputs, OfType
  <2> QED
    BY <2>1, BlockIs
<1>2. Good(Values) \in Runtime /\ Bad(Values) \in Runtime
  BY RuntimeIs DEF RuntimeValue
<1>3. CASE NodeOf[id].type = "MODBUS_INPUT"
  BY <1>1, <1>3 DEF Block, Shown
<1>4. CASE NodeOf[id].type # "MODBUS_INPUT"
  BY <1>2, <1>4 DEF Block
<1> QED
  BY <1>3, <1>4

LEMMA OutputsAre ==
  ASSUME EngineInv
  PROVE  /\ Reads(outputs) /\ GoodRead(outputs) /\ outputs = [id \in Inputs |-> outputs[id]]
         /\ runtime \in [Ids -> Shown]
         /\ \A id \in Inputs : id \in Ids /\ id \in Sources
         /\ \A id \in Inputs : \A port \in SubInputs(id) :
              LastKnown(outputs[id][port]) \in RuntimeValue
<1>1. Reads(outputs) /\ outputs = [id \in Inputs |-> outputs[id]] /\ runtime \in [Ids -> Shown]
  BY DEF EngineInv, EngineTypeOK, Reads, Shown
<1>2. \A id \in Inputs : id \in Ids /\ id \in Sources
  BY SourceEdges DEF Inputs, Sources, SourceTypes, OfType
<1>3. \A r \in Shown : LastKnown(r) \in RuntimeValue
  BY RuntimeIs DEF LastKnown, Shown, RuntimeValue
<1>4. \A id \in Inputs : \A port \in SubInputs(id) : LastKnown(outputs[id][port]) \in RuntimeValue
  BY <1>1, <1>3 DEF Reads
<1> QED
  BY <1>1, <1>2, <1>4 DEF EngineInv, ReadsCorrect, GoodRead

LEMMA CommitInv ==
  ASSUME EnoughPasses, EngineInv, NEW id \in Inputs, NEW port \in SubInputs(id),
         NEW value \in Runtime,
         value.quality = "GOOD" => value \in {Good(v) : v \in BOOLEAN},
         Commit(id, port, value)
  PROVE  EngineInv'
<1> DEFINE read == [outputs EXCEPT ![id][port] = value]
           sources == [runtime EXCEPT ![id] = Block(id, read[id])]
<1>1. /\ outputs' = read /\ running' = running /\ now' = now
      /\ IF running THEN Evaluated(read, sources)
         ELSE runtime' = sources /\ memory' = memory /\ start' = start /\ held' = held
  BY DEF Commit
<1>2. /\ Reads(outputs) /\ GoodRead(outputs) /\ outputs = [x \in Inputs |-> outputs[x]]
      /\ runtime \in [Ids -> Shown] /\ \A x \in Inputs : x \in Ids /\ x \in Sources
  BY OutputsAre
<1>3. /\ read = [x \in Inputs |-> read[x]]
      /\ \A x \in Inputs : x # id => read[x] = outputs[x]
      /\ read[id] = [outputs[id] EXCEPT ![port] = value]
      /\ outputs[id] \in [SubInputs(id) -> Shown]
  BY <1>2 DEF Reads
<1>4. value \in Shown /\ value # Unset
  BY RuntimeIs DEF Shown
<1> HIDE DEF read
<1>5. /\ read[id] \in [SubInputs(id) -> Shown] /\ read[id][port] = value
      /\ \A x \in SubInputs(id) : x # port => read[id][x] = outputs[id][x]
  BY <1>3, <1>4
<1>6. Reads(read)
  BY <1>2, <1>3, <1>5 DEF Reads
<1>7. GoodRead(read)
  BY <1>2, <1>3, <1>5 DEF GoodRead
<1>8. NodeOf[id].type = "MODBUS_INPUT" => read[id][0] # Unset
  <2> SUFFICES ASSUME NodeOf[id].type = "MODBUS_INPUT" PROVE port = 0
    BY <1>4, <1>5
  <2>1. PICK i \in DOMAIN Nodes : Nodes[i] = NodeOf[id]
    BY <1>2, BlockIs
  <2>2. NodeOf[id].reads = 1
    BY <2>1, BlocksAreKnown
  <2> QED
    BY <2>2 DEF SubInputs
<1>9. /\ Block(id, read[id]) \in Runtime
      /\ NodeOf[id].type = "MODBUS_INPUT" => Block(id, read[id]) = read[id][0]
  BY <1>5, <1>8, ShowsRead
<1>10. /\ sources \in [Ids -> Shown] /\ sources[id] = Block(id, read[id]) /\ sources[id] # Unset
       /\ \A x \in Ids : x # id => sources[x] = runtime[x]
  BY <1>2, <1>9, RuntimeIs DEF Shown
<1> HIDE DEF sources
<1>11. /\ \A x \in Ids \ Sources : sources[x] = runtime[x]
       /\ \A x \in Ids : runtime[x] # Unset => sources[x] # Unset
  BY <1>2, <1>10
<1>12. \A x \in Inputs : NodeOf[x].type = "MODBUS_INPUT" => sources[x] = read[x][0]
  BY <1>2, <1>3, <1>9, <1>10 DEF EngineInv, ReadsCorrect
<1>13. CASE running
  <2>1. running' = TRUE
    BY <1>1, <1>13 DEF EngineInv, EngineTypeOK
  <2> QED
    BY <1>1, <1>3, <1>6, <1>7, <1>10, <1>11, <1>12, <1>13, <2>1, AfterEvaluation
<1>14. CASE ~ running
  <2>1. /\ outputs' = read /\ runtime' = sources /\ ~ running'
        /\ memory' = memory /\ start' = start /\ held' = held /\ now' = now
    BY <1>1, <1>14
  <2>2. EngineTypeOK'
    BY <1>3, <1>6, <1>10, <2>1, <1>1 DEF EngineInv, EngineTypeOK, Reads, Shown
  <2>3. ReadsCorrect'
    BY <1>7, <1>12, <2>1 DEF ReadsCorrect, GoodRead
  <2>4. FedFirst'
    BY <1>11, <2>1, EdgeIs DEF EngineInv, FedFirst, Fed
  <2>5. Remembered' /\ Scanning'
    BY <2>1 DEF EngineInv, Remembered, Scanning
  <2> QED
    BY <2>2, <2>3, <2>4, <2>5 DEF EngineInv
<1> QED
  BY <1>13, <1>14

LEMMA DisconnectedInv == ASSUME EnoughPasses, EngineInv, Disconnected PROVE EngineInv'
<1> DEFINE read == [id \in Inputs |-> [port \in SubInputs(id) |-> Bad(LastKnown(outputs[id][port]))]]
           sources == [id \in Ids |-> IF id \in Inputs THEN Block(id, read[id]) ELSE runtime[id]]
<1>1. /\ running /\ outputs' = read /\ Evaluated(read, sources) /\ running' = running /\ now' = now
  BY DEF Disconnected
<1>2. /\ runtime \in [Ids -> Shown] /\ \A x \in Inputs : x \in Ids /\ x \in Sources
      /\ \A x \in Inputs : \A port \in SubInputs(x) : LastKnown(outputs[x][port]) \in RuntimeValue
  BY OutputsAre
<1>3. ASSUME NEW id \in Inputs
      PROVE  /\ read[id] \in [SubInputs(id) -> Shown]
             /\ \A port \in SubInputs(id) : read[id][port] \in Runtime /\ read[id][port].quality # "GOOD"
  <2>1. \A port \in SubInputs(id) : /\ read[id][port] = Bad(LastKnown(outputs[id][port]))
                                    /\ read[id][port] \in Runtime
    BY <1>2, RuntimeIs
  <2>2. read[id] = [port \in SubInputs(id) |-> read[id][port]]
    OBVIOUS
  <2>3. \A x : Bad(x).quality # "GOOD"
    BY DEF Bad
  <2> HIDE DEF read
  <2>4. read[id] \in [SubInputs(id) -> Shown]
    BY <2>1, <2>2 DEF Shown
  <2> QED
    BY <2>1, <2>3, <2>4
<1>4. read = [id \in Inputs |-> read[id]]
  OBVIOUS
<1> HIDE DEF read
<1>5. Reads(read) /\ GoodRead(read)
  BY <1>3 DEF Reads, GoodRead
<1>6. ASSUME NEW id \in Inputs
      PROVE  /\ Block(id, read[id]) \in Runtime
             /\ NodeOf[id].type = "MODBUS_INPUT" => Block(id, read[id]) = read[id][0]
  <2>1. NodeOf[id].type = "MODBUS_INPUT" => read[id][0] # Unset
    BY <1>2, <1>3, BlockIs, RuntimeIs
  <2> QED
    BY <1>3, <2>1, ShowsRead
<1>7. /\ sources \in [Ids -> Shown]
      /\ \A id \in Ids \ Inputs : sources[id] = runtime[id]
      /\ \A id \in Inputs : sources[id] = Block(id, read[id])
  BY <1>2, <1>6 DEF Shown
<1> HIDE DEF sources
<1>8. \A id \in Ids : runtime[id] # Unset => sources[id] # Unset
  BY <1>6, <1>7, RuntimeIs
<1>9. running' = TRUE
  BY <1>1 DEF EngineInv, EngineTypeOK
<1> QED
  BY <1>1, <1>2, <1>4, <1>5, <1>6, <1>7, <1>8, <1>9, AfterEvaluation

LEMMA TriggerInv ==
  ASSUME EnoughPasses, EngineInv, NEW id \in Sources \ Inputs, NEW v \in BOOLEAN, Trigger(id, v)
  PROVE  EngineInv'
<1> DEFINE sources == [runtime EXCEPT ![id] = Good(v)]
<1>1. running /\ Evaluated(outputs, sources) /\ running' = running /\ outputs' = outputs /\ now' = now
  BY DEF Trigger
<1>2. /\ Reads(outputs) /\ GoodRead(outputs) /\ outputs = [x \in Inputs |-> outputs[x]]
      /\ runtime \in [Ids -> Shown] /\ \A x \in Inputs : x \in Ids /\ x \in Sources
  BY OutputsAre
<1>3. id \in Ids /\ Good(v) \in Shown /\ Good(v) # Unset
  BY SourceEdges, RuntimeIs DEF Shown
<1>4. /\ sources \in [Ids -> Shown]
      /\ \A x \in Ids \ Sources : sources[x] = runtime[x]
      /\ \A x \in Inputs : sources[x] = runtime[x]
      /\ \A x \in Ids : runtime[x] # Unset => sources[x] # Unset
  BY <1>2, <1>3
<1> HIDE DEF sources
<1>5. \A x \in Inputs : NodeOf[x].type = "MODBUS_INPUT" => sources[x] = outputs[x][0]
  BY <1>4 DEF EngineInv, ReadsCorrect
<1>6. running' = TRUE
  BY <1>1 DEF EngineInv, EngineTypeOK
<1> QED
  BY <1>1, <1>2, <1>4, <1>5, <1>6, AfterEvaluation

LEMMA EvaluateInv == ASSUME EnoughPasses, EngineInv, StartOrRefresh PROVE EngineInv'
<1>1. Evaluated(outputs, runtime) /\ running' = TRUE /\ outputs' = outputs /\ now' = now
  BY DEF StartOrRefresh
<1>2. /\ Reads(outputs) /\ GoodRead(outputs) /\ outputs = [x \in Inputs |-> outputs[x]]
      /\ runtime \in [Ids -> Shown]
  BY OutputsAre
<1>3. \A x \in Inputs : NodeOf[x].type = "MODBUS_INPUT" => runtime[x] = outputs[x][0]
  BY DEF EngineInv, ReadsCorrect
<1> QED
  BY <1>1, <1>2, <1>3, AfterEvaluation

LEMMA NextInv == ASSUME EnoughPasses, EngineInv, [EngineNext]_engineVars PROVE EngineInv'
<1>1. ASSUME NEW id \in Inputs, NEW port \in SubInputs(id), NodeReadFails(id, port)
      PROVE  EngineInv'
  <2>1. Bad(LastKnown(outputs[id][port])) \in Runtime
    BY OutputsAre, RuntimeIs
  <2>2. Bad(LastKnown(outputs[id][port])).quality # "GOOD"
    BY DEF Bad
  <2> QED
    BY <1>1, <2>1, <2>2, CommitInv DEF NodeReadFails
<1>2. ASSUME NEW id \in Inputs, NEW port \in SubInputs(id), NEW v \in BOOLEAN,
             NodeRead(id, port, v)
      PROVE  EngineInv'
  <2>1. Good(v) \in Runtime
    BY RuntimeIs
  <2> QED
    BY <1>2, <2>1, CommitInv DEF NodeRead
<1>3. CASE stopSession
  <2>1. /\ ~ running' /\ outputs' = outputs /\ runtime' = runtime /\ now' = now
        /\ memory' = [id \in Ids |-> Unset] /\ start' = [id \in Ids |-> Unset]
        /\ held' = [id \in Remembering |-> Unseen] /\ running' \in BOOLEAN
    BY <1>3 DEF stopSession
  <2>2. Unseen \in History /\ Unseen.on = FALSE /\ Unseen.since = Unset
    BY DEF Unseen, History
  <2>3. Truth(Unset) = FALSE
    BY DEF Truth
  <2>4. EngineTypeOK'
    <3>1. /\ memory' \in [Ids -> BOOLEAN \cup {Unset}] /\ start' \in [Ids -> Nat \cup {Unset}]
          /\ held' \in [Remembering -> History]
      BY <2>1, <2>2
    <3> QED
      BY <2>1, <3>1 DEF EngineInv, EngineTypeOK
  <2>5. ReadsCorrect' /\ FedFirst' /\ Scanning'
    BY <2>1 DEF EngineInv, ReadsCorrect, FedFirst, Fed, Scanning
  <2>6. Remembered'
    <3>1. \A id \in Timers \cup OfType({"RISING_EDGE"}) : id \in Ids /\ id \in Remembering
      BY DEF Timers, Remembering, OfType, TimerTypes, StepTypes
    <3>2. ASSUME NEW id \in Timers \cup OfType({"RISING_EDGE"})
          PROVE  held'[id] = Unseen /\ memory'[id] = Unset /\ start'[id] = Unset
      BY <2>1, <3>1
    <3> QED
      BY <2>2, <2>3, <3>2 DEF Remembered
  <2> QED
    BY <2>4, <2>5, <2>6 DEF EngineInv
<1>4. CASE Tick \/ UNCHANGED engineVars
  <2>1. /\ running' = running /\ outputs' = outputs /\ runtime' = runtime
        /\ memory' = memory /\ start' = start /\ held' = held /\ now' \in Nat
    BY <1>4 DEF Tick, engineVars, EngineInv, EngineTypeOK
  <2>2. Now' = Now
    BY <2>1 DEF Now
  <2>3. EngineTypeOK'
    BY <2>1 DEF EngineInv, EngineTypeOK
  <2>4. ReadsCorrect' /\ FedFirst' /\ Remembered'
    BY <2>1 DEF EngineInv, ReadsCorrect, FedFirst, Fed, Remembered
  <2>5. Scanning'
    BY <2>1, <2>2 DEF EngineInv, Scanning, Fed, Correct
  <2> QED
    BY <2>3, <2>4, <2>5 DEF EngineInv
<1> QED
  BY <1>1, <1>2, <1>3, <1>4, DisconnectedInv, TriggerInv, EvaluateInv DEF EngineNext

-----------------------------------------------------------------------------
(* The theorems, of workflows with at most as many blocks to calculate as  *)
(* an evaluation has passes.                                               *)

THEOREM EngineCorrect == ASSUME EnoughPasses PROVE EngineSpec => []EngineInv
<1>1. EngineInit => EngineInv
  BY InitInv
<1>2. EngineInv /\ [EngineNext]_engineVars => EngineInv'
  BY NextInv
<1> QED
  BY <1>1, <1>2, PTL DEF EngineSpec

(* What is upstream of a block: its own edges, and what is upstream of the *)
(* blocks they come from.                                                  *)
LEMMA UpstreamIs ==
  ASSUME NEW id \in Ids
  PROVE  /\ Upstream[id] \in SUBSET Edges /\ Incoming[id] \subseteq Upstream[id]
         /\ \A e \in Incoming[id] : Upstream[e[1]] \subseteq Upstream[id]
         /\ \A S \in SUBSET Edges : Closed(id, S) => Upstream[id] \subseteq S
<1>1. Upstream[id] = {e \in Edges : \A S \in SUBSET Edges : Closed(id, S) => e \in S}
  BY DEF Upstream
<1>2. Incoming[id] \subseteq Upstream[id]
  <2>1. Incoming[id] \subseteq Edges
    BY EdgeIs
  <2> QED
    BY <1>1, <2>1 DEF Closed
<1>3. ASSUME NEW e \in Incoming[id] PROVE Upstream[e[1]] \subseteq Upstream[id]
  <2>1. e[1] \in Ids
    BY EdgeIs
  <2>2. Upstream[e[1]] = {f \in Edges : \A S \in SUBSET Edges : Closed(e[1], S) => f \in S}
    BY <2>1 DEF Upstream
  <2>3. \A S \in SUBSET Edges : Closed(id, S) => Closed(e[1], S)
    BY DEF Closed
  <2> QED
    BY <1>1, <2>2, <2>3
<1> QED
  BY <1>1, <1>2, <1>3

(* A running workflow shows its inputs of now: the first block above which *)
(* everything was read and that shows nothing would be fed.                *)
THEOREM FollowsCorrect == ASSUME EnoughPasses PROVE EngineSpec => []FollowsSources
<1>1. EngineInv => FollowsSources
  <2> SUFFICES ASSUME EngineInv, running PROVE FollowsSources
    BY DEF FollowsSources
  <2> DEFINE AllRead(id) == \A e \in Upstream[id] : e[1] \in Inputs => runtime[e[1]] # Unset
             S == {id \in Ids \ Sources : AllRead(id) /\ runtime[id] = Unset}
  <2>1. /\ \A id \in Sources \ Inputs : runtime[id] # Unset
        /\ \A id \in Ids \ Sources : Fed(id) => runtime[id] # Unset /\ Correct(id)
    BY DEF EngineInv, Scanning
  <2>2. S = {}
    <3> SUFFICES ASSUME S # {} PROVE FALSE
      OBVIOUS
    <3>1. PICK id \in S : \A e \in Incoming[id] : e[1] \in Ids /\ e[1] \notin S
      <4>1. S \in SUBSET Ids
        OBVIOUS
      <4> HIDE DEF S
      <4> QED
        BY <4>1, First
    <3>2. ASSUME NEW e \in Incoming[id] PROVE runtime[e[1]] # Unset
      <4>1. CASE e[1] \in Inputs
        BY <3>1, <4>1, UpstreamIs
      <4>2. CASE e[1] \in Sources \ Inputs
        BY <2>1, <4>2
      <4>3. CASE e[1] \notin Sources
        <5>1. AllRead(e[1])
          BY <3>1, UpstreamIs
        <5> QED
          BY <3>1, <4>3, <5>1
      <4>4. Inputs \subseteq Sources
        BY DEF Inputs, Sources, SourceTypes, OfType
      <4> QED
        BY <4>1, <4>2, <4>3
    <3> QED
      BY <2>1, <3>1, <3>2 DEF Fed
  <2>3. ASSUME NEW id \in Ids \ Sources, AllRead(id)
        PROVE  runtime[id] # Unset /\ Correct(id)
    <3>1. runtime[id] # Unset
      BY <2>2, <2>3
    <3>2. Fed(id)
      BY <3>1 DEF EngineInv, FedFirst
    <3> QED
      BY <2>1, <3>1, <3>2
  <2> HIDE DEF S
  <2> QED
    BY <2>3 DEF FollowsSources, Correct, Signals
<1> QED
  BY <1>1, EngineCorrect, PTL

(* A block that is GOOD has inputs that are, and so on upwards.            *)
LEMMA GoodAbove ==
  ASSUME EngineInv, running, NEW id \in Ids \ Sources, IsGood(id)
  PROVE  /\ Correct(id) /\ AllGood(InputsOf(Now, id))
         /\ \A e \in Incoming[id] : Carried(Now, e).quality = "GOOD"
<1>1. Fed(id)
  BY DEF EngineInv, FedFirst, IsGood
<1>2. Correct(id)
  BY <1>1 DEF EngineInv, Scanning
<1>3. AllGood(InputsOf(Now, id))
  BY <1>2 DEF Correct, IsGood
<1>4. ASSUME NEW e \in Incoming[id] PROVE Carried(Now, e).quality = "GOOD"
  <2>1. e[4] + 1 \in 1 .. NodeOf[id].inputCount /\ Wire[id][e[4] + 1] = e
    BY WireIs
  <2>2. InputsOf(Now, id)[e[4] + 1] = Carried(Now, e) /\ e[4] + 1 \in DOMAIN InputsOf(Now, id)
    BY <2>1 DEF InputsOf
  <2> QED
    BY <1>3, <2>2 DEF AllGood
<1> QED
  BY <1>2, <1>3, <1>4

(* QualitySpreads: the edges of GOOD blocks are closed.                    *)
THEOREM QualityCorrect == ASSUME EnoughPasses PROVE EngineSpec => []QualitySpreads
<1>1. EngineInv => QualitySpreads
  <2> SUFFICES ASSUME EngineInv, running, NEW id \in Ids \ Sources, NEW e \in Upstream[id],
                      IsGood(id), e[1] \in Inputs
               PROVE  outputs[e[1]][e[2]] \in {Unset} \cup {Good(v) : v \in BOOLEAN}
    BY DEF QualitySpreads
  <2> DEFINE Fine(f) == outputs[f[1]][f[2]] \in {Unset} \cup {Good(v) : v \in BOOLEAN}
             S == {f \in Edges : /\ f[1] \in Inputs => Fine(f)
                                 /\ f[1] \in Ids \ Sources => IsGood(f[1])}
  <2>1. \A x \in Inputs : x \in Ids /\ x \in Sources
    BY OutputsAre
  <2>2. ASSUME NEW x \in Ids \ Sources, IsGood(x) PROVE Incoming[x] \subseteq S
    <3> SUFFICES ASSUME NEW f \in Incoming[x] PROVE f \in S
      OBVIOUS
    <3>1. /\ f \in Edges /\ f[1] \in Ids /\ (f[1] \in Inputs => f[2] \in SubInputs(f[1]))
          /\ runtime[f[1]] # Unset /\ Carried(Now, f).quality = "GOOD"
      BY <2>2, EdgeIs, GoodAbove DEF EngineInv, FedFirst, Fed, IsGood
    <3>2. Now.outputs = outputs /\ Now.runtime = runtime
      BY DEF Now
    <3>3. ASSUME f[1] \in Ids \ Sources PROVE IsGood(f[1])
      <4>1. NodeOf[f[1]].type # "MODBUS_MULTI_INPUT"
        BY <3>3, BlockIs DEF SourceTypes
      <4> QED
        BY <3>1, <3>2, <4>1 DEF Carried, IsGood
    <3>4. ASSUME f[1] \in Inputs PROVE Fine(f)
      <4>1. CASE outputs[f[1]][f[2]] = Unset
        BY <4>1
      <4>2. CASE outputs[f[1]][f[2]] # Unset
        <5>1. outputs[f[1]][f[2]].quality = "GOOD"
          <6>1. CASE NodeOf[f[1]].type = "MODBUS_MULTI_INPUT"
            BY <3>1, <3>2, <4>2, <6>1 DEF Carried
          <6>2. CASE NodeOf[f[1]].type # "MODBUS_MULTI_INPUT"
            <7>1. NodeOf[f[1]].type = "MODBUS_INPUT"
              BY <3>1, <3>4, <6>2, BlockIs
            <7>2. PICK i \in DOMAIN Nodes : Nodes[i] = NodeOf[f[1]]
              BY <3>1, BlockIs
            <7>3. NodeOf[f[1]].reads = 1
              BY <7>1, <7>2, BlocksAreKnown
            <7>4. f[2] = 0
              BY <3>1, <3>4, <7>3 DEF SubInputs
            <7>5. runtime[f[1]] = outputs[f[1]][0]
              BY <3>4, <7>1 DEF EngineInv, ReadsCorrect
            <7> QED
              BY <3>1, <3>2, <6>2, <7>4, <7>5 DEF Carried
          <6> QED
            BY <6>1, <6>2
        <5> QED
          BY <3>1, <3>4, <4>2, <5>1 DEF EngineInv, ReadsCorrect
      <4> QED
        BY <4>1, <4>2
    <3> QED
      BY <3>1, <3>3, <3>4
  <2>3. Closed(id, S)
    <3>1. ASSUME NEW f \in S PROVE Incoming[f[1]] \subseteq S
      <4>1. f[1] \in Ids
        BY GraphIsValid DEF validateWorkflow
      <4>2. CASE f[1] \in Sources
        BY <4>2, SourceEdges
      <4>3. CASE f[1] \notin Sources
        BY <2>2, <4>1, <4>3
      <4> QED
        BY <4>2, <4>3
    <3>2. Incoming[id] \subseteq S
      BY <2>2
    <3> HIDE DEF S
    <3> QED
      BY <3>1, <3>2 DEF Closed
  <2>4. e \in S
    <3>1. S \in SUBSET Edges
      OBVIOUS
    <3> HIDE DEF S
    <3> QED
      BY <2>3, <3>1, UpstreamIs
  <2> QED
    BY <2>4
<1> QED
  BY <1>1, EngineCorrect, PTL

THEOREM OnceCorrect == ASSUME EnoughPasses PROVE EngineSpec => []OncePerScan
<1>1. EngineInv => OncePerScan
  <2> SUFFICES ASSUME EngineInv, NEW id \in OfType({"RISING_EDGE"}), running, IsGood(id)
               PROVE  runtime[id].value = (held[id].on /\ ~ held[id].before)
    BY DEF OncePerScan
  <2>1. id \in Ids /\ NodeOf[id].type = "RISING_EDGE"
    BY DEF OfType
  <2>2. id \notin Sources
    BY <2>1, BlockIs DEF SourceTypes
  <2> QED
    BY <2>1, <2>2, GoodAbove DEF Correct
<1> QED
  BY <1>1, EngineCorrect, PTL

THEOREM TimersCorrect == ASSUME EnoughPasses PROVE EngineSpec => []TimersHold
<1>1. EngineInv => TimersHold
  <2> SUFFICES ASSUME EngineInv, NEW id \in Timers, running, IsGood(id),
                      held[id].since # Unset, held[id].on = held[id].before
               PROVE  runtime[id].value = TimerShows(NodeOf[id], held[id])
    BY DEF TimersHold, TimerShows
  <2>1. id \in Ids /\ NodeOf[id].type \in TimerTypes
    BY DEF Timers, OfType
  <2>2. id \notin Sources
    BY <2>1, BlockIs DEF SourceTypes, TimerTypes
  <2> QED
    BY <2>1, <2>2, GoodAbove DEF Correct
<1> QED
  BY <1>1, EngineCorrect, PTL
=============================================================================
