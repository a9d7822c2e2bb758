--------------------------- MODULE LiveTransport ---------------------------
(***************************************************************************)
(* The live updates of one browser: the bounded queue of its socket        *)
(* (server/src/liveTransport.ts), the flushing of it, broadcast() and      *)
(* sendLiveSnapshot() (server/src/index.ts), and the handler of the client *)
(* that shows the state (client/src/App.tsx).                              *)
(*                                                                         *)
(* The state of the server has parts (the devices, a workflow, the list of *)
(* them, the runtime, the audit), and the version of a part is the         *)
(* revision that broadcast its latest change.  A control event carries one *)
(* part, a telemetry event nothing but the key it is coalesced by.  The    *)
(* network keeps the order of a socket's messages; a REST reload is        *)
(* answered from the state of one moment and arrives whenever it does.     *)
(***************************************************************************)
EXTENDS Naturals, Sequences, FiniteSets, SequencesExt

CONSTANTS
  MaxMessages,   \* wsMaxMessages
  MaxBytes,      \* wsMaxBytes
  Key,           \* coalescing keys of telemetry
  Sizes,         \* bytes a control or telemetry event may have
  Part,          \* the parts of the state: what control events are about
  SnapshotParts, \* those a snapshot sends, in its order
  Nothing,          \* the coalesceKey of a control event, the part of others
  MaxChange,     \* bound: revisions broadcast while parts change
  MaxRevision,   \* bound: revisions broadcast
  MaxSocket,     \* bound: sockets the browser opens
  MaxWire,       \* bound: messages the network holds
  MaxLoads       \* bound: reloads in progress

ASSUME TransportAssumption ==
  /\ MaxMessages \in Nat \ {0} /\ MaxBytes \in Nat \ {0}
  /\ Sizes \subseteq Nat \ {0}
  /\ Nothing \notin Key /\ Nothing \notin Part
  /\ SnapshotParts \in Seq(Part)
  /\ MaxChange \in Nat /\ MaxRevision \in Nat /\ MaxSocket \in Nat
  /\ MaxWire \in Nat /\ MaxLoads \in Nat

VARIABLES
  revision,   \* liveRevision
  changed,    \* the state of the server: the version of each part
  sockets,    \* history: sockets opened so far
  open,       \* the socket is open
  queue,      \* its BoundedLiveQueue: the events
  bytes,      \* totalBytes
  flushing,   \* state.flushing: a send has not called back
  timer,      \* state.retryTimer is set
  wire,       \* messages sent and not received
  asked,      \* resync requests sent and not received
  seen,       \* liveRevisionRef of the client
  owed,       \* history: the control events queued for it, as <<part,
              \*          revision>>, of which it got neither the event nor
              \*          a resync made since
  shown,      \* the versions it shows
  loads       \* its reloads: not answered (Waiting), or the versions answered

server == <<revision, changed>>
sending == <<queue, bytes, flushing, timer>>
client == <<seen, owed, shown, loads>>
vars == <<server, sockets, open, sending, wire, asked, client>>

Waiting == <<>>
Event == [kind : {"state", "hello", "resync", "telemetry"}, revision : Nat,
          part : Part \cup {Nothing}, version : Nat, size : Nat, key : Key \cup {Nothing}]

TypeOK ==
  /\ revision \in Nat /\ changed \in [Part -> Nat] /\ sockets \in Nat
  /\ open \in BOOLEAN /\ flushing \in BOOLEAN /\ timer \in BOOLEAN
  /\ queue \in Seq(Event) /\ wire \in Seq(Event)
  /\ bytes \in Nat /\ asked \in Nat
  /\ seen \in Nat /\ owed \subseteq Part \X Nat /\ shown \in [Part -> Nat]
  /\ loads \in Seq([Part -> Nat] \cup {Waiting})

Init ==
  /\ revision = 0 /\ changed = [p \in Part |-> 0] /\ sockets = 0
  /\ open = FALSE /\ queue = <<>> /\ bytes = 0 /\ flushing = FALSE /\ timer = FALSE
  /\ wire = <<>> /\ asked = 0
  /\ seen = 0 /\ owed = {} /\ shown = changed /\ loads = <<>>

-----------------------------------------------------------------------------
(* BoundedLiveQueue, as functions of a queue and its totalBytes.           *)

Critical(e) == e.kind # "telemetry"

Fits(b, e) == Len(b.queue) < MaxMessages /\ b.bytes + e.size <= MaxBytes

PushAhead(b, e) ==
  IF Fits(b, e) THEN [queue |-> <<e>> \o b.queue, bytes |-> b.bytes + e.size] ELSE b
Push(b, e) == IF Fits(b, e) THEN [queue |-> Append(b.queue, e), bytes |-> b.bytes + e.size] ELSE b

RemoveEvent(b, i) == [queue |-> RemoveAt(b.queue, i), bytes |-> b.bytes - b.queue[i].size]

(* The oldest telemetry goes until the event fits or none is left.         *)
Oldest(q) == CHOOSE i \in DOMAIN q : ~ Critical(q[i]) /\ \A j \in 1 .. i - 1 : Critical(q[j])

Room(b, e) ==
  LET after[n \in 0 .. Len(b.queue)] ==
        IF n = 0 THEN b
        ELSE LET c == after[n - 1]
             IN  IF Fits(c, e) \/ \A i \in DOMAIN c.queue : Critical(c.queue[i]) THEN c
                 ELSE RemoveEvent(c, Oldest(c.queue))
  IN  after[Len(b.queue)]

(* resetForResync(): a resync event is a few bytes and always fits alone.  *)
Resync(r) == [kind |-> "resync", revision |-> r, part |-> Nothing, version |-> 0,
              size |-> 1, key |-> Nothing]
Reset(r) == [queue |-> <<Resync(r)>>, bytes |-> 1]

(* Telemetry of the same key inside the window is replaced; inside the     *)
(* window may be none, or the events from some position on.                *)
Coalesced(b, e) ==
  {b} \cup {RemoveEvent(b, i) : i \in {j \in DOMAIN b.queue : e.key # Nothing /\ b.queue[j].key = e.key}}

(* Mutant: a control event that does not fit replaces the queue silently.  *)
EnqueuedSilently(b, e) ==
  IF e.size > MaxBytes THEN {b}
  ELSE {LET d == Room(c, e)
        IN  IF Fits(d, e) THEN Push(d, e)
            ELSE IF Critical(e) THEN Push([queue |-> <<>>, bytes |-> 0], e)
            ELSE d : c \in Coalesced(b, e)}

(* enqueue(): the queues it may leave.                                     *)
Enqueued(b, e) ==
  IF e.size > MaxBytes
  THEN {IF Critical(e) THEN Reset(e.revision) ELSE b}
  ELSE {LET d == Room(c, e)
        IN  IF Fits(d, e) THEN Push(d, e)
            ELSE IF Critical(e) THEN Push(Reset(e.revision), e)
            ELSE d : c \in Coalesced(b, e)}

-----------------------------------------------------------------------------
(* queueLiveEvent(), scheduleFlush(), flushClient()                        *)

ScheduledNever == UNCHANGED <<timer, flushing>>
Scheduled == timer' = (timer \/ ~ flushing) /\ UNCHANGED flushing

QueueOf(B) == \E b \in B : queue' = b.queue /\ bytes' = b.bytes

Enqueue(e) == QueueOf(Enqueued([queue |-> queue, bytes |-> bytes], e)) /\ Scheduled

StateEvent(p, size) == [kind |-> "state", revision |-> revision', part |-> p,
                        version |-> changed'[p], size |-> size, key |-> Nothing]
HelloResync == Resync(revision')
Hello == [kind |-> "hello", revision |-> revision', part |-> Nothing, version |-> 0,
          size |-> 1, key |-> Nothing]

(* broadcast() after a change of a part.                                   *)
Change(p, size) ==
  /\ revision < MaxChange
  /\ revision' = revision + 1 /\ changed' = [changed EXCEPT ![p] = revision']
  /\ IF open
     THEN Enqueue(StateEvent(p, size)) /\ owed' = owed \cup {<<p, revision'>>}
     ELSE UNCHANGED <<sending, owed>>
  /\ UNCHANGED <<sockets, open, wire, asked, seen, shown, loads>>

Telemetry(key, size) ==
  /\ open /\ revision < MaxRevision
  /\ revision' = revision + 1
  /\ Enqueue([kind |-> "telemetry", revision |-> revision', part |-> Nothing, version |-> 0,
              size |-> size, key |-> key])
  /\ UNCHANGED <<changed, sockets, open, wire, asked, client>>

(* sendLiveSnapshot(): a greeting and some of the parts, each an event of  *)
(* its own and of the revision of the moment.                              *)
Then(B, p, size) == UNION {Enqueued(c, StateEvent(p, size)) : c \in B}

Snapshot(b, size) ==
  LET after[n \in 0 .. Len(SnapshotParts)] ==
        IF n = 0 THEN Enqueued(b, Hello) ELSE Then(after[n - 1], SnapshotParts[n], size)
  IN  after[Len(SnapshotParts)]

InSnapshot == ToSet(SnapshotParts) \X {revision'}

(* The retry timer and the callback of send() flush.  For a slow socket,   *)
(* whose bufferedAmount is high, the timer is set again.                   *)
Send ==
  IF queue = <<>>
  THEN flushing' = FALSE /\ UNCHANGED <<queue, bytes, wire>>
  ELSE /\ Len(wire) < MaxWire
       /\ flushing' = TRUE
       /\ wire' = Append(wire, Head(queue))
       /\ queue' = Tail(queue) /\ bytes' = bytes - Head(queue).size

FlushTimer ==
  /\ open /\ timer
  /\ timer' = FALSE
  /\ IF flushing THEN UNCHANGED <<queue, bytes, flushing, wire>> ELSE Send
  /\ UNCHANGED <<server, sockets, open, asked, client>>

Sent ==
  /\ open /\ flushing
  /\ UNCHANGED timer /\ Send
  /\ UNCHANGED <<server, sockets, open, asked, client>>

SentSlow ==
  /\ open /\ flushing
  /\ flushing' = FALSE /\ timer' = TRUE
  /\ UNCHANGED <<server, sockets, open, queue, bytes, wire, asked, client>>

-----------------------------------------------------------------------------
(* The socket and the client                                               *)

Load == Len(loads) < MaxLoads /\ loads' = Append(loads, Waiting)

(* connect() and onopen: the server sends a snapshot, the client asks for  *)
(* another and reloads.                                                    *)
Open(size) ==
  /\ ~ open /\ sockets < MaxSocket
  /\ open' = TRUE /\ sockets' = sockets + 1
  /\ UNCHANGED server
  /\ QueueOf(Snapshot([queue |-> <<>>, bytes |-> 0], size))
  /\ flushing' = FALSE /\ timer' = TRUE
  /\ wire' = <<>> /\ asked' = 1
  /\ seen' = 0 /\ owed' = InSnapshot /\ Load
  /\ UNCHANGED shown

Close ==
  /\ open
  /\ open' = FALSE
  /\ queue' = <<>> /\ bytes' = 0 /\ flushing' = FALSE /\ timer' = FALSE
  /\ wire' = <<>> /\ asked' = 0 /\ owed' = {}
  /\ UNCHANGED <<server, sockets, seen, shown, loads>>

ResyncAsked(size) ==
  /\ asked > 0
  /\ asked' = asked - 1
  /\ UNCHANGED server
  /\ QueueOf(Snapshot([queue |-> queue, bytes |-> bytes], size))
  /\ Scheduled
  /\ owed' = owed \cup InSnapshot
  /\ UNCHANGED <<sockets, open, wire, seen, shown, loads>>

(* A message tells of a control event: as itself, or by asking to load.    *)
Tells(m, o) == \/ m.kind = "state" /\ o = <<m.part, m.revision>>
               \/ m.kind = "resync" /\ o[2] <= m.revision

(* onmessage: an event of an older revision is ignored.                    *)
Receive ==
  /\ wire # <<>>
  /\ wire' = Tail(wire)
  /\ UNCHANGED <<server, sockets, open, sending>>
  /\ LET m == Head(wire)
     IN  IF m.revision < seen
         THEN UNCHANGED <<asked, client>>
         ELSE /\ seen' = m.revision
              /\ owed' = {o \in owed : ~ Tells(m, o)}
              /\ shown' = IF m.kind = "state" THEN [shown EXCEPT ![m.part] = m.version] ELSE shown
              /\ IF m.kind = "resync" THEN Load /\ asked' = asked + 1
                 ELSE UNCHANGED <<loads, asked>>

(* load(): the server answers from its state; the answer is shown.         *)
LoadServed(i) ==
  /\ i \in DOMAIN loads /\ loads[i] = Waiting
  /\ loads' = [loads EXCEPT ![i] = changed]
  /\ UNCHANGED <<server, sockets, open, sending, wire, asked, seen, owed, shown>>

LoadArrives(i) ==
  /\ i \in DOMAIN loads /\ loads[i] # Waiting
  /\ shown' = loads[i]
  /\ loads' = RemoveAt(loads, i)
  /\ UNCHANGED <<server, sockets, open, sending, wire, asked, seen, owed>>

LoadFails(i) ==
  /\ i \in DOMAIN loads
  /\ loads' = RemoveAt(loads, i)
  /\ UNCHANGED <<server, sockets, open, sending, wire, asked, seen, owed, shown>>

-----------------------------------------------------------------------------
Next ==
  \/ \E p \in Part, size \in Sizes : Change(p, size)
  \/ \E size \in Sizes : Open(size) \/ ResyncAsked(size)
  \/ \E key \in Key, size \in Sizes : Telemetry(key, size)
  \/ FlushTimer \/ Sent \/ SentSlow
  \/ Receive \/ Close
  \/ \E i \in 1 .. MaxLoads : LoadServed(i) \/ LoadArrives(i) \/ LoadFails(i)

Spec == Init /\ [][Next]_vars

(* Timers and send callbacks come, the network delivers, requests are      *)
(* answered or fail; a slow socket takes a message now and then.           *)
Fairness ==
  /\ WF_vars(FlushTimer) /\ SF_vars(Sent) /\ WF_vars(Receive)
  /\ WF_vars(\E size \in Sizes : ResyncAsked(size))
  /\ WF_vars(LoadServed(1) \/ LoadArrives(1) \/ LoadFails(1))

FairSpec == Spec /\ Fairness
-----------------------------------------------------------------------------
(* Properties                                                              *)

Total(q) ==
  LET sum[n \in 0 .. Len(q)] == IF n = 0 THEN 0 ELSE sum[n - 1] + q[n].size
  IN  sum[Len(q)]

(* The queue keeps within both bounds, and totalBytes, which is adjusted   *)
(* in five places, is the sum of what the queue holds.                     *)
QueueBounded ==
  /\ Len(queue) <= MaxMessages
  /\ bytes = Total(queue)
  /\ bytes <= MaxBytes

(* The client discards nothing as old: on one socket, revisions never      *)
(* decrease, whatever was coalesced, dropped or replaced by a resync.      *)
RevisionsOrdered ==
  LET ahead == wire \o queue
  IN  /\ \A i, j \in DOMAIN ahead : i < j => ahead[i].revision <= ahead[j].revision
      /\ \A i \in DOMAIN ahead : seen <= ahead[i].revision

(* No control event is lost silently: each one queued for the socket, by a *)
(* change or a snapshot and of whatever part, is on its way until the      *)
(* client gets it, or else a resync made since is.                         *)
NoSilentLoss ==
  open => \A o \in owed : \E m \in ToSet(wire) \cup ToSet(queue) : Tells(m, o)

(* Whatever is queued will be looked at, by one flusher at a time.         *)
NoLostFlush ==
  /\ open /\ queue # <<>> => flushing \/ timer
  /\ ~ (flushing /\ timer)

(* A client that stays connected gets all that it is owed, or is told to   *)
(* load again, although telemetry keeps coming and its socket is slow.     *)
ChangeIsHeard == <>[]open => (owed # {} ~> owed = {})

(* A resync ends: the snapshot it asks for does not overflow the queue     *)
(* again.  Needs bounds that hold a resync together with a snapshot.       *)
ResyncSettles == <>[]open => <>[](asked = 0 /\ wire = <<>> /\ queue = <<>>)

(* "a revision-safe resync": a client that stays connected ends up showing *)
(* the state of the server once it changes no more.                        *)
EventuallyCurrent == <>[]open => <>[](shown = changed)

=============================================================================
