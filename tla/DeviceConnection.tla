-------------------------- MODULE DeviceConnection --------------------------
(***************************************************************************)
(* server/src/modbus.ts: one TCP connection to a Modbus device and the     *)
(* queue of requests that share it.  At most one transaction is on the     *)
(* wire; replies are matched by transaction id and by the receiver that    *)
(* was installed when the frame began (server/src/modbusFraming.ts).       *)
(*                                                                         *)
(* JavaScript runs a callback to its end, then the promise continuations   *)
(* it queued, then the next timer or socket event.  So a transaction that  *)
(* has just finished is "settled" in two steps: finish() in the callback,  *)
(* and the continuation of pump() after its await.  In between, code of    *)
(* the same turn (a caller) may run, but no timer or socket event.         *)
(*                                                                         *)
(* A Request is one call of request(): its class, the list or the owner it *)
(* names and the run of the list it belongs to are constants of it.  Every *)
(* caller in src/ passes a supported function code, writes with priority,  *)
(* acquisitions that read, so those refusals never happen.                 *)
(***************************************************************************)
EXTENDS Naturals, Sequences, FiniteSets

CONSTANTS
  Request,           \* calls of request()
  None,              \* no request (an absent activeRequest, receiver, frame)
  ClassOf,           \* the class of each request
  OwnerOf,           \* its monitor list or acquisition owner
  RunOf,             \* its monitorGeneration
  MonitorLimit,      \* monitorQueueLimit
  AcquisitionLimit,  \* acquisitionQueueLimit
  TxSpace,           \* transaction ids are 0 .. TxSpace - 1 (65536 in the code)
  MaxGeneration      \* bound: connect() and disconnect() happen below it

Class == {"write", "workflow", "monitor", "acquisition"}

ASSUME RequestAssumption ==
  /\ None \notin Request
  /\ ClassOf \in [Request -> Class]
  /\ MonitorLimit \in Nat \ {0}
  /\ AcquisitionLimit \in Nat
  /\ TxSpace \in Nat \ {0}
  /\ MaxGeneration \in Nat

VARIABLES
  socket,      \* this.socket: absent, or a socket that is connecting, open or destroyed (its close event is due)
  detached,    \* destroyed sockets this.socket no longer names, whose close event is due
  generation,  \* this.generation
  queue,       \* this.queue
  gen,         \* the generation each request was admitted in
  active,      \* this.activeRequest (this.active is active # None)
  phase,       \* of the active transaction: its promise awaits, or finish() has run
  tx,          \* this.tx & 0xffff: the id of the latest transaction
  retired,     \* this.retiredTransactions
  wire,        \* requests the device has yet to answer on this.socket
  partial,     \* the frame the framer is assembling, with its context
  timers,      \* setTimeout(pump) calls that have not fired
  outcome,     \* what the promise request() returned has become
  answer       \* history: the request whose reply finished the transaction

session == <<socket, detached, generation>>
exchange == <<active, phase, tx, retired>>
network == <<wire, partial>>
vars == <<session, queue, gen, exchange, network, timers, outcome, answer>>

Phase == {"idle", "awaiting", "resolved", "rejected"}
TxId == 0 .. TxSpace - 1
Sent == [tx : TxId, req : Request]
Frame == [tx : TxId, req : Request, receiver : Request \cup {None}]
Outcome == {"new", "pending", "refused", "ok", "failed"}

TypeOK ==
  /\ socket \in {"none", "connecting", "open", "destroyed"}
  /\ detached \in Nat
  /\ generation \in Nat
  /\ queue \in Seq(Request)
  /\ gen \in [Request -> Nat]
  /\ active \in Request \cup {None}
  /\ phase \in Phase
  /\ tx \in TxId
  /\ retired \subseteq TxId
  /\ wire \subseteq Sent
  /\ partial \in Frame \cup {None}
  /\ timers \in Nat
  /\ outcome \in [Request -> Outcome]
  /\ answer \in [Request -> Request \cup {None}]

Init ==
  /\ socket = "none" /\ detached = 0 /\ generation = 0
  /\ queue = <<>>
  /\ gen = [r \in Request |-> 0]
  /\ active = None /\ phase = "idle" /\ tx = 0 /\ retired = {}
  /\ wire = {} /\ partial = None
  /\ timers = 0
  /\ outcome = [r \in Request |-> "new"]
  /\ answer = [r \in Request |-> None]

-----------------------------------------------------------------------------
(* The queue.                                                              *)

Positions(q) == 1 .. Len(q)
Queued(q) == {q[i] : i \in Positions(q)}

(* Mutant: a monitor job is put behind the acquisitions.                   *)
BehindAcquisitions(c) ==
  CASE c = "write" -> Class
    [] c = "workflow" -> {"monitor", "acquisition"}
    [] c \in {"monitor", "acquisition"} -> {}

(* The classes a new request is put in front of: a write is unshifted, a   *)
(* workflow read goes before the first monitor or acquisition, a monitor   *)
(* before the first acquisition, an acquisition last.                      *)
Behind(c) ==
  CASE c = "write" -> Class
    [] c = "workflow" -> {"monitor", "acquisition"}
    [] c = "monitor" -> {"acquisition"}
    [] c = "acquisition" -> {}

InsertionPoint(q, r, p) ==
  /\ p \in 1 .. Len(q) + 1
  /\ \A i \in 1 .. p - 1 : ClassOf[q[i]] \notin Behind(ClassOf[r])
  /\ p <= Len(q) => ClassOf[q[p]] \in Behind(ClassOf[r])

Insert(q, r, p) ==
  [i \in 1 .. Len(q) + 1 |-> IF i < p THEN q[i] ELSE IF i = p THEN r ELSE q[i - 1]]

(* qq is what is left of q, in order, once the requests of S are taken out. *)
Kept(q, S) == {i \in Positions(q) : q[i] \notin S}
Order(q, S) ==
  {f \in [1 .. Cardinality(Kept(q, S)) -> Kept(q, S)] :
     /\ \A i, j \in DOMAIN f : i < j => f[i] < f[j]
     /\ \A k \in Kept(q, S) : \E i \in DOMAIN f : f[i] = k}
Retained(q, f) == [i \in DOMAIN f |-> q[f[i]]]

Drop(q, n) == [i \in 1 .. Len(q) - n |-> q[i + n]]

Settle(out, S, verdict) == [r \in Request |-> IF r \in S THEN verdict ELSE out[r]]

-----------------------------------------------------------------------------
(* pump(), on the queue q and with the promises settled as in out.  Stale  *)
(* requests at the head are rejected; the first live one is sent, under    *)
(* the next transaction id that is not retired.                            *)

NoTraffic == wire' = {} /\ partial' = None

Connected == socket \in {"open", "destroyed"}
Live(r) == Connected /\ gen'[r] = generation

NextTx(t) ==
  /\ t \in TxId \ retired
  /\ LET Ahead(u) == (u + TxSpace - tx - 1) % TxSpace
     IN  \A u \in TxId \ retired : Ahead(t) <= Ahead(u)

PumpBusy(q, out) ==
  /\ active # None
  /\ queue' = q /\ outcome' = out
  /\ UNCHANGED <<socket, exchange, network>>

PumpDrained(q, out) ==
  /\ active = None
  /\ \A r \in Queued(q) : ~ Live(r)
  /\ queue' = <<>> /\ outcome' = Settle(out, Queued(q), "failed")
  /\ UNCHANGED <<socket, exchange, network>>

(* The n requests before the first live one are rejected.                  *)
FirstLive(q, n) ==
  /\ active = None
  /\ n \in 0 .. Len(q) - 1
  /\ Live(q[n + 1])
  /\ \A i \in 1 .. n : ~ Live(q[i])

PumpSends(q, out, n) ==
  /\ FirstLive(q, n)
  /\ active' = q[n + 1] /\ phase' = "awaiting"
  /\ NextTx(tx')
  /\ wire' = IF socket = "open" THEN wire \cup {[tx |-> tx', req |-> q[n + 1]]} ELSE wire
  /\ queue' = Drop(q, n + 1)
  /\ outcome' = Settle(out, {q[i] : i \in 1 .. n}, "failed")
  /\ UNCHANGED <<socket, retired, partial>>

(* TRANSACTION_EXHAUSTED: the request fails and the socket is destroyed.   *)
PumpExhausted(q, out, n) ==
  /\ FirstLive(q, n)
  /\ retired = TxId
  /\ tx' = (tx + 1) % TxSpace
  /\ socket' = "destroyed" /\ NoTraffic
  /\ queue' = Drop(q, n + 1)
  /\ outcome' = Settle(out, {q[i] : i \in 1 .. n + 1}, "failed")
  /\ UNCHANGED <<active, phase, retired>>

Pump(q, out) ==
  \/ PumpBusy(q, out)
  \/ PumpDrained(q, out)
  \/ \E n \in 0 .. Len(q) : PumpSends(q, out, n) \/ PumpExhausted(q, out, n)

-----------------------------------------------------------------------------
(* request()                                                               *)

OfClass(q, c) == {i \in Positions(q) : ClassOf[q[i]] = c}

SameList(r, s) == ClassOf[s] = "monitor" /\ OwnerOf[s] = OwnerOf[r]

Refused(r) ==
  \/ /\ ClassOf[r] = "acquisition"
     /\ Cardinality(OfClass(queue, "acquisition")) >= AcquisitionLimit
  \/ /\ ClassOf[r] = "monitor"
     /\ \/ active # None /\ SameList(r, active)
        \/ \E i \in Positions(queue) : SameList(r, queue[i])
        \/ Cardinality(OfClass(queue, "monitor")) >= MonitorLimit

Refuse(r) ==
  /\ outcome[r] = "new" /\ Refused(r)
  /\ outcome' = [outcome EXCEPT ![r] = "refused"]
  /\ UNCHANGED <<session, queue, gen, exchange, network, timers, answer>>

Admit(r) ==
  /\ outcome[r] = "new" /\ ~ Refused(r)
  /\ gen' = [gen EXCEPT ![r] = generation]
  /\ \E p \in 1 .. Len(queue) + 1 :
       /\ InsertionPoint(queue, r, p)
       /\ Pump(Insert(queue, r, p), [outcome EXCEPT ![r] = "pending"])
  /\ UNCHANGED <<detached, generation, timers, answer>>

-----------------------------------------------------------------------------
(* Cancellation                                                            *)

(* Mutant: an aborted transaction id is not retired.                       *)
AbortOnly(Condition) ==
  IF phase = "awaiting" /\ Condition
  THEN phase' = "rejected" /\ UNCHANGED retired
  ELSE UNCHANGED <<phase, retired>>

(* activeAbort: absent once the transaction has finished.                  *)
Abort(Condition) ==
  IF phase = "awaiting" /\ Condition
  THEN phase' = "rejected" /\ retired' = retired \cup {tx}
  ELSE UNCHANGED <<phase, retired>>

ClearQueue ==
  /\ queue' = <<>> /\ outcome' = Settle(outcome, Queued(queue), "failed")
  /\ Abort(TRUE)
  /\ UNCHANGED <<active, tx>>

(* Mutant: requests of no list match every list.                           *)
MonitorWorkAnyClass(l, Runs) ==
  {r \in Request : ClassOf[r] = "monitor" => OwnerOf[r] = l /\ RunOf[r] \in Runs}

(* The monitor work of a list: of one run of it, or of all its runs.       *)
MonitorWork(l, Runs) ==
  {r \in Request : ClassOf[r] = "monitor" /\ OwnerOf[r] = l /\ RunOf[r] \in Runs}

(* An active request keeps pump() from starting another; without one the   *)
(* cancellation pumps.                                                     *)
CancelMonitorRequests(l, Runs) ==
  LET S == MonitorWork(l, Runs)
      out == Settle(outcome, Queued(queue) \cap S, "failed")
  IN  /\ UNCHANGED <<detached, generation, gen, timers, answer>>
      /\ \E f \in Order(queue, S) :
           \/ /\ active # None
              /\ queue' = Retained(queue, f) /\ outcome' = out
              /\ Abort(active \in S)
              /\ UNCHANGED <<socket, active, tx, network>>
           \/ active = None /\ Pump(Retained(queue, f), out)

(* The acquisitions of one owner or, when none is named, of every owner.   *)
CancelAcquisitionRequests(Of) ==
  LET S == {r \in Request : ClassOf[r] = "acquisition" /\ OwnerOf[r] \in Of}
  IN  /\ \E f \in Order(queue, S) : queue' = Retained(queue, f)
      /\ outcome' = Settle(outcome, Queued(queue) \cap S, "failed")
      /\ Abort(active \in S)
      /\ UNCHANGED <<session, gen, active, tx, network, timers, answer>>

-----------------------------------------------------------------------------
(* The socket                                                              *)

Turn == phase \in {"idle", "awaiting"}    \* no continuation is due: a timer or socket event may run

(* connect(): nothing to do while a socket exists.                         *)
Connect ==
  /\ socket = "none" /\ generation < MaxGeneration
  /\ socket' = "connecting"
  /\ UNCHANGED <<detached, generation, queue, gen, exchange, network, timers, outcome, answer>>

OnConnect ==
  /\ Turn /\ socket = "connecting"
  /\ socket' = "open" /\ generation' = generation + 1
  /\ retired' = {} /\ NoTraffic
  /\ UNCHANGED <<detached, queue, gen, active, phase, tx, timers, outcome, answer>>

(* 'error' (refused, or the connect timer) and then 'close'.               *)
OnConnectFailed ==
  /\ Turn /\ socket = "connecting"
  /\ socket' = "none" /\ NoTraffic
  /\ ClearQueue
  /\ UNCHANGED <<detached, generation, gen, timers, answer>>

(* Mutant: the queue is emptied without rejecting what was in it.          *)
OnCloseSilent(afterError) ==
  /\ Turn /\ Connected
  /\ socket' = "none" /\ NoTraffic
  /\ queue' = <<>>
  /\ IF afterError /\ phase = "awaiting"
     THEN phase' = "rejected" /\ UNCHANGED retired
     ELSE Abort(TRUE)
  /\ UNCHANGED <<detached, generation, gen, active, tx, timers, outcome, answer>>

(* 'close' of this.socket; an 'error' before it has already finished the   *)
(* active transaction, without retiring its id.                            *)
OnClose(afterError) ==
  /\ Turn /\ Connected
  /\ socket' = "none" /\ NoTraffic
  /\ queue' = <<>> /\ outcome' = Settle(outcome, Queued(queue), "failed")
  /\ IF afterError /\ phase = "awaiting"
     THEN phase' = "rejected" /\ UNCHANGED retired
     ELSE Abort(TRUE)
  /\ UNCHANGED <<detached, generation, gen, active, tx, timers, answer>>

(* 'close' of a socket that disconnect() detached: the handler returns.    *)
OnDetachedClose ==
  /\ Turn /\ detached > 0
  /\ detached' = detached - 1
  /\ UNCHANGED <<socket, generation, queue, gen, exchange, network, timers, outcome, answer>>

(* The peer ended the connection: nothing is sent or received any more.    *)
PeerEnds ==
  /\ Turn /\ socket = "open"
  /\ socket' = "destroyed" /\ NoTraffic
  /\ UNCHANGED <<detached, generation, queue, gen, exchange, timers, outcome, answer>>

Disconnect ==
  /\ generation < MaxGeneration
  /\ generation' = generation + 1
  /\ detached' = IF socket = "none" THEN detached ELSE detached + 1
  /\ socket' = "none" /\ NoTraffic
  /\ ClearQueue
  /\ UNCHANGED <<gen, timers, answer>>

-----------------------------------------------------------------------------
(* Frames and the end of a transaction                                     *)

Receiver == IF phase = "awaiting" THEN active ELSE None

(* The first bytes of a reply: the framer notes the receiver of that time. *)
FrameBegins(w) ==
  /\ socket = "open" /\ partial = None
  /\ wire' = wire \ {w}
  /\ partial' = [tx |-> w.tx, req |-> w.req, receiver |-> Receiver]
  /\ UNCHANGED <<session, queue, gen, exchange, timers, outcome, answer>>

(* Mutant: the transaction id of a frame is not compared.                  *)
AcceptedAnyId == gen[active] = generation

Accepted == partial.tx = tx /\ gen[active] = generation

(* The last byte: a frame goes to the receiver it began with, if that is   *)
(* still installed; onData ignores other transactions, rejects a mismatch  *)
(* or an exception, and otherwise resolves.                                *)
FrameEnds ==
  /\ Turn /\ socket = "open" /\ partial # None
  /\ partial' = None
  /\ IF partial.receiver # None /\ partial.receiver = Receiver /\ Accepted
     THEN \/ /\ phase' = "resolved"
             /\ answer' = [answer EXCEPT ![active] = partial.req]
          \/ phase' = "rejected" /\ UNCHANGED answer
     ELSE UNCHANGED <<phase, answer>>
  /\ UNCHANGED <<session, queue, gen, active, tx, retired, wire, timers, outcome>>

(* Bytes that cannot be a frame: abort, and destroy the socket.            *)
InvalidFrame ==
  /\ Turn /\ socket = "open"
  /\ socket' = "destroyed" /\ NoTraffic
  /\ Abort(TRUE)
  /\ UNCHANGED <<detached, generation, queue, gen, active, tx, timers, outcome, answer>>

Timeout ==
  /\ phase = "awaiting"
  /\ Abort(TRUE)
  /\ UNCHANGED <<session, queue, gen, active, tx, network, timers, outcome, answer>>

(* The write callback reports an error, which finishes without retiring.   *)
WriteFails ==
  /\ phase = "awaiting" /\ socket = "destroyed"
  /\ phase' = "rejected"
  /\ UNCHANGED <<session, queue, gen, active, tx, retired, network, timers, outcome, answer>>

(* Mutant: the end of a transaction schedules no pump.                     *)
CompleteOnly ==
  /\ phase \in {"resolved", "rejected"}
  /\ outcome' = [outcome EXCEPT
       ![active] = IF phase = "resolved" /\ gen[active] = generation THEN "ok" ELSE "failed"]
  /\ active' = None /\ phase' = "idle"
  /\ UNCHANGED <<session, queue, gen, tx, retired, network, timers, answer>>

(* The rest of pump() after its await: a completion of another generation  *)
(* is an error; the next pump is due after interRequestDelay.              *)
Complete ==
  /\ phase \in {"resolved", "rejected"}
  /\ outcome' = [outcome EXCEPT
       ![active] = IF phase = "resolved" /\ gen[active] = generation THEN "ok" ELSE "failed"]
  /\ active' = None /\ phase' = "idle"
  /\ timers' = timers + 1
  /\ UNCHANGED <<session, queue, gen, tx, retired, network, answer>>

PumpTimer ==
  /\ Turn /\ timers > 0
  /\ timers' = timers - 1
  /\ UNCHANGED <<detached, generation, gen, answer>>
  /\ Pump(queue, outcome)

-----------------------------------------------------------------------------
Lists == {OwnerOf[r] : r \in {x \in Request : ClassOf[x] = "monitor"}}
AllRuns == {RunOf[r] : r \in Request}
Owners == {OwnerOf[r] : r \in {x \in Request : ClassOf[x] = "acquisition"}}

Calls ==
  \/ \E r \in Request : Admit(r) \/ Refuse(r)
  \/ \E l \in Lists, Runs \in {AllRuns} \cup {{g} : g \in AllRuns} : CancelMonitorRequests(l, Runs)
  \/ \E Of \in {Owners} \cup {{o} : o \in Owners} : CancelAcquisitionRequests(Of)
  \/ Connect
  \/ Disconnect

SocketEvents ==
  \/ OnConnect
  \/ OnConnectFailed
  \/ \E afterError \in BOOLEAN : OnClose(afterError)
  \/ OnDetachedClose
  \/ PeerEnds
  \/ \E w \in wire : FrameBegins(w)
  \/ FrameEnds
  \/ InvalidFrame
  \/ WriteFails

Next == Calls \/ SocketEvents \/ Timeout \/ Complete \/ PumpTimer

Spec == Init /\ [][Next]_vars

(* Promise continuations and timers run; a destroyed socket emits 'close'. *)
(* Nothing is assumed of the device, the peer or the callers.              *)
Fairness ==
  /\ WF_vars(Complete)
  /\ WF_vars(Timeout)
  /\ WF_vars(PumpTimer)
  /\ WF_vars(socket = "destroyed" /\ OnClose(FALSE))

FairSpec == Spec /\ Fairness
-----------------------------------------------------------------------------
(* Properties *)

(* The queue holds writes first, then workflow reads, then monitor reads,  *)
(* then acquisitions, whatever was inserted, cancelled and sent meanwhile. *)
Rank(r) ==
  CASE ClassOf[r] = "write" -> 1
    [] ClassOf[r] = "workflow" -> 2
    [] ClassOf[r] = "monitor" -> 3
    [] ClassOf[r] = "acquisition" -> 4

ByClass(q) == \A i, j \in Positions(q) : i < j => Rank(q[i]) <= Rank(q[j])

QueueByClass == ByClass(queue)

(* A request is pending exactly while it is the active one or stands once  *)
(* in the queue: none is lost, and none is settled and kept.               *)
Distinct(q) == \A i, j \in Positions(q) : q[i] = q[j] => i = j

Holds(q, out, a) ==
  /\ {r \in Request : out[r] = "pending"} = Queued(q) \cup ({a} \ {None})
  /\ a \notin Queued(q)
  /\ Distinct(q)

Accounted == Holds(queue, outcome, active)

(* A request resolved with a reply got the reply to itself: a late reply   *)
(* to a transaction that timed out or was cancelled never answers another, *)
(* although transaction ids wrap around.                                   *)
ReplyToOwnRequest ==
  \A r \in Request : outcome[r] = "ok" => answer[r] = r

(* At most MonitorLimit monitor jobs and AcquisitionLimit acquisitions are *)
(* queued, whatever was inserted in front of them.                         *)
QueueBounds ==
  /\ Cardinality(OfClass(queue, "monitor")) <= MonitorLimit
  /\ Cardinality(OfClass(queue, "acquisition")) <= AcquisitionLimit

(* A monitor list has one job in the queue or on the wire, also while an   *)
(* aborted job of it has not left activeRequest yet.                       *)
OneJobPerList ==
  \A r, s \in Queued(queue) \cup ({active} \ {None}) :
    ClassOf[r] = "monitor" /\ SameList(r, s) => r = s

(* A queued request has a wake-up: a transaction whose end will pump, a    *)
(* pump timer, or the close event of a destroyed socket.                   *)
NoLostWakeup ==
  queue # <<>> => active # None \/ timers > 0 \/ socket = "destroyed"

(* A transaction in progress belongs to the TCP session that is current.   *)
ActiveInSession ==
  phase = "awaiting" => Connected /\ gen[active] = generation

OwnOrRetired(f) ==
  f.tx \in retired \/ (phase = "awaiting" /\ f.req = active /\ f.tx = tx)

(* Why a reply answers its own request: whatever the device has yet to     *)
(* answer, and the frame being assembled, carries a retired id or is the   *)
(* transaction in progress; that one appears once, and its id is not       *)
(* retired; nothing of an earlier socket is left.                          *)
WireInv ==
  /\ phase = "idle" <=> active = None
  /\ phase = "awaiting" => tx \notin retired
  /\ socket # "open" => wire = {} /\ partial = None
  /\ \A w \in wire : OwnOrRetired(w)
  /\ partial # None => /\ OwnOrRetired(partial)
                       /\ [tx |-> partial.tx, req |-> partial.req] \notin wire
  /\ phase = "resolved" => answer[active] = active

(* When a request is sent, no request of a class before its own is left    *)
(* waiting in the queue.                                                   *)
PriorityRespected ==
  [][active' \notin {active, None} =>
       \A r \in Queued(queue') : Rank(active') <= Rank(r)]_vars

(* Cancelling a monitor list costs no workflow read, write or acquisition  *)
(* its turn: one that fails in that step could not have been sent.         *)
CancelSparesOthers ==
  [][(\E l \in Lists, Runs \in SUBSET AllRuns : CancelMonitorRequests(l, Runs)) =>
       \A r \in Request : outcome[r] = "pending" /\ outcome'[r] = "failed" =>
         \/ ClassOf[r] = "monitor"
         \/ ~ Connected \/ gen[r] # generation \/ retired = TxId]_vars

(* Every admitted request is settled, whatever the device does: a timer, a *)
(* pump or a close event always comes.                                     *)
EventuallySettled ==
  \A r \in Request : outcome[r] = "pending" ~> outcome[r] \in {"ok", "failed"}

Ledger == INSTANCE RequestLedger WITH
  answer <- [r \in Request |-> IF outcome[r] = "ok" THEN answer[r] ELSE None]

(* The connection implements the ledger of requests its callers rely on:   *)
(* no promise is settled twice or with the reply to another request.       *)
ImplementsLedger == Ledger!Spec
=============================================================================
