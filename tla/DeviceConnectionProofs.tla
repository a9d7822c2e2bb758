----------------------- MODULE DeviceConnectionProofs -----------------------
(* Theorems about DeviceConnection for any number of requests, any limits  *)
(* and any number of transaction ids.                                      *)
EXTENDS DeviceConnection, SequenceTheorems, FiniteSetTheorems, TLAPS

-----------------------------------------------------------------------------
(* The queue operators return queues.                                      *)

(* A function on 1 .. n is a sequence of length n.                         *)
LEMMA FunctionIsSeq ==
  ASSUME NEW S, NEW n \in Nat, NEW f \in [1 .. n -> S]
  PROVE  f \in Seq(S) /\ Len(f) = n
<1>1. f \in Seq(S)
  BY SeqDef
<1>2. Len(f) \in Nat /\ DOMAIN f = 1 .. Len(f)
  BY <1>1, LenProperties
<1>3. 1 .. Len(f) = 1 .. n
  BY <1>2
<1> QED
  BY <1>1, <1>2, <1>3

LEMMA InsertIsQueue ==
  ASSUME NEW q \in Seq(Request), NEW r \in Request, NEW p \in 1 .. Len(q) + 1
  PROVE  /\ Insert(q, r, p) \in Seq(Request)
         /\ Len(Insert(q, r, p)) = Len(q) + 1
<1>1. Len(q) \in Nat /\ q \in [1 .. Len(q) -> Request]
  BY LenProperties
<1>2. ASSUME NEW i \in 1 .. Len(q) + 1
      PROVE  (IF i < p THEN q[i] ELSE IF i = p THEN r ELSE q[i - 1]) \in Request
  <2>1. CASE i < p
    BY <1>1, <2>1
  <2>2. CASE i = p
    BY <2>2
  <2>3. CASE p < i
    <3>1. i - 1 \in 1 .. Len(q)
      BY <1>1, <2>3
    <3> QED  BY <1>1, <2>3, <3>1
  <2> QED  BY <1>1, <2>1, <2>2, <2>3
<1>3. Insert(q, r, p) \in [1 .. Len(q) + 1 -> Request]
  BY <1>2 DEF Insert
<1>4. Len(q) + 1 \in Nat
  BY <1>1
<1> QED
  BY <1>3, <1>4, FunctionIsSeq

LEMMA RetainedIsQueue ==
  ASSUME NEW q \in Seq(Request), NEW S, NEW f \in Order(q, S)
  PROVE  /\ Cardinality(Kept(q, S)) \in Nat
         /\ f \in [1 .. Cardinality(Kept(q, S)) -> Positions(q)]
         /\ Retained(q, f) \in Seq(Request)
         /\ Len(Retained(q, f)) = Cardinality(Kept(q, S))
<1> DEFINE n == Cardinality(Kept(q, S))
<1>1. Len(q) \in Nat /\ q \in [1 .. Len(q) -> Request]
  BY LenProperties
<1>2. n \in Nat
  <2>1. IsFiniteSet(1 .. Len(q))
    BY <1>1, FS_Interval
  <2>2. Kept(q, S) \in SUBSET (1 .. Len(q))
    BY DEF Kept, Positions
  <2>3. IsFiniteSet(Kept(q, S))
    BY <2>1, <2>2, FS_Subset
  <2> QED  BY <2>3, FS_CardinalityType
<1>3. f \in [1 .. n -> Positions(q)]
  BY DEF Order, Kept
<1>4. Retained(q, f) \in [1 .. n -> Request]
  BY <1>1, <1>3 DEF Retained, Positions
<1> QED
  BY <1>2, <1>3, <1>4, FunctionIsSeq

LEMMA DropIsQueue ==
  ASSUME NEW q \in Seq(Request), NEW n \in 0 .. Len(q)
  PROVE  /\ Drop(q, n) \in Seq(Request)
         /\ Len(Drop(q, n)) = Len(q) - n
<1>1. Len(q) \in Nat /\ q \in [1 .. Len(q) -> Request]
  BY LenProperties
<1>2. Len(q) - n \in Nat /\ n \in Nat
  BY <1>1
<1>3. ASSUME NEW i \in 1 .. Len(q) - n
      PROVE  q[i + n] \in Request
  <2>1. i + n \in 1 .. Len(q)
    BY <1>1, <1>2
  <2> QED  BY <1>1, <2>1
<1>4. Drop(q, n) \in [1 .. Len(q) - n -> Request]
  BY <1>3 DEF Drop
<1> QED
  BY <1>2, <1>4, FunctionIsSeq

LEMMA EmptyIsQueue == <<>> \in Seq(Request) /\ Len(<<>>) = 0
BY EmptySeq

LEMMA SettleType ==
  ASSUME NEW out \in [Request -> Outcome], NEW S, NEW v \in Outcome
  PROVE  Settle(out, S, v) \in [Request -> Outcome]
BY DEF Settle

-----------------------------------------------------------------------------
(* Type correctness.                                                       *)

(* pump() keeps the types, whatever queue and promises it starts from.     *)
LEMMA PumpType ==
  ASSUME TypeOK, NEW q \in Seq(Request), NEW out \in [Request -> Outcome],
         Pump(q, out)
  PROVE  /\ socket' \in {socket, "destroyed"}
         /\ queue' \in Seq(Request)
         /\ active' \in Request \cup {None} /\ phase' \in Phase
         /\ tx' \in TxId /\ retired' \subseteq TxId
         /\ wire' \subseteq Sent /\ partial' \in Frame \cup {None}
         /\ outcome' \in [Request -> Outcome]
<1> USE RequestAssumption
<1>0. Len(q) \in Nat /\ \A i \in 1 .. Len(q) : q[i] \in Request
  BY LenProperties, ElementOfSeq
<1>1. CASE PumpBusy(q, out)
  BY <1>1 DEF PumpBusy, TypeOK, exchange, network
<1>2. CASE PumpDrained(q, out)
  <2>1. outcome' \in [Request -> Outcome]
    BY <1>2, SettleType DEF PumpDrained, Outcome
  <2> QED
    BY <1>2, <2>1, EmptyIsQueue DEF PumpDrained, TypeOK, exchange, network
<1>3. ASSUME NEW n \in 0 .. Len(q), PumpSends(q, out, n)
      PROVE  /\ socket' = socket
             /\ queue' \in Seq(Request)
             /\ active' \in Request /\ phase' \in Phase
             /\ tx' \in TxId /\ retired' = retired
             /\ wire' \subseteq Sent /\ partial' = partial
             /\ outcome' \in [Request -> Outcome]
  <2>1. n + 1 \in 1 .. Len(q) /\ n + 1 \in 0 .. Len(q)
    BY <1>0, <1>3 DEF PumpSends, FirstLive
  <2>2. q[n + 1] \in Request
    BY <1>0, <2>1
  <2>3. queue' \in Seq(Request)
    BY <1>3, <2>1, DropIsQueue DEF PumpSends
  <2>4. outcome' \in [Request -> Outcome]
    BY <1>3, SettleType DEF PumpSends, Outcome
  <2>5. tx' \in TxId
    BY <1>3 DEF PumpSends, NextTx
  <2>6. wire' \subseteq Sent
    BY <1>3, <2>2, <2>5 DEF PumpSends, Sent, TypeOK
  <2> QED
    BY <1>3, <2>2, <2>3, <2>4, <2>5, <2>6 DEF PumpSends, Phase
<1>4. ASSUME NEW n \in 0 .. Len(q), PumpExhausted(q, out, n)
      PROVE  /\ socket' = "destroyed"
             /\ queue' \in Seq(Request)
             /\ UNCHANGED <<active, phase, retired>>
             /\ tx' \in TxId
             /\ wire' = {} /\ partial' = None
             /\ outcome' \in [Request -> Outcome]
  <2>1. n + 1 \in 0 .. Len(q)
    BY <1>0, <1>4 DEF PumpExhausted, FirstLive
  <2>2. queue' \in Seq(Request)
    BY <1>4, <2>1, DropIsQueue DEF PumpExhausted
  <2>3. outcome' \in [Request -> Outcome]
    BY <1>4, SettleType DEF PumpExhausted, Outcome
  <2>4. tx' \in TxId
    BY <1>4 DEF PumpExhausted, TypeOK, TxId
  <2> QED
    BY <1>4, <2>2, <2>3, <2>4 DEF PumpExhausted, NoTraffic
<1> QED
  BY <1>1, <1>2, <1>3, <1>4 DEF Pump, TypeOK

(* Clearing the queue and aborting the active transaction keep the types.  *)
LEMMA ClearType ==
  ASSUME TypeOK
  PROVE  /\ ClearQueue => /\ queue' \in Seq(Request) /\ phase' \in Phase
                          /\ retired' \subseteq TxId
                          /\ outcome' \in [Request -> Outcome]
         /\ \A Condition \in BOOLEAN :
              Abort(Condition) => phase' \in Phase /\ retired' \subseteq TxId
<1>1. ASSUME NEW Condition \in BOOLEAN, Abort(Condition)
      PROVE  phase' \in Phase /\ retired' \subseteq TxId
  BY <1>1 DEF Abort, TypeOK, Phase
<1>2. ASSUME ClearQueue
      PROVE  /\ queue' \in Seq(Request) /\ phase' \in Phase
             /\ retired' \subseteq TxId
             /\ outcome' \in [Request -> Outcome]
  <2>1. outcome' \in [Request -> Outcome]
    BY <1>2, SettleType DEF ClearQueue, TypeOK, Outcome
  <2> QED
    BY <1>1, <1>2, <2>1, EmptyIsQueue DEF ClearQueue
<1> QED
  BY <1>1, <1>2

(* Every variable of the connection keeps its type in every behaviour.     *)
THEOREM TypeCorrect == Spec => []TypeOK
<1> USE RequestAssumption
<1>1. Init => TypeOK
  BY EmptyIsQueue DEF Init, TypeOK, TxId, Phase, Outcome
<1>2. TypeOK /\ [Next]_vars => TypeOK'
  <2> SUFFICES ASSUME TypeOK, [Next]_vars PROVE TypeOK'
    OBVIOUS
  <2>1. ASSUME NEW r \in Request, Admit(r) PROVE TypeOK'
    <3>1. PICK p \in 1 .. Len(queue) + 1 :
            Pump(Insert(queue, r, p), [outcome EXCEPT ![r] = "pending"])
      BY <2>1 DEF Admit
    <3>2. Insert(queue, r, p) \in Seq(Request)
      BY InsertIsQueue DEF TypeOK
    <3>3. [outcome EXCEPT ![r] = "pending"] \in [Request -> Outcome]
      BY DEF TypeOK, Outcome
    <3>4. gen' \in [Request -> Nat]
      BY <2>1 DEF Admit, TypeOK
    <3> HIDE DEF Insert
    <3> QED
      BY <2>1, <3>1, <3>2, <3>3, <3>4, PumpType DEF Admit, TypeOK
  <2>2. ASSUME NEW r \in Request, Refuse(r) PROVE TypeOK'
    BY <2>2 DEF Refuse, TypeOK, Outcome, session, exchange, network
  <2>3. ASSUME NEW l, NEW Runs, CancelMonitorRequests(l, Runs) PROVE TypeOK'
    <3> DEFINE S == MonitorWork(l, Runs)
               out == Settle(outcome, Queued(queue) \cap S, "failed")
    <3>1. PICK f \in Order(queue, S) :
            \/ /\ active # None
               /\ queue' = Retained(queue, f) /\ outcome' = out
               /\ Abort(active \in S)
               /\ UNCHANGED <<socket, active, tx, network>>
            \/ active = None /\ Pump(Retained(queue, f), out)
      BY <2>3 DEF CancelMonitorRequests
    <3>2. Retained(queue, f) \in Seq(Request)
      BY RetainedIsQueue DEF TypeOK
    <3>3. out \in [Request -> Outcome]
      BY SettleType DEF TypeOK, Outcome
    <3>4. UNCHANGED <<detached, generation, gen, timers, answer>>
      BY <2>3 DEF CancelMonitorRequests
    <3> HIDE DEF out, S
    <3>5. CASE active # None /\ queue' = Retained(queue, f) /\ outcome' = out
               /\ Abort(active \in S) /\ UNCHANGED <<socket, active, tx, network>>
      BY <3>2, <3>3, <3>4, <3>5 DEF Abort, TypeOK, Phase, network
    <3>6. CASE Pump(Retained(queue, f), out)
      BY <3>2, <3>3, <3>4, <3>6, PumpType DEF TypeOK
    <3> QED
      BY <3>1, <3>5, <3>6
  <2>4. ASSUME NEW Of, CancelAcquisitionRequests(Of) PROVE TypeOK'
    <3> DEFINE S == {r \in Request : ClassOf[r] = "acquisition" /\ OwnerOf[r] \in Of}
    <3>1. queue' \in Seq(Request)
      BY <2>4, RetainedIsQueue DEF CancelAcquisitionRequests, TypeOK
    <3>2. outcome' \in [Request -> Outcome]
      BY <2>4, SettleType DEF CancelAcquisitionRequests, TypeOK, Outcome
    <3>3. phase' \in Phase /\ retired' \subseteq TxId
      BY <2>4 DEF CancelAcquisitionRequests, Abort, TypeOK, Phase
    <3> QED
      BY <2>4, <3>1, <3>2, <3>3 DEF CancelAcquisitionRequests, TypeOK, session, network
  <2>5. CASE Connect
    BY <2>5 DEF Connect, TypeOK, exchange, network
  <2>6. CASE Disconnect
    BY <2>6, ClearType DEF Disconnect, ClearQueue, NoTraffic, TypeOK
  <2>7. CASE OnConnect
    BY <2>7 DEF OnConnect, NoTraffic, TypeOK
  <2>8. CASE OnConnectFailed
    BY <2>8, ClearType DEF OnConnectFailed, ClearQueue, NoTraffic, TypeOK
  <2>9. ASSUME NEW afterError \in BOOLEAN, OnClose(afterError) PROVE TypeOK'
    <3>1. outcome' \in [Request -> Outcome]
      BY <2>9, SettleType DEF OnClose, TypeOK, Outcome
    <3>2. phase' \in Phase /\ retired' \subseteq TxId
      BY <2>9, ClearType DEF OnClose, TypeOK, Phase
    <3> QED
      BY <2>9, <3>1, <3>2, EmptyIsQueue DEF OnClose, NoTraffic, TypeOK
  <2>10. CASE OnDetachedClose
    BY <2>10 DEF OnDetachedClose, TypeOK, exchange, network
  <2>11. CASE PeerEnds
    BY <2>11 DEF PeerEnds, NoTraffic, TypeOK, exchange
  <2>12. ASSUME NEW w \in wire, FrameBegins(w) PROVE TypeOK'
    <3>1. w \in Sent
      BY DEF TypeOK
    <3>2. partial' \in Frame
      BY <2>12, <3>1 DEF FrameBegins, Frame, Sent, Receiver, TypeOK
    <3> QED
      BY <2>12, <3>2 DEF FrameBegins, TypeOK, session, exchange
  <2>13. CASE FrameEnds
    <3>1. answer' \in [Request -> Request \cup {None}]
      BY <2>13 DEF FrameEnds, TypeOK, Frame
    <3> QED
      BY <2>13, <3>1 DEF FrameEnds, TypeOK, Phase, session
  <2>14. CASE InvalidFrame
    BY <2>14, ClearType DEF InvalidFrame, NoTraffic, TypeOK
  <2>15. CASE WriteFails
    BY <2>15 DEF WriteFails, TypeOK, Phase, session, network
  <2>16. CASE Timeout
    BY <2>16, ClearType DEF Timeout, TypeOK, session, network
  <2>17. CASE Complete
    <3>1. outcome' \in [Request -> Outcome]
      BY <2>17 DEF Complete, TypeOK, Outcome
    <3> QED
      BY <2>17, <3>1 DEF Complete, TypeOK, Phase, session, network
  <2>18. CASE PumpTimer
    <3>1. timers' \in Nat
      BY <2>18 DEF PumpTimer, TypeOK
    <3>2. queue \in Seq(Request) /\ outcome \in [Request -> Outcome]
      BY DEF TypeOK
    <3> QED
      BY <2>18, <3>1, <3>2, PumpType DEF PumpTimer, TypeOK
  <2>19. CASE UNCHANGED vars
    BY <2>19 DEF vars, session, exchange, network, TypeOK
  <2> QED
    BY <2>1, <2>2, <2>3, <2>4, <2>5, <2>6, <2>7, <2>8, <2>9, <2>10, <2>11, <2>12,
       <2>13, <2>14, <2>15, <2>16, <2>17, <2>18, <2>19
       DEF Next, Calls, SocketEvents
<1> QED
  BY <1>1, <1>2, PTL DEF Spec

-----------------------------------------------------------------------------
(* Replies                                                                 *)

ReplyInv == TypeOK /\ WireInv /\ ActiveInSession /\ ReplyToOwnRequest

(* What pump() does to the transaction: it leaves it alone, or starts one  *)
(* under a fresh id, or (ids exhausted) loses the socket.                  *)
LEMMA PumpExchange ==
  ASSUME TypeOK, NEW q \in Seq(Request), NEW out \in [Request -> Outcome],
         Pump(q, out)
  PROVE  /\ retired' = retired
         /\ \A r \in Request : outcome'[r] \in {out[r], "failed"}
         /\ \/ UNCHANGED <<socket, active, phase, tx, wire, partial>>
            \/ /\ active = None /\ active' \in Request /\ phase' = "awaiting"
               /\ tx' \notin retired
               /\ Connected /\ socket' = socket /\ gen'[active'] = generation
               /\ partial' = partial
               /\ wire' = IF socket = "open"
                          THEN wire \cup {[tx |-> tx', req |-> active']} ELSE wire
            \/ /\ active = None /\ UNCHANGED <<active, phase>>
               /\ Connected /\ socket' = "destroyed" /\ wire' = {} /\ partial' = None
<1>0. Len(q) \in Nat /\ \A i \in 1 .. Len(q) : q[i] \in Request
  BY LenProperties, ElementOfSeq
<1>2. CASE PumpBusy(q, out)
  BY <1>2 DEF PumpBusy, exchange, network
<1>3. CASE PumpDrained(q, out)
  <2>1. UNCHANGED <<socket, exchange, network>>
    BY <1>3 DEF PumpDrained
  <2>2. \A r \in Request : outcome'[r] \in {out[r], "failed"}
    BY <1>3 DEF PumpDrained, Settle
  <2> QED
    BY <2>1, <2>2 DEF exchange, network
<1>4. ASSUME NEW n \in 0 .. Len(q), PumpSends(q, out, n)
      PROVE  /\ retired' = retired
             /\ \A r \in Request : outcome'[r] \in {out[r], "failed"}
             /\ active = None /\ active' \in Request /\ phase' = "awaiting"
             /\ tx' \notin retired
             /\ Connected /\ socket' = socket /\ gen'[active'] = generation
             /\ partial' = partial
             /\ wire' = IF socket = "open"
                        THEN wire \cup {[tx |-> tx', req |-> active']} ELSE wire
  <2>1. n + 1 \in 1 .. Len(q)
    BY <1>0, <1>4 DEF PumpSends, FirstLive
  <2>2. \A r \in Request : outcome'[r] \in {out[r], "failed"}
    BY <1>4 DEF PumpSends, Settle
  <2> QED
    BY <1>0, <1>4, <2>1, <2>2 DEF PumpSends, FirstLive, Live, NextTx
<1>5. ASSUME NEW n \in 0 .. Len(q), PumpExhausted(q, out, n)
      PROVE  /\ retired' = retired
             /\ \A r \in Request : outcome'[r] \in {out[r], "failed"}
             /\ active = None /\ UNCHANGED <<active, phase>>
             /\ Connected /\ socket' = "destroyed" /\ wire' = {} /\ partial' = None
  <2>1. \A r \in Request : outcome'[r] \in {out[r], "failed"}
    BY <1>5 DEF PumpExhausted, Settle
  <2> QED
    BY <1>5, <2>1 DEF PumpExhausted, FirstLive, Live, NoTraffic
<1> QED
  BY <1>2, <1>3, <1>4, <1>5 DEF Pump

(* A step that pumps keeps the invariant.                                  *)
LEMMA PumpReply ==
  ASSUME ReplyInv, TypeOK',
         NEW q \in Seq(Request), NEW out \in [Request -> Outcome],
         \A r \in Request : out[r] = "ok" => outcome[r] = "ok",
         active # None => gen'[active] = gen[active] \/ gen'[active] = generation,
         UNCHANGED <<generation, answer>>,
         Pump(q, out)
  PROVE  ReplyInv'
<1> USE RequestAssumption
<1>1. ReplyToOwnRequest'
  BY PumpExchange DEF ReplyInv, ReplyToOwnRequest
<1>2. CASE UNCHANGED <<socket, active, phase, tx, wire, partial>>
  <2>1. WireInv'
    BY <1>2, PumpExchange DEF ReplyInv, WireInv, OwnOrRetired
  <2>2. ActiveInSession'
    BY <1>2 DEF ReplyInv, WireInv, ActiveInSession, Connected
  <2> QED  BY <1>1, <2>1, <2>2 DEF ReplyInv
<1>3. CASE /\ active = None /\ active' \in Request /\ phase' = "awaiting"
           /\ tx' \notin retired
           /\ Connected /\ socket' = socket /\ gen'[active'] = generation
           /\ partial' = partial
           /\ wire' = IF socket = "open"
                      THEN wire \cup {[tx |-> tx', req |-> active']} ELSE wire
  <2>0. phase = "idle" /\ retired' = retired
    BY <1>3, PumpExchange DEF ReplyInv, WireInv
  <2>1. \A w \in wire : w.tx \in retired
    BY <2>0 DEF ReplyInv, WireInv, OwnOrRetired
  <2>2. partial # None => partial.tx \in retired
    BY <2>0 DEF ReplyInv, WireInv, OwnOrRetired
  <2>3. \A w \in wire' : OwnOrRetired(w)'
    BY <1>3, <2>0, <2>1 DEF OwnOrRetired
  <2>4. partial' # None => /\ OwnOrRetired(partial)'
                           /\ [tx |-> partial'.tx, req |-> partial'.req] \notin wire'
    <3>1. partial' # None => [tx |-> partial.tx, req |-> partial.req] \notin wire
      BY <1>3 DEF ReplyInv, WireInv
    <3>2. partial' # None => partial.tx # tx'
      BY <1>3, <2>2
    <3> QED
      BY <1>3, <2>0, <2>2, <3>1, <3>2 DEF OwnOrRetired
  <2>5. socket' # "open" => wire' = {} /\ partial' = None
    BY <1>3 DEF ReplyInv, WireInv
  <2>6. WireInv'
    BY <1>3, <2>0, <2>3, <2>4, <2>5 DEF WireInv
  <2>7. ActiveInSession'
    BY <1>3 DEF ActiveInSession, Connected
  <2> QED  BY <1>1, <2>6, <2>7 DEF ReplyInv
<1>4. CASE /\ active = None /\ UNCHANGED <<active, phase>>
           /\ Connected /\ socket' = "destroyed" /\ wire' = {} /\ partial' = None
  <2>1. phase' = "idle"
    BY <1>4 DEF ReplyInv, WireInv
  <2> QED
    BY <1>1, <1>4, <2>1 DEF ReplyInv, WireInv, ActiveInSession
<1> QED
  BY <1>2, <1>3, <1>4, PumpExchange DEF ReplyInv

(* Rejecting requests resolves none.                                       *)
LEMMA DroppedReply ==
  ASSUME ReplyInv, NEW S
  PROVE  \A r \in Request :
           Settle(outcome, S, "failed")[r] = "ok" => answer[r] = r
BY DEF ReplyInv, ReplyToOwnRequest, Settle

(* What is on the wire carries a retired transaction id or belongs to the  *)
(* transaction in progress, in every behaviour: the reason a late reply of *)
(* the device never reaches another request.                               *)
THEOREM ReplyInvariant == Spec => []ReplyInv
<1> USE RequestAssumption
<1>1. Init => ReplyInv
  <2>1. Init => TypeOK
    BY EmptyIsQueue DEF Init, TypeOK, TxId, Phase, Outcome
  <2> QED
    BY <2>1 DEF Init, ReplyInv, WireInv, ActiveInSession, ReplyToOwnRequest
<1>2. ReplyInv /\ TypeOK' /\ [Next]_vars => ReplyInv'
  <2> SUFFICES ASSUME ReplyInv, TypeOK', [Next]_vars PROVE ReplyInv'
    OBVIOUS
  <2>0. TypeOK
    BY DEF ReplyInv
  <2>1. ASSUME NEW r \in Request, Admit(r) PROVE ReplyInv'
    <3>1. PICK p \in 1 .. Len(queue) + 1 :
            Pump(Insert(queue, r, p), [outcome EXCEPT ![r] = "pending"])
      BY <2>1 DEF Admit
    <3>2. Insert(queue, r, p) \in Seq(Request)
      BY <2>0, InsertIsQueue DEF TypeOK
    <3>3. /\ [outcome EXCEPT ![r] = "pending"] \in [Request -> Outcome]
          /\ \A x \in Request :
               [outcome EXCEPT ![r] = "pending"][x] = "ok" => outcome[x] = "ok"
      BY <2>0 DEF TypeOK, Outcome
    <3>4. active # None => gen'[active] = gen[active] \/ gen'[active] = generation
      BY <2>0, <2>1 DEF Admit, TypeOK
    <3>5. UNCHANGED <<generation, answer>>
      BY <2>1 DEF Admit
    <3> HIDE DEF Insert
    <3> QED
      BY <3>1, <3>2, <3>3, <3>4, <3>5, PumpReply
  <2>2. ASSUME NEW r \in Request, Refuse(r) PROVE ReplyInv'
    BY <2>0, <2>2 DEF Refuse, session, exchange, network, TypeOK, ReplyInv, WireInv,
                      OwnOrRetired, ActiveInSession, Connected, ReplyToOwnRequest
  <2>3. ASSUME NEW l, NEW Runs, CancelMonitorRequests(l, Runs) PROVE ReplyInv'
    <3> DEFINE S == MonitorWork(l, Runs)
               out == Settle(outcome, Queued(queue) \cap S, "failed")
    <3>1. PICK f \in Order(queue, S) :
            \/ /\ active # None
               /\ queue' = Retained(queue, f) /\ outcome' = out
               /\ Abort(active \in S)
               /\ UNCHANGED <<socket, active, tx, network>>
            \/ active = None /\ Pump(Retained(queue, f), out)
      BY <2>3 DEF CancelMonitorRequests
    <3>2. Retained(queue, f) \in Seq(Request)
      BY <2>0, RetainedIsQueue DEF TypeOK
    <3>3. /\ out \in [Request -> Outcome]
          /\ \A x \in Request : out[x] = "ok" => outcome[x] = "ok"
      BY <2>0 DEF TypeOK, Outcome, Settle
    <3>4. UNCHANGED <<detached, generation, gen, timers, answer>>
      BY <2>3 DEF CancelMonitorRequests
    <3> HIDE DEF out, S
    <3>5. CASE outcome' = out /\ Abort(active \in S)
               /\ UNCHANGED <<socket, active, tx, network>>
      BY <3>3, <3>4, <3>5
         DEF network, ReplyInv, WireInv, Abort, OwnOrRetired,
             ActiveInSession, Connected, ReplyToOwnRequest
    <3>6. CASE Pump(Retained(queue, f), out)
      BY <3>2, <3>3, <3>4, <3>6, PumpReply
    <3> QED
      BY <3>1, <3>5, <3>6
  <2>4. ASSUME NEW Of, CancelAcquisitionRequests(Of) PROVE ReplyInv'
    <3>1. ReplyToOwnRequest'
      BY <2>4, DroppedReply DEF CancelAcquisitionRequests, ReplyToOwnRequest
    <3> QED
      BY <2>0, <2>4, <3>1
         DEF CancelAcquisitionRequests, Abort, session, network, ReplyInv, WireInv,
             OwnOrRetired, ActiveInSession, Connected
  <2>5. CASE Connect
    BY <2>5 DEF Connect, exchange, network, ReplyInv, WireInv, OwnOrRetired,
                ActiveInSession, Connected, ReplyToOwnRequest
  <2>6. CASE Disconnect
    <3>1. ReplyToOwnRequest'
      BY <2>6, DroppedReply DEF Disconnect, ClearQueue, ReplyToOwnRequest
    <3> QED
      BY <2>6, <3>1 DEF Disconnect, ClearQueue, Abort, NoTraffic, ReplyInv, WireInv,
                        OwnOrRetired, ActiveInSession
  <2>7. CASE OnConnect
    <3>1. phase # "awaiting"
      BY <2>7 DEF OnConnect, ReplyInv, ActiveInSession, Connected
    <3> QED
      BY <2>7, <3>1 DEF OnConnect, NoTraffic, ReplyInv, WireInv, ActiveInSession,
                        ReplyToOwnRequest
  <2>8. CASE OnConnectFailed
    <3>1. ReplyToOwnRequest'
      BY <2>8, DroppedReply DEF OnConnectFailed, ClearQueue, ReplyToOwnRequest
    <3> QED
      BY <2>8, <3>1 DEF OnConnectFailed, ClearQueue, Abort, NoTraffic, ReplyInv, WireInv,
                        OwnOrRetired, ActiveInSession
  <2>9. ASSUME NEW afterError \in BOOLEAN, OnClose(afterError) PROVE ReplyInv'
    <3>1. ReplyToOwnRequest'
      BY <2>9, DroppedReply DEF OnClose, ReplyToOwnRequest
    <3>2. phase' # "awaiting" /\ phase' # "resolved" /\ (phase' = "idle" <=> active' = None)
      BY <2>9 DEF OnClose, Abort, Turn, ReplyInv, WireInv
    <3>3. NoTraffic
      BY <2>9 DEF OnClose
    <3> QED
      BY <3>1, <3>2, <3>3 DEF NoTraffic, ReplyInv, WireInv, ActiveInSession
  <2>10. CASE OnDetachedClose
    BY <2>10 DEF OnDetachedClose, exchange, network, ReplyInv, WireInv, OwnOrRetired,
                 ActiveInSession, Connected, ReplyToOwnRequest
  <2>11. CASE PeerEnds
    BY <2>11 DEF PeerEnds, NoTraffic, exchange, ReplyInv, WireInv, OwnOrRetired,
                 ActiveInSession, Connected, ReplyToOwnRequest
  <2>12. ASSUME NEW w \in wire, FrameBegins(w) PROVE ReplyInv'
    <3>1. w \in Sent /\ w = [tx |-> w.tx, req |-> w.req]
      BY <2>0 DEF TypeOK, Sent
    <3>2. OwnOrRetired(w)
      BY DEF ReplyInv, WireInv
    <3>3. OwnOrRetired(partial)' /\ \A v \in wire' : OwnOrRetired(v)'
      BY <2>12, <3>2 DEF FrameBegins, exchange, OwnOrRetired, ReplyInv, WireInv
    <3>4. [tx |-> partial'.tx, req |-> partial'.req] \notin wire'
      BY <2>12, <3>1 DEF FrameBegins
    <3>5. WireInv'
      BY <2>12, <3>3, <3>4 DEF FrameBegins, session, exchange, ReplyInv, WireInv
    <3> QED
      BY <2>12, <3>5 DEF FrameBegins, session, exchange, ReplyInv, ActiveInSession,
                         Connected, ReplyToOwnRequest
  <2>13. CASE FrameEnds
    <3>1. CASE partial.receiver # None /\ partial.receiver = Receiver /\ Accepted
      <4>1. phase = "awaiting" /\ active # None /\ partial.tx = tx
        BY <3>1 DEF Receiver, Accepted, ReplyInv, WireInv
      <4>2. partial.req = active
        BY <2>13, <4>1 DEF FrameEnds, ReplyInv, WireInv, OwnOrRetired
      <4>3. \A w \in wire : w.tx \in retired
        <5> SUFFICES ASSUME NEW w \in wire, w.tx \notin retired PROVE FALSE
          OBVIOUS
        <5>1. w.tx = partial.tx /\ w.req = partial.req
          BY <4>1, <4>2 DEF ReplyInv, WireInv, OwnOrRetired
        <5>2. w = [tx |-> w.tx, req |-> w.req]
          BY <2>0 DEF TypeOK, Sent
        <5> QED
          BY <2>13, <5>1, <5>2 DEF FrameEnds, ReplyInv, WireInv
      <4>4. phase' \in {"resolved", "rejected"}
        BY <2>13, <3>1 DEF FrameEnds
      <4>5. /\ \A r \in Request : r # active => answer'[r] = answer[r]
            /\ phase' = "resolved" => answer'[active] = active
            /\ answer'[active] \in {answer[active], active}
        BY <2>0, <2>13, <3>1, <4>1, <4>2 DEF FrameEnds, TypeOK
      <4>6. UNCHANGED <<socket, active, tx, retired, wire, outcome>> /\ partial' = None
        BY <2>13 DEF FrameEnds, session
      <4>7. WireInv'
        BY <4>1, <4>3, <4>4, <4>5, <4>6 DEF ReplyInv, WireInv, OwnOrRetired
      <4>8. ReplyToOwnRequest'
        BY <4>5, <4>6 DEF ReplyInv, ReplyToOwnRequest
      <4> QED
        BY <4>4, <4>7, <4>8 DEF ReplyInv, ActiveInSession
    <3>2. CASE UNCHANGED <<phase, answer>>
      BY <2>13, <3>2 DEF FrameEnds, session, ReplyInv, WireInv, OwnOrRetired,
                         ActiveInSession, Connected, ReplyToOwnRequest
    <3> QED
      BY <2>13, <3>1, <3>2 DEF FrameEnds
  <2>14. CASE InvalidFrame
    BY <2>14 DEF InvalidFrame, Abort, NoTraffic, ReplyInv, WireInv, ActiveInSession,
                 Turn, ReplyToOwnRequest
  <2>15. CASE WriteFails
    BY <2>15 DEF WriteFails, session, network, ReplyInv, WireInv, ActiveInSession,
                 ReplyToOwnRequest
  <2>16. CASE Timeout
    BY <2>16 DEF Timeout, Abort, session, network, ReplyInv, WireInv, OwnOrRetired,
                 ActiveInSession, ReplyToOwnRequest
  <2>17. CASE Complete
    <3>1. active \in Request
      BY <2>0, <2>17 DEF Complete, TypeOK, ReplyInv, WireInv
    <3>2. \A r \in Request : outcome'[r] = "ok" =>
            outcome[r] = "ok" \/ (r = active /\ phase = "resolved")
      BY <2>0, <2>17, <3>1 DEF Complete, TypeOK
    <3>3. ReplyToOwnRequest'
      BY <2>17, <3>2 DEF Complete, ReplyInv, WireInv, ReplyToOwnRequest
    <3> QED
      BY <2>17, <3>3 DEF Complete, session, network, ReplyInv, WireInv, OwnOrRetired,
                         ActiveInSession
  <2>18. CASE PumpTimer
    <3>1. queue \in Seq(Request) /\ outcome \in [Request -> Outcome]
      BY <2>0 DEF TypeOK
    <3> QED
      BY <2>18, <3>1, PumpReply DEF PumpTimer
  <2>19. CASE UNCHANGED vars
    BY <2>19 DEF vars, session, exchange, network, ReplyInv, WireInv, OwnOrRetired,
                 ActiveInSession, Connected, ReplyToOwnRequest
  <2> QED
    BY <2>1, <2>2, <2>3, <2>4, <2>5, <2>6, <2>7, <2>8, <2>9, <2>10, <2>11, <2>12,
       <2>13, <2>14, <2>15, <2>16, <2>17, <2>18, <2>19
       DEF Next, Calls, SocketEvents
<1> QED
  BY <1>1, <1>2, TypeCorrect, PTL DEF Spec

(* A request is resolved with the device's reply to that very request, and *)
(* a transaction in progress is of the current TCP session.                *)
THEOREM ReplyCorrect == Spec => [](ReplyToOwnRequest /\ ActiveInSession)
<1>1. ReplyInv => ReplyToOwnRequest /\ ActiveInSession
  BY DEF ReplyInv
<1> QED
  BY <1>1, ReplyInvariant, PTL

-----------------------------------------------------------------------------
(* The queue: what inserting, cancelling and sending do to its order and   *)
(* to the set of requests in it.                                           *)

LEMMA QueueElements ==
  ASSUME NEW q \in Seq(Request)
  PROVE  /\ Len(q) \in Nat
         /\ \A i \in Positions(q) : q[i] \in Request
         /\ Queued(q) \subseteq Request
BY LenProperties, ElementOfSeq DEF Positions, Queued

LEMMA RankType ==
  \A r \in Request : Rank(r) \in 1 .. 4
BY RequestAssumption DEF Rank, Class

(* Whom a new request is put in front of agrees with the ranks.            *)
LEMMA BehindRank ==
  ASSUME NEW r \in Request, NEW s \in Request
  PROVE  /\ ClassOf[s] \notin Behind(ClassOf[r]) => Rank(s) <= Rank(r)
         /\ ClassOf[s] \in Behind(ClassOf[r]) => Rank(r) <= Rank(s)
<1>1. ClassOf[r] \in Class /\ ClassOf[s] \in Class
  BY RequestAssumption
<1>2. CASE ClassOf[r] = "write"
  BY <1>1, <1>2 DEF Behind, Rank, Class
<1>3. CASE ClassOf[r] = "workflow"
  BY <1>1, <1>3 DEF Behind, Rank, Class
<1>4. CASE ClassOf[r] = "monitor"
  BY <1>1, <1>4 DEF Behind, Rank, Class
<1>5. CASE ClassOf[r] = "acquisition"
  BY <1>1, <1>5 DEF Behind, Rank, Class
<1> QED
  BY <1>1, <1>2, <1>3, <1>4, <1>5 DEF Class

LEMMA InsertKeepsOrder ==
  ASSUME NEW q \in Seq(Request), ByClass(q), Distinct(q),
         NEW r \in Request, r \notin Queued(q),
         NEW p \in 1 .. Len(q) + 1, InsertionPoint(q, r, p)
  PROVE  /\ Queued(Insert(q, r, p)) = Queued(q) \cup {r}
         /\ ByClass(Insert(q, r, p)) /\ Distinct(Insert(q, r, p))
<1> DEFINE qq == Insert(q, r, p)
<1>1. Len(q) \in Nat /\ \A i \in Positions(q) : q[i] \in Request
  BY QueueElements
<1>2. Positions(qq) = 1 .. Len(q) + 1
  BY InsertIsQueue DEF Positions
<1>3. \A i \in Positions(qq) :
        qq[i] = IF i < p THEN q[i] ELSE IF i = p THEN r ELSE q[i - 1]
  BY <1>2 DEF Insert
<1>4. \A i \in Positions(qq) : /\ i < p => i \in Positions(q)
                               /\ p < i => i - 1 \in Positions(q)
  BY <1>1, <1>2 DEF Positions
<1>5. qq[p] = r /\ p \in Positions(qq)
  BY <1>2, <1>3
<1>6. \A j \in Positions(q) :
        /\ j < p => j \in Positions(qq) /\ qq[j] = q[j]
        /\ p <= j => j + 1 \in Positions(qq) /\ qq[j + 1] = q[j]
  <2> SUFFICES ASSUME NEW j \in Positions(q)
               PROVE  /\ j < p => j \in Positions(qq) /\ qq[j] = q[j]
                      /\ p <= j => j + 1 \in Positions(qq) /\ qq[j + 1] = q[j]
    OBVIOUS
  <2>1. j \in 1 .. Len(q)
    BY DEF Positions
  <2>2. j \in Positions(qq) /\ j + 1 \in Positions(qq)
    BY <1>1, <1>2, <2>1
  <2>3. j < p => qq[j] = q[j]
    BY <1>3, <2>2
  <2>4. p <= j => qq[j + 1] = q[j]
    BY <1>1, <1>3, <2>1, <2>2
  <2> QED  BY <2>2, <2>3, <2>4
<1> HIDE DEF qq
<1>7. Queued(qq) = Queued(q) \cup {r}
  <2>1. \A i \in Positions(qq) : qq[i] \in Queued(q) \cup {r}
    BY <1>1, <1>2, <1>3, <1>4 DEF Queued
  <2>2. \A j \in Positions(q) : q[j] \in Queued(qq)
    BY <1>1, <1>6 DEF Queued, Positions
  <2>3. r \in Queued(qq)
    BY <1>5 DEF Queued
  <2> QED  BY <2>1, <2>2, <2>3 DEF Queued
<1>8. Distinct(qq)
  <2>1. \A i \in Positions(qq) : i # p => qq[i] \in Queued(q)
    BY <1>1, <1>2, <1>3, <1>4 DEF Queued
  <2> SUFFICES ASSUME NEW i \in Positions(qq), NEW j \in Positions(qq), qq[i] = qq[j]
               PROVE  i = j
    BY DEF Distinct
  <2>2. CASE i = p \/ j = p
    BY <1>5, <2>1, <2>2
  <2>3. CASE i # p /\ j # p
    <3>1. i \in Nat /\ j \in Nat /\ p \in Nat
      BY <1>1, <1>2
    <3> QED  BY <1>3, <1>4, <2>3, <3>1 DEF Distinct
  <2> QED  BY <2>2, <2>3
<1>9. ByClass(qq)
  <2>1. \A j \in Positions(q) : /\ j < p => Rank(q[j]) <= Rank(r)
                                /\ p <= j => Rank(r) <= Rank(q[j])
    <3> SUFFICES ASSUME NEW j \in Positions(q)
                 PROVE  /\ j < p => Rank(q[j]) <= Rank(r)
                        /\ p <= j => Rank(r) <= Rank(q[j])
      OBVIOUS
    <3>0. j \in 1 .. Len(q) /\ q[j] \in Request
      BY <1>1 DEF Positions
    <3>1. j < p => Rank(q[j]) <= Rank(r)
      BY <3>0, BehindRank DEF InsertionPoint
    <3>2. ASSUME p <= j PROVE Rank(r) <= Rank(q[j])
      <4>1. p \in Positions(q) /\ q[p] \in Request
        BY <1>1, <3>0, <3>2 DEF Positions
      <4>2. Rank(r) <= Rank(q[p])
        BY <1>1, <3>0, <3>2, <4>1, BehindRank DEF InsertionPoint
      <4>3. p = j \/ p < j
        BY <3>0, <3>2
      <4>4. Rank(q[p]) <= Rank(q[j])
        BY <3>0, <4>1, <4>3, RankType DEF ByClass
      <4> QED  BY <3>0, <4>1, <4>2, <4>4, RankType
    <3> QED  BY <3>1, <3>2
  <2> SUFFICES ASSUME NEW i \in Positions(qq), NEW j \in Positions(qq), i < j
               PROVE  Rank(qq[i]) <= Rank(qq[j])
    BY DEF ByClass
  <2>2. i \in Nat /\ j \in Nat /\ p \in Nat
    BY <1>1, <1>2
  <2>3. CASE j < p
    BY <1>3, <1>4, <2>2, <2>3 DEF ByClass
  <2>4. CASE j = p
    BY <1>3, <1>4, <2>1, <2>2, <2>4
  <2>5. CASE i = p
    <3>1. j - 1 \in Positions(q) /\ p <= j - 1
      BY <1>4, <2>2, <2>5
    <3> QED  BY <1>3, <2>1, <2>2, <2>5, <3>1
  <2>6. CASE i < p /\ p < j
    <3>1. i \in Positions(q) /\ j - 1 \in Positions(q) /\ (i < j - 1 \/ i = j - 1)
      BY <1>4, <2>2, <2>6
    <3>2. Rank(q[i]) <= Rank(q[j - 1])
      BY <1>1, <3>1, RankType DEF ByClass
    <3> QED  BY <1>3, <2>2, <2>6, <3>2
  <2>7. CASE p < i
    <3>1. i - 1 \in Positions(q) /\ j - 1 \in Positions(q) /\ i - 1 < j - 1
      BY <1>4, <2>2, <2>7
    <3>2. Rank(q[i - 1]) <= Rank(q[j - 1])
      BY <3>1 DEF ByClass
    <3> QED  BY <1>3, <2>2, <2>7, <3>2
  <2> QED  BY <2>2, <2>3, <2>4, <2>5, <2>6, <2>7
<1> QED  BY <1>7, <1>8, <1>9 DEF qq

LEMMA RetainedKeepsOrder ==
  ASSUME NEW q \in Seq(Request), ByClass(q), Distinct(q), NEW S, NEW f \in Order(q, S)
  PROVE  /\ Queued(Retained(q, f)) = Queued(q) \ S
         /\ ByClass(Retained(q, f)) /\ Distinct(Retained(q, f))
<1> DEFINE qq == Retained(q, f)
           n == Cardinality(Kept(q, S))
<1>1. n \in Nat /\ f \in [1 .. n -> Positions(q)] /\ Positions(qq) = 1 .. n
  BY RetainedIsQueue DEF Positions
<1>2. \A i \in 1 .. n : qq[i] = q[f[i]] /\ f[i] \in Kept(q, S)
  BY <1>1 DEF Retained, Order
<1>3. /\ \A i, j \in 1 .. n : i < j => f[i] < f[j]
      /\ \A k \in Kept(q, S) : \E i \in 1 .. n : f[i] = k
  BY <1>1 DEF Order
<1> HIDE DEF qq, n
<1>4. Queued(qq) = Queued(q) \ S
  BY <1>1, <1>2, <1>3 DEF Queued, Kept
<1>5. ByClass(qq)
  BY <1>1, <1>2, <1>3 DEF ByClass
<1>6. \A i, j \in 1 .. n : f[i] = f[j] => i = j
  <2> SUFFICES ASSUME NEW i \in 1 .. n, NEW j \in 1 .. n, f[i] = f[j] PROVE i = j
    OBVIOUS
  <2>1. f[i] \in Nat /\ f[j] \in Nat
    BY <1>1, QueueElements DEF Positions
  <2> QED
    BY <1>1, <1>3, <2>1
<1>7. Distinct(qq)
  BY <1>1, <1>2, <1>6 DEF Distinct
<1> QED  BY <1>4, <1>5, <1>7 DEF qq

LEMMA DropKeepsOrder ==
  ASSUME NEW q \in Seq(Request), ByClass(q), Distinct(q), NEW n \in 0 .. Len(q)
  PROVE  /\ Queued(Drop(q, n)) = Queued(q) \ {q[i] : i \in 1 .. n}
         /\ ByClass(Drop(q, n)) /\ Distinct(Drop(q, n))
<1> DEFINE qq == Drop(q, n)
<1>1. Len(q) \in Nat /\ n \in Nat /\ Positions(qq) = 1 .. Len(q) - n
  BY DropIsQueue, QueueElements DEF Positions
<1>2. \A i \in Positions(qq) : i + n \in Positions(q) /\ qq[i] = q[i + n]
  BY <1>1 DEF Drop, Positions
<1>3. \A j \in Positions(q) : n < j => j - n \in Positions(qq) /\ qq[j - n] = q[j]
  BY <1>1 DEF Drop, Positions
<1> HIDE DEF qq
<1>4. Queued(qq) = Queued(q) \ {q[i] : i \in 1 .. n}
  <2>1. \A i \in Positions(qq) : qq[i] \in Queued(q) \ {q[k] : k \in 1 .. n}
    <3> SUFFICES ASSUME NEW i \in Positions(qq), NEW k \in 1 .. n PROVE qq[i] # q[k] /\ qq[i] \in Queued(q)
      BY <1>2 DEF Queued
    <3>1. k \in Positions(q) /\ i + n \in Positions(q) /\ i + n # k
      BY <1>1, <1>2 DEF Positions
    <3> QED  BY <1>2, <3>1 DEF Distinct, Queued
  <2>2. \A j \in Positions(q) : q[j] \notin {q[k] : k \in 1 .. n} => q[j] \in Queued(qq)
    <3> SUFFICES ASSUME NEW j \in Positions(q), q[j] \notin {q[k] : k \in 1 .. n}
                 PROVE  q[j] \in Queued(qq)
      OBVIOUS
    <3>1. n < j
      BY <1>1 DEF Positions
    <3> QED  BY <1>3, <3>1 DEF Queued
  <2> QED  BY <2>1, <2>2 DEF Queued
<1>5. ByClass(qq)
  <2> SUFFICES ASSUME NEW i \in Positions(qq), NEW j \in Positions(qq), i < j
               PROVE  Rank(qq[i]) <= Rank(qq[j])
    BY DEF ByClass
  <2>1. i + n \in Positions(q) /\ j + n \in Positions(q) /\ i + n < j + n
    BY <1>1, <1>2
  <2> QED  BY <1>2, <2>1 DEF ByClass
<1>6. Distinct(qq)
  <2> SUFFICES ASSUME NEW i \in Positions(qq), NEW j \in Positions(qq), qq[i] = qq[j]
               PROVE  i = j
    BY DEF Distinct
  <2>1. i + n \in Positions(q) /\ j + n \in Positions(q)
    BY <1>2
  <2>2. i + n = j + n
    BY <1>2, <2>1 DEF Distinct
  <2> QED  BY <1>1, <2>2
<1> QED  BY <1>4, <1>5, <1>6 DEF qq


-----------------------------------------------------------------------------
(* Accounting, order and wake-ups                                          *)

QueueInv == /\ TypeOK
            /\ phase = "idle" <=> active = None
            /\ Accounted /\ QueueByClass /\ NoLostWakeup

(* pump() on an ordered queue that holds exactly the waiting requests.     *)
LEMMA PumpQueue ==
  ASSUME TypeOK, NEW q \in Seq(Request), NEW out \in [Request -> Outcome],
         phase = "idle" <=> active = None,
         ByClass(q), Holds(q, out, active),
         Pump(q, out)
  PROVE  /\ QueueByClass' /\ Accounted'
         /\ phase' = "idle" <=> active' = None
         /\ queue' # <<>> => active' # None \/ socket' = "destroyed"
         /\ active' \notin {active, None} =>
              \A r \in Queued(queue') : Rank(active') <= Rank(r)
<1> USE RequestAssumption
<1>0. /\ Len(q) \in Nat /\ \A i \in Positions(q) : q[i] \in Request
      /\ Queued(q) \subseteq Request /\ Distinct(q)
  BY QueueElements DEF Holds
<1>1. CASE PumpBusy(q, out)
  BY <1>1 DEF PumpBusy, exchange, QueueByClass, Accounted
<1>2. CASE PumpDrained(q, out)
  <2>1. active' = active /\ active = None /\ phase' = phase /\ queue' = <<>>
    BY <1>2 DEF PumpDrained, exchange
  <2>2. Queued(queue') = {} /\ ByClass(queue') /\ Distinct(queue')
    BY <2>1, EmptyIsQueue DEF Queued, Positions, ByClass, Distinct
  <2>3. \A r \in Request : outcome'[r] = IF r \in Queued(q) THEN "failed" ELSE out[r]
    BY <1>2 DEF PumpDrained, Settle
  <2>4. {r \in Request : outcome'[r] = "pending"} = {}
    BY <2>1, <2>3 DEF Holds
  <2>5. Accounted'
    BY <2>1, <2>2, <2>4 DEF Accounted, Holds
  <2> QED  BY <2>1, <2>2, <2>5 DEF QueueByClass
<1>3. ASSUME NEW n \in 0 .. Len(q), PumpSends(q, out, n)
      PROVE  /\ QueueByClass' /\ Accounted'
             /\ phase' = "awaiting" /\ active' \in Request
             /\ \A r \in Queued(queue') : Rank(active') <= Rank(r)
  <2>1. n + 1 \in Positions(q) /\ n + 1 \in 0 .. Len(q) /\ n \in Nat /\ active = None
    BY <1>0, <1>3 DEF PumpSends, FirstLive, Positions
  <2>2. active' = q[n + 1] /\ q[n + 1] \in Request /\ queue' = Drop(q, n + 1)
    BY <1>0, <1>3, <2>1 DEF PumpSends
  <2>3. /\ Queued(queue') = Queued(q) \ {q[i] : i \in 1 .. n + 1}
        /\ ByClass(queue') /\ Distinct(queue')
    BY <1>0, <2>1, <2>2, DropKeepsOrder
  <2>4. {q[i] : i \in 1 .. n + 1} = {q[i] : i \in 1 .. n} \cup {q[n + 1]}
    BY <2>1
  <2>5. q[n + 1] \in Queued(q) /\ q[n + 1] \notin {q[i] : i \in 1 .. n}
    <3>1. \A i \in 1 .. n : i \in Positions(q) /\ i # n + 1
      BY <1>0, <2>1 DEF Positions
    <3> QED  BY <1>0, <2>1, <3>1 DEF Queued, Distinct
  <2>6. \A r \in Request : outcome'[r] = IF r \in {q[i] : i \in 1 .. n} THEN "failed" ELSE out[r]
    BY <1>3 DEF PumpSends, Settle
  <2>7. {r \in Request : outcome'[r] = "pending"} = Queued(q) \ {q[i] : i \in 1 .. n}
    BY <1>0, <2>1, <2>6 DEF Holds
  <2>8. Accounted'
    BY <2>2, <2>3, <2>4, <2>5, <2>7 DEF Accounted, Holds
  <2>9. \A r \in Queued(queue') : Rank(active') <= Rank(r)
    <3> SUFFICES ASSUME NEW r \in Queued(queue') PROVE Rank(q[n + 1]) <= Rank(r)
      BY <2>2
    <3>1. PICK j \in Positions(q) : r = q[j] /\ j \notin 1 .. n + 1
      BY <2>3 DEF Queued
    <3>2. n + 1 < j
      BY <1>0, <2>1, <3>1 DEF Positions
    <3> QED  BY <2>1, <3>1, <3>2 DEF ByClass
  <2> QED  BY <1>3, <2>2, <2>3, <2>8, <2>9 DEF PumpSends, QueueByClass
<1>4. ASSUME NEW n \in 0 .. Len(q), PumpExhausted(q, out, n)
      PROVE  /\ QueueByClass' /\ Accounted'
             /\ UNCHANGED <<active, phase>> /\ socket' = "destroyed"
  <2>1. n + 1 \in 0 .. Len(q) /\ n \in Nat /\ active = None
    BY <1>0, <1>4 DEF PumpExhausted, FirstLive
  <2>2. UNCHANGED <<active, phase>> /\ queue' = Drop(q, n + 1) /\ socket' = "destroyed"
    BY <1>4 DEF PumpExhausted
  <2>3. /\ Queued(queue') = Queued(q) \ {q[i] : i \in 1 .. n + 1}
        /\ ByClass(queue') /\ Distinct(queue')
    BY <1>0, <2>1, <2>2, DropKeepsOrder
  <2>4. \A r \in Request :
          outcome'[r] = IF r \in {q[i] : i \in 1 .. n + 1} THEN "failed" ELSE out[r]
    BY <1>4 DEF PumpExhausted, Settle
  <2>5. {r \in Request : outcome'[r] = "pending"} = Queued(q) \ {q[i] : i \in 1 .. n + 1}
    BY <1>0, <2>1, <2>4 DEF Holds
  <2>6. Accounted'
    BY <1>0, <2>1, <2>2, <2>3, <2>5 DEF Accounted, Holds
  <2> QED  BY <2>2, <2>3, <2>6 DEF QueueByClass
<1> QED
  BY <1>1, <1>2, <1>3, <1>4 DEF Pump, PumpBusy, PumpDrained

LEMMA EmptyQueue == Queued(<<>>) = {} /\ ByClass(<<>>) /\ Distinct(<<>>)
BY EmptyIsQueue DEF Queued, Positions, ByClass, Distinct

(* Rejecting everything that waits leaves only the active request.         *)
LEMMA ClearHolds ==
  ASSUME TypeOK, Accounted
  PROVE  Holds(<<>>, Settle(outcome, Queued(queue), "failed"), active)
<1> DEFINE out == Settle(outcome, Queued(queue), "failed")
<1>1. \A r \in Request : out[r] = IF r \in Queued(queue) THEN "failed" ELSE outcome[r]
  BY DEF Settle
<1> HIDE DEF out
<1>2. {r \in Request : out[r] = "pending"} = {active} \ {None}
  BY <1>1 DEF Accounted, Holds
<1> QED
  BY <1>2, EmptyQueue DEF Holds, out

(* Cancelling the requests of S that wait.                                 *)
LEMMA CancelHolds ==
  ASSUME TypeOK, Accounted, QueueByClass, NEW S, NEW f \in Order(queue, S)
  PROVE  /\ Holds(Retained(queue, f), Settle(outcome, Queued(queue) \cap S, "failed"), active)
         /\ ByClass(Retained(queue, f))
         /\ queue = <<>> => Retained(queue, f) = <<>>
<1> DEFINE out == Settle(outcome, Queued(queue) \cap S, "failed")
           qq == Retained(queue, f)
<1>0. queue \in Seq(Request) /\ ByClass(queue) /\ Distinct(queue)
  BY DEF TypeOK, Accounted, Holds, QueueByClass
<1>1. \A r \in Request :
        out[r] = IF r \in Queued(queue) \cap S THEN "failed" ELSE outcome[r]
  BY DEF Settle
<1>2. Queued(qq) = Queued(queue) \ S /\ ByClass(qq) /\ Distinct(qq)
  BY <1>0, RetainedKeepsOrder
<1>3. qq \in Seq(Request)
  BY <1>0, RetainedIsQueue
<1> HIDE DEF out, qq
<1>4. {r \in Request : out[r] = "pending"} = Queued(qq) \cup ({active} \ {None})
  BY <1>1, <1>2 DEF Accounted, Holds
<1>5. active \notin Queued(qq)
  BY <1>2 DEF Accounted, Holds
<1>6. queue = <<>> => qq = <<>>
  <2> SUFFICES ASSUME queue = <<>>, qq # <<>> PROVE FALSE
    OBVIOUS
  <2>1. 1 \in Positions(qq)
    BY <1>3, EmptySeq DEF Positions
  <2> QED  BY <1>2, <2>1, EmptyQueue DEF Queued
<1> QED  BY <1>2, <1>4, <1>5, <1>6 DEF Holds, out, qq


(* Steps that leave the queue, the promises and the transaction alone, or  *)
(* only move the transaction forward, or empty the queue.                  *)
LEMMA QuietQueue ==
  ASSUME QueueInv,
         UNCHANGED <<queue, outcome, active>>,
         phase' = "idle" <=> phase = "idle",
         timers' = timers, socket = "destroyed" => socket' = "destroyed"
  PROVE  (phase = "idle" <=> active = None)' /\ Accounted' /\ QueueByClass' /\ NoLostWakeup'
BY DEF QueueInv, Accounted, QueueByClass, NoLostWakeup

LEMMA ClearedQueue ==
  ASSUME QueueInv, UNCHANGED active,
         queue' = <<>>, outcome' = Settle(outcome, Queued(queue), "failed"),
         phase' = "idle" <=> phase = "idle"
  PROVE  (phase = "idle" <=> active = None)' /\ Accounted' /\ QueueByClass' /\ NoLostWakeup'
BY ClearHolds, EmptyQueue DEF QueueInv, Accounted, QueueByClass, NoLostWakeup

LEMMA AbortQuiet ==
  ASSUME NEW Condition \in BOOLEAN, Abort(Condition), phase \in Phase
  PROVE  phase' = "idle" <=> phase = "idle"
BY DEF Abort

(* request(): an admitted request is inserted, then pump() runs.           *)
LEMMA AdmitQueue ==
  ASSUME QueueInv, NEW r \in Request, Admit(r)
  PROVE  /\ (phase = "idle" <=> active = None)' /\ Accounted' /\ QueueByClass' /\ NoLostWakeup'
         /\ active' \notin {active, None} =>
              \A x \in Queued(queue') : Rank(active') <= Rank(x)
<1> DEFINE out == [outcome EXCEPT ![r] = "pending"]
<1>0. /\ TypeOK /\ queue \in Seq(Request) /\ ByClass(queue) /\ Distinct(queue)
      /\ outcome \in [Request -> Outcome]
  BY DEF QueueInv, TypeOK, Accounted, Holds, QueueByClass
<1>1. PICK p \in 1 .. Len(queue) + 1 :
        InsertionPoint(queue, r, p) /\ Pump(Insert(queue, r, p), out)
  BY DEF Admit
<1>2. outcome[r] = "new" /\ r \notin Queued(queue) /\ r # active
  <2>1. outcome[r] = "new"
    BY DEF Admit
  <2>2. r \notin Queued(queue) \cup ({active} \ {None}) /\ r # None
    BY <2>1, RequestAssumption DEF QueueInv, Accounted, Holds
  <2> QED  BY <2>1, <2>2
<1>3. /\ Queued(Insert(queue, r, p)) = Queued(queue) \cup {r}
      /\ ByClass(Insert(queue, r, p)) /\ Distinct(Insert(queue, r, p))
      /\ Insert(queue, r, p) \in Seq(Request)
  BY <1>0, <1>1, <1>2, InsertKeepsOrder, InsertIsQueue
<1>4. out \in [Request -> Outcome] /\ \A x \in Request : out[x] = IF x = r THEN "pending" ELSE outcome[x]
  BY <1>0 DEF Outcome
<1> HIDE DEF out
<1>5. {x \in Request : out[x] = "pending"} = Queued(Insert(queue, r, p)) \cup ({active} \ {None})
  BY <1>2, <1>3, <1>4 DEF QueueInv, Accounted, Holds
<1>6. Holds(Insert(queue, r, p), out, active)
  BY <1>2, <1>3, <1>5 DEF QueueInv, Accounted, Holds
<1> QED
  BY <1>0, <1>1, <1>3, <1>4, <1>6, PumpQueue DEF QueueInv, NoLostWakeup

LEMMA CancelMonitorQueue ==
  ASSUME QueueInv, NEW l, NEW Runs, CancelMonitorRequests(l, Runs)
  PROVE  /\ (phase = "idle" <=> active = None)' /\ Accounted' /\ QueueByClass' /\ NoLostWakeup'
         /\ active' \notin {active, None} =>
              \A x \in Queued(queue') : Rank(active') <= Rank(x)
<1> DEFINE S == MonitorWork(l, Runs)
           out == Settle(outcome, Queued(queue) \cap S, "failed")
<1>0. TypeOK /\ queue \in Seq(Request) /\ phase \in Phase
  BY DEF QueueInv, TypeOK
<1>1. PICK f \in Order(queue, S) :
        \/ /\ active # None
           /\ queue' = Retained(queue, f) /\ outcome' = out
           /\ Abort(active \in S)
           /\ UNCHANGED <<socket, active, tx, network>>
        \/ active = None /\ Pump(Retained(queue, f), out)
  BY DEF CancelMonitorRequests
<1>2. /\ Holds(Retained(queue, f), out, active) /\ ByClass(Retained(queue, f))
      /\ Retained(queue, f) \in Seq(Request) /\ out \in [Request -> Outcome]
  BY <1>0, CancelHolds, RetainedIsQueue, SettleType DEF QueueInv, TypeOK, Outcome
<1>3. timers' = timers
  BY DEF CancelMonitorRequests
<1> HIDE DEF S, out
<1>4. CASE /\ active # None
           /\ queue' = Retained(queue, f) /\ outcome' = out
           /\ Abort(active \in S)
           /\ UNCHANGED <<socket, active, tx, network>>
  <2>1. phase' = "idle" <=> phase = "idle"
    BY <1>0, <1>4 DEF Abort
  <2> QED
    BY <1>2, <1>4, <2>1 DEF QueueInv, Accounted, QueueByClass, NoLostWakeup
<1>5. CASE Pump(Retained(queue, f), out)
  BY <1>0, <1>2, <1>5, PumpQueue DEF QueueInv, NoLostWakeup
<1> QED
  BY <1>1, <1>4, <1>5

LEMMA PumpTimerQueue ==
  ASSUME QueueInv, PumpTimer
  PROVE  /\ (phase = "idle" <=> active = None)' /\ Accounted' /\ QueueByClass' /\ NoLostWakeup'
         /\ active' \notin {active, None} =>
              \A x \in Queued(queue') : Rank(active') <= Rank(x)
<1>1. queue \in Seq(Request) /\ outcome \in [Request -> Outcome] /\ Pump(queue, outcome)
  BY DEF QueueInv, TypeOK, PumpTimer
<1> QED
  BY <1>1, PumpQueue DEF QueueInv, Accounted, QueueByClass, NoLostWakeup

(* Every pending request is the active one or stands once in the queue,    *)
(* the queue is ordered by class, and something will pump it.              *)
THEOREM QueueInvariant == Spec => []QueueInv
<1> USE RequestAssumption
<1>1. Init => QueueInv
  <2>1. Init => TypeOK
    BY EmptyIsQueue DEF Init, TypeOK, TxId, Phase, Outcome
  <2> QED
    BY <2>1, EmptyQueue DEF Init, QueueInv, Accounted, Holds, QueueByClass, NoLostWakeup
<1>2. QueueInv /\ TypeOK' /\ [Next]_vars => QueueInv'
  <2> SUFFICES ASSUME QueueInv, TypeOK', [Next]_vars
               PROVE  (phase = "idle" <=> active = None)' /\ Accounted'
                      /\ QueueByClass' /\ NoLostWakeup'
    BY DEF QueueInv
  <2>0. TypeOK /\ phase \in Phase /\ queue \in Seq(Request)
    BY DEF QueueInv, TypeOK
  <2>1. ASSUME NEW r \in Request, Admit(r) PROVE QueueInv'
    BY <2>1, AdmitQueue DEF QueueInv
  <2>2. ASSUME NEW r \in Request, Refuse(r) PROVE QueueInv'
    <3>1. /\ UNCHANGED <<queue, active, phase, timers, socket>>
          /\ outcome[r] = "new" /\ outcome' = [outcome EXCEPT ![r] = "refused"]
      BY <2>2 DEF Refuse, session, exchange
    <3>2. {x \in Request : outcome'[x] = "pending"} = {x \in Request : outcome[x] = "pending"}
      BY <2>0, <3>1 DEF TypeOK
    <3> QED
      BY <3>1, <3>2 DEF QueueInv, Accounted, Holds, QueueByClass, NoLostWakeup
  <2>3. ASSUME NEW l, NEW Runs, CancelMonitorRequests(l, Runs) PROVE QueueInv'
    BY <2>3, CancelMonitorQueue DEF QueueInv
  <2>4. ASSUME NEW Of, CancelAcquisitionRequests(Of) PROVE QueueInv'
    <3> DEFINE S == {r \in Request : ClassOf[r] = "acquisition" /\ OwnerOf[r] \in Of}
    <3>1. PICK f \in Order(queue, S) : queue' = Retained(queue, f)
      BY <2>4 DEF CancelAcquisitionRequests
    <3>2. /\ outcome' = Settle(outcome, Queued(queue) \cap S, "failed")
          /\ Abort(active \in S) /\ UNCHANGED <<socket, active, timers>>
      BY <2>4 DEF CancelAcquisitionRequests, session
    <3> HIDE DEF S
    <3>3. phase' = "idle" <=> phase = "idle"
      BY <2>0, <3>2 DEF Abort
    <3>4. /\ Holds(queue', outcome', active) /\ ByClass(queue')
          /\ queue = <<>> => queue' = <<>>
      BY <2>0, <3>1, <3>2, CancelHolds DEF QueueInv
    <3> QED
      BY <3>2, <3>3, <3>4 DEF QueueInv, Accounted, QueueByClass, NoLostWakeup
  <2>5. CASE Connect
    BY <2>5, QuietQueue DEF Connect, exchange, QueueInv
  <2>6. CASE Disconnect
    <3>1. phase' = "idle" <=> phase = "idle"
      BY <2>0, <2>6 DEF Disconnect, ClearQueue, Abort
    <3> QED
      BY <2>6, <3>1, ClearedQueue DEF Disconnect, ClearQueue, QueueInv
  <2>7. CASE OnConnect
    BY <2>7, QuietQueue DEF OnConnect, QueueInv
  <2>8. CASE OnConnectFailed
    <3>1. phase' = "idle" <=> phase = "idle"
      BY <2>0, <2>8 DEF OnConnectFailed, ClearQueue, Abort
    <3> QED
      BY <2>8, <3>1, ClearedQueue DEF OnConnectFailed, ClearQueue, QueueInv
  <2>9. ASSUME NEW afterError \in BOOLEAN, OnClose(afterError) PROVE QueueInv'
    <3>1. phase' = "idle" <=> phase = "idle"
      BY <2>0, <2>9 DEF OnClose, Abort
    <3> QED
      BY <2>9, <3>1, ClearedQueue DEF OnClose, QueueInv
  <2>10. CASE OnDetachedClose
    BY <2>10, QuietQueue DEF OnDetachedClose, exchange, QueueInv
  <2>11. CASE PeerEnds
    BY <2>11, QuietQueue DEF PeerEnds, exchange, QueueInv
  <2>12. ASSUME NEW w \in wire, FrameBegins(w) PROVE QueueInv'
    BY <2>12, QuietQueue DEF FrameBegins, session, exchange, QueueInv
  <2>13. CASE FrameEnds
    <3>1. phase' = "idle" <=> phase = "idle"
      BY <2>13 DEF FrameEnds, Receiver, QueueInv
    <3> QED
      BY <2>13, <3>1, QuietQueue DEF FrameEnds, session, QueueInv
  <2>14. CASE InvalidFrame
    <3>1. phase' = "idle" <=> phase = "idle"
      BY <2>0, <2>14 DEF InvalidFrame, Abort
    <3> QED
      BY <2>14, <3>1, QuietQueue DEF InvalidFrame, QueueInv
  <2>15. CASE WriteFails
    BY <2>15, QuietQueue DEF WriteFails, session, QueueInv
  <2>16. CASE Timeout
    BY <2>0, <2>16, QuietQueue DEF Timeout, Abort, session, QueueInv
  <2>17. CASE Complete
    <3>1. active \in Request
      BY <2>0, <2>17 DEF Complete, TypeOK, QueueInv
    <3>2. /\ active' = None /\ phase' = "idle" /\ timers' = timers + 1 /\ queue' = queue
      BY <2>17 DEF Complete
    <3>3. {r \in Request : outcome'[r] = "pending"} = Queued(queue)
      BY <2>0, <2>17, <3>1 DEF Complete, TypeOK, QueueInv, Accounted, Holds
    <3>4. Accounted'
      BY <2>0, <3>2, <3>3, QueueElements DEF QueueInv, Accounted, Holds
    <3>5. timers' > 0
      BY <2>0, <3>2 DEF TypeOK
    <3> QED
      BY <3>2, <3>4, <3>5 DEF QueueInv, QueueByClass, NoLostWakeup
  <2>18. CASE PumpTimer
    BY <2>18, PumpTimerQueue DEF QueueInv
  <2>19. CASE UNCHANGED vars
    BY <2>19, QuietQueue DEF vars, session, exchange, QueueInv
  <2> QED
    BY <2>1, <2>2, <2>3, <2>4, <2>5, <2>6, <2>7, <2>8, <2>9, <2>10, <2>11, <2>12,
       <2>13, <2>14, <2>15, <2>16, <2>17, <2>18, <2>19
       DEF Next, Calls, SocketEvents, QueueInv
<1> QED
  BY <1>1, <1>2, TypeCorrect, PTL DEF Spec

(* No request is lost by the queue, classes keep their order in it, and    *)
(* whatever waits will be looked at again.                                 *)
THEOREM QueueCorrect == Spec => [](Accounted /\ QueueByClass /\ NoLostWakeup)
<1>1. QueueInv => Accounted /\ QueueByClass /\ NoLostWakeup
  BY DEF QueueInv
<1> QED
  BY <1>1, QueueInvariant, PTL


-----------------------------------------------------------------------------
(* Limits and duplicates                                                   *)

(* What the connection has to do: what waits and what is in progress.      *)
Work(q, a) == Queued(q) \cup ({a} \ {None})

(* pump() adds nothing to what waits, and sends only what waited.          *)
LEMMA PumpWork ==
  ASSUME TypeOK, NEW q \in Seq(Request), NEW out, Pump(q, out)
  PROVE  Queued(queue') \subseteq Queued(q) /\ Work(queue', active') \subseteq Work(q, active)
<1>1. Len(q) \in Nat
  BY QueueElements
<1>2. CASE PumpBusy(q, out)
  BY <1>2 DEF PumpBusy, exchange, Work
<1>3. CASE PumpDrained(q, out)
  BY <1>3, EmptyQueue DEF PumpDrained, exchange, Work
<1>4. ASSUME NEW n \in 0 .. Len(q), PumpSends(q, out, n) \/ PumpExhausted(q, out, n)
      PROVE  Queued(queue') \subseteq Queued(q) /\ Work(queue', active') \subseteq Work(q, active)
  <2>1. /\ n \in Nat /\ n + 1 \in Positions(q)
        /\ queue' = Drop(q, n + 1) /\ active' \in {active, q[n + 1]}
    BY <1>1, <1>4 DEF PumpSends, PumpExhausted, FirstLive, Positions
  <2>2. n + 1 \in 0 .. Len(q)
    BY <1>1, <2>1 DEF Positions
  <2>3. Positions(queue') = 1 .. Len(q) - (n + 1)
    BY <2>1, <2>2, DropIsQueue DEF Positions
  <2>4. \A i \in Positions(queue') : i + (n + 1) \in Positions(q) /\ queue'[i] = q[i + (n + 1)]
    BY <1>1, <2>1, <2>3 DEF Drop, Positions
  <2>5. Queued(queue') \subseteq Queued(q)
    BY <2>4 DEF Queued
  <2> QED
    BY <2>1, <2>5 DEF Work, Queued
<1> QED
  BY <1>2, <1>3, <1>4 DEF Pump

(* Only a call that is admitted adds to what the connection has to do.     *)
LEMMA StepWork ==
  ASSUME RequestAssumption, QueueInv, [Next]_vars
  PROVE  \/ Queued(queue') \subseteq Queued(queue) /\ Work(queue', active') \subseteq Work(queue, active)
         \/ \E r \in Request : /\ Admit(r)
                               /\ Queued(queue') \subseteq Queued(queue) \cup {r}
                               /\ Work(queue', active') \subseteq Work(queue, active) \cup {r}
<1> DEFINE Less == /\ Queued(queue') \subseteq Queued(queue)
                   /\ Work(queue', active') \subseteq Work(queue, active)
<1>0. TypeOK /\ queue \in Seq(Request) /\ ByClass(queue) /\ Distinct(queue)
  BY DEF QueueInv, TypeOK, QueueByClass, Accounted, Holds
<1>1. ASSUME NEW r \in Request, Admit(r)
      PROVE  /\ Queued(queue') \subseteq Queued(queue) \cup {r}
             /\ Work(queue', active') \subseteq Work(queue, active) \cup {r}
  <2>1. PICK p \in 1 .. Len(queue) + 1 :
          /\ InsertionPoint(queue, r, p)
          /\ Pump(Insert(queue, r, p), [outcome EXCEPT ![r] = "pending"])
    BY <1>1 DEF Admit
  <2>2. r \notin Queued(queue)
    BY <1>1 DEF Admit, QueueInv, Accounted, Holds
  <2>3. /\ Insert(queue, r, p) \in Seq(Request)
        /\ Queued(Insert(queue, r, p)) = Queued(queue) \cup {r}
    BY <1>0, <2>1, <2>2, InsertIsQueue, InsertKeepsOrder
  <2> QED
    BY <1>0, <2>1, <2>3, PumpWork DEF Work
<1>2. ASSUME NEW S, NEW f \in Order(queue, S)
      PROVE  /\ Retained(queue, f) \in Seq(Request)
             /\ Queued(Retained(queue, f)) \subseteq Queued(queue)
  BY <1>0, RetainedIsQueue, RetainedKeepsOrder
<1>3. ASSUME NEW l, NEW Runs, CancelMonitorRequests(l, Runs)
      PROVE  Less
  <2> DEFINE S == MonitorWork(l, Runs)
             out == Settle(outcome, Queued(queue) \cap S, "failed")
  <2>1. PICK f \in Order(queue, S) :
          \/ queue' = Retained(queue, f) /\ active' = active
          \/ Pump(Retained(queue, f), out)
    BY <1>3 DEF CancelMonitorRequests
  <2> QED
    BY <1>0, <1>2, <2>1, PumpWork DEF Work
<1>4. ASSUME NEW Of, CancelAcquisitionRequests(Of)
      PROVE  Less
  <2> DEFINE S == {r \in Request : ClassOf[r] = "acquisition" /\ OwnerOf[r] \in Of}
  <2>1. PICK f \in Order(queue, S) : queue' = Retained(queue, f) /\ active' = active
    BY <1>4 DEF CancelAcquisitionRequests
  <2> QED
    BY <1>2, <2>1 DEF Work
<1>5. CASE PumpTimer
  BY <1>0, <1>5, PumpWork DEF PumpTimer
<1>6. CASE queue' \in {queue, <<>>} /\ active' \in {active, None}
  BY <1>6, EmptyQueue DEF Work
<1>7. ASSUME NEW r \in Request, Refuse(r) PROVE queue' = queue /\ active' = active
  BY <1>7 DEF Refuse, exchange
<1>8. CASE Connect \/ Disconnect \/ Timeout \/ Complete \/ UNCHANGED vars
  BY <1>6, <1>8 DEF Connect, Disconnect, ClearQueue, Timeout, Complete, vars, exchange
<1>9. CASE SocketEvents
  BY <1>6, <1>9 DEF SocketEvents, OnConnect, OnConnectFailed, ClearQueue, OnClose,
     OnDetachedClose, PeerEnds, FrameBegins, FrameEnds, InvalidFrame, WriteFails, exchange
<1> QED
  BY <1>1, <1>3, <1>4, <1>5, <1>6, <1>7, <1>8, <1>9 DEF Next, Calls

(* A monitor list has one job in the queue or on the wire at most, also    *)
(* while an aborted one has not left activeRequest yet.                    *)
THEOREM ListCorrect == Spec => []OneJobPerList
<1>1. Init => OneJobPerList
  BY EmptyQueue DEF Init, OneJobPerList
<1>2. QueueInv /\ OneJobPerList /\ [Next]_vars => OneJobPerList'
  <2> SUFFICES ASSUME QueueInv, OneJobPerList, [Next]_vars PROVE OneJobPerList'
    OBVIOUS
  <2>1. \A r, s \in Work(queue, active) : ClassOf[r] = "monitor" /\ SameList(r, s) => r = s
    BY DEF OneJobPerList, Work
  <2>2. \A r, s \in Work(queue', active') : ClassOf[r] = "monitor" /\ SameList(r, s) => r = s
    <3>1. CASE Work(queue', active') \subseteq Work(queue, active)
      BY <2>1, <3>1
    <3>2. ASSUME NEW r \in Request, Admit(r),
                 Work(queue', active') \subseteq Work(queue, active) \cup {r}
          PROVE  \A x, y \in Work(queue', active') : ClassOf[x] = "monitor" /\ SameList(x, y) => x = y
      <4>1. \A s \in Work(queue, active) : ClassOf[r] = "monitor" => ~ SameList(r, s)
        BY <3>2 DEF Admit, Refused, Work, Queued
      <4> QED
        BY <2>1, <3>2, <4>1 DEF SameList
    <3> QED
      BY <3>1, <3>2, StepWork, RequestAssumption
  <2> QED
    BY <2>2 DEF OneJobPerList, Work
<1> QED
  BY <1>1, <1>2, QueueInvariant, PTL DEF Spec

Members(q, c) == {r \in Queued(q) : ClassOf[r] = c}

(* Where requests stand once, counting places is counting requests.        *)
LEMMA MembersCounted ==
  ASSUME NEW q \in Seq(Request), Distinct(q), NEW c
  PROVE  /\ IsFiniteSet(Members(q, c)) /\ Cardinality(Members(q, c)) \in Nat
         /\ Cardinality(OfClass(q, c)) = Cardinality(Members(q, c))
<1> DEFINE f == [i \in OfClass(q, c) |-> q[i]]
<1>1. IsFiniteSet(OfClass(q, c))
  <2>1. IsFiniteSet(1 .. Len(q))
    BY QueueElements, FS_Interval
  <2>2. OfClass(q, c) \in SUBSET (1 .. Len(q))
    BY DEF OfClass, Positions
  <2> QED
    BY <2>1, <2>2, FS_Subset
<1>2. f \in Bijection(OfClass(q, c), Members(q, c))
  BY DEF Bijection, Injection, IsInjective, Surjection, OfClass, Members, Queued, Distinct
<1> QED
  BY <1>1, <1>2, FS_Bijection, FS_CardinalityType DEF ExistsBijection

(* The queue never holds more monitor jobs or acquisitions than its limits *)
(* admit, wherever they were inserted.                                     *)
THEOREM BoundsCorrect == Spec => []QueueBounds
<1>1. Init => QueueBounds
  <2>1. \A c : OfClass(<<>>, c) = {}
    BY EmptyIsQueue DEF OfClass, Positions
  <2>2. MonitorLimit \in Nat /\ AcquisitionLimit \in Nat /\ Cardinality({}) = 0
    BY FS_EmptySet, RequestAssumption
  <2>3. ASSUME Init PROVE QueueBounds
    <3>1. \A c : Cardinality(OfClass(queue, c)) = 0
      BY <2>1, <2>2, <2>3 DEF Init
    <3> QED
      BY <2>2, <3>1 DEF QueueBounds
  <2> QED
    BY <2>3
<1>2. QueueInv /\ QueueInv' /\ QueueBounds /\ [Next]_vars => QueueBounds'
  <2> SUFFICES ASSUME QueueInv, QueueInv', QueueBounds, [Next]_vars PROVE QueueBounds'
    OBVIOUS
  <2>1. queue \in Seq(Request) /\ Distinct(queue) /\ queue' \in Seq(Request) /\ Distinct(queue')
    BY DEF QueueInv, TypeOK, Accounted, Holds
  <2>2. ASSUME NEW c, NEW limit \in Nat, Cardinality(OfClass(queue, c)) <= limit,
               \A r \in Request : Admit(r) /\ ClassOf[r] = c => Cardinality(OfClass(queue, c)) < limit
        PROVE  Cardinality(OfClass(queue', c)) <= limit
    <3>1. /\ IsFiniteSet(Members(queue, c)) /\ Cardinality(Members(queue, c)) \in Nat
          /\ Cardinality(OfClass(queue, c)) = Cardinality(Members(queue, c))
          /\ Cardinality(Members(queue', c)) \in Nat
          /\ Cardinality(OfClass(queue', c)) = Cardinality(Members(queue', c))
      BY <2>1, MembersCounted
    <3>2. CASE Members(queue', c) \subseteq Members(queue, c)
      BY <2>2, <3>1, <3>2, FS_Subset
    <3>3. ASSUME NEW r \in Request, Admit(r), ClassOf[r] = c,
                 Members(queue', c) \subseteq Members(queue, c) \cup {r}
          PROVE  Cardinality(OfClass(queue', c)) <= limit
      <4>1. /\ IsFiniteSet(Members(queue, c) \cup {r})
            /\ Cardinality(Members(queue, c) \cup {r}) <= Cardinality(Members(queue, c)) + 1
        <5>1. /\ IsFiniteSet(Members(queue, c) \cup {r})
              /\ Cardinality(Members(queue, c) \cup {r}) =
                   IF r \in Members(queue, c) THEN Cardinality(Members(queue, c))
                   ELSE Cardinality(Members(queue, c)) + 1
          BY <3>1, FS_AddElement
        <5> DEFINE n == Cardinality(Members(queue, c))
        <5>2. n \in Nat /\ n <= n + 1
          BY <3>1
        <5> QED
          BY <5>1, <5>2
      <4>2. Cardinality(Members(queue', c)) <= Cardinality(Members(queue, c) \cup {r})
        BY <3>3, <4>1, FS_Subset
      <4>3. Cardinality(Members(queue, c) \cup {r}) \in Nat
        BY <4>1, FS_CardinalityType
      <4> QED
        BY <2>2, <3>1, <3>3, <4>1, <4>2, <4>3
    <3> QED
      BY <3>2, <3>3, StepWork, RequestAssumption DEF Members
  <2>3. MonitorLimit \in Nat /\ AcquisitionLimit \in Nat
    BY RequestAssumption
  <2>4. ASSUME NEW r \in Request, Admit(r)
        PROVE  /\ ClassOf[r] = "monitor" => Cardinality(OfClass(queue, "monitor")) < MonitorLimit
               /\ ClassOf[r] = "acquisition"
                    => Cardinality(OfClass(queue, "acquisition")) < AcquisitionLimit
    <3>1. \A c : Cardinality(OfClass(queue, c)) \in Nat
      BY <2>1, MembersCounted
    <3> QED
      BY <2>3, <2>4, <3>1 DEF Admit, Refused
  <2> QED
    BY <2>2, <2>3, <2>4 DEF QueueBounds
<1> QED
  BY <1>1, <1>2, QueueInvariant, PTL DEF Spec

-----------------------------------------------------------------------------
(* Priority                                                                *)

(* The request that is sent has the first class among those that wait.     *)
THEOREM PriorityCorrect == Spec => PriorityRespected
<1> DEFINE Sends == active' \notin {active, None} =>
                      \A r \in Queued(queue') : Rank(active') <= Rank(r)
<1>1. QueueInv /\ [Next]_vars => Sends
  <2> SUFFICES ASSUME QueueInv, [Next]_vars PROVE Sends
    OBVIOUS
  <2>1. ASSUME NEW r \in Request, Admit(r) PROVE Sends
    BY <2>1, AdmitQueue
  <2>2. ASSUME NEW l, NEW Runs, CancelMonitorRequests(l, Runs) PROVE Sends
    BY <2>2, CancelMonitorQueue
  <2>3. CASE PumpTimer
    BY <2>3, PumpTimerQueue
  <2>4. CASE Complete
    BY <2>4 DEF Complete
  <2>5. ASSUME \/ \E r \in Request : Refuse(r)
               \/ \E Of \in {Owners} \cup {{o} : o \in Owners} : CancelAcquisitionRequests(Of)
               \/ Connect \/ Disconnect \/ SocketEvents \/ Timeout
               \/ UNCHANGED vars
        PROVE  active' = active
    BY <2>5 DEF Refuse, CancelAcquisitionRequests, Connect, Disconnect, ClearQueue,
                SocketEvents, OnConnect, OnConnectFailed, OnClose, OnDetachedClose,
                PeerEnds, FrameBegins, FrameEnds, InvalidFrame, WriteFails, Timeout,
                vars, exchange
  <2> QED
    BY <2>1, <2>2, <2>3, <2>4, <2>5 DEF Next, Calls
<1> QED
  BY <1>1, QueueInvariant, PTL DEF Spec, PriorityRespected

(* Cancelling a monitor list fails a request of another class only when it *)
(* could not have been sent: pump() rejects stale requests, and the first  *)
(* live one when every transaction id is retired.                          *)
THEOREM CancelCorrect == Spec => CancelSparesOthers
<1> DEFINE Hopeless(r) == ~ Connected \/ gen[r] # generation \/ retired = TxId
           Spares == (\E l \in Lists, Runs \in SUBSET AllRuns : CancelMonitorRequests(l, Runs)) =>
                       \A r \in Request : outcome[r] = "pending" /\ outcome'[r] = "failed" =>
                         \/ ClassOf[r] = "monitor"
                         \/ ~ Connected \/ gen[r] # generation \/ retired = TxId
<1>1. ASSUME NEW q, NEW out, gen' = gen, Pump(q, out),
             NEW r \in Request, outcome'[r] # out[r]
      PROVE  Hopeless(r)
  <2>1. CASE PumpBusy(q, out)
    BY <1>1, <2>1 DEF PumpBusy
  <2>2. CASE PumpDrained(q, out)
    <3>1. r \in Queued(q) /\ \A x \in Queued(q) : ~ Live(x)
      BY <1>1, <2>2 DEF PumpDrained, Settle
    <3> QED
      BY <1>1, <3>1 DEF Live
  <2>3. ASSUME NEW n \in 0 .. Len(q), PumpSends(q, out, n) PROVE Hopeless(r)
    <3>1. /\ r \in {q[i] : i \in 1 .. n} /\ \A i \in 1 .. n : ~ Live(q[i])
      BY <1>1, <2>3 DEF PumpSends, FirstLive, Settle
    <3> QED
      BY <1>1, <3>1 DEF Live
  <2>4. ASSUME NEW n \in 0 .. Len(q), PumpExhausted(q, out, n) PROVE Hopeless(r)
    BY <2>4 DEF PumpExhausted
  <2> QED
    BY <1>1, <2>1, <2>2, <2>3, <2>4 DEF Pump
<1>2. TypeOK => Spares
  <2> SUFFICES ASSUME TypeOK, NEW l, NEW Runs, CancelMonitorRequests(l, Runs),
                      NEW r \in Request, outcome[r] = "pending", outcome'[r] = "failed",
                      ClassOf[r] # "monitor"
               PROVE  Hopeless(r)
    OBVIOUS
  <2> DEFINE S == MonitorWork(l, Runs)
             out == Settle(outcome, Queued(queue) \cap S, "failed")
  <2>1. out[r] = "pending"
    BY DEF Settle, MonitorWork
  <2>2. PICK f \in Order(queue, S) : outcome' = out \/ Pump(Retained(queue, f), out)
    BY DEF CancelMonitorRequests
  <2>3. gen' = gen
    BY DEF CancelMonitorRequests
  <2> HIDE DEF out
  <2>4. outcome'[r] # out[r] /\ Pump(Retained(queue, f), out)
    BY <2>1, <2>2
  <2> QED
    BY <1>1, <2>3, <2>4
<1> QED
  BY <1>2, TypeCorrect, PTL DEF Spec, CancelSparesOthers

-----------------------------------------------------------------------------
(* The ledger of requests                                                  *)

LedgerAnswer == [r \in Request |-> IF outcome[r] = "ok" THEN answer[r] ELSE None]

LEMMA LedgerFail ==
  ASSUME TypeOK, NEW D \in SUBSET {r \in Request : outcome[r] = "pending"},
         outcome' = Settle(outcome, D, "failed"),
         \A r \in Request : outcome[r] = "ok" => answer'[r] = answer[r]
  PROVE  [Ledger!Next]_(Ledger!vars)
<1>1. D \in SUBSET Request
  OBVIOUS
<1>2. LedgerAnswer' = LedgerAnswer
  BY DEF LedgerAnswer, Settle
<1>3. Ledger!Fail(D)
  BY <1>2 DEF Ledger!Fail, Settle, LedgerAnswer
<1> QED
  BY <1>1, <1>3 DEF Ledger!Next

(* pump() only fails requests that were pending.                           *)
LEMMA PumpLedger ==
  ASSUME TypeOK, NEW q \in Seq(Request), NEW out \in [Request -> Outcome],
         Holds(q, out, active), Pump(q, out)
  PROVE  \E D \in SUBSET {r \in Request : out[r] = "pending"} :
           outcome' = Settle(out, D, "failed")
<1>0. Len(q) \in Nat /\ Queued(q) \subseteq {r \in Request : out[r] = "pending"}
  BY QueueElements DEF Holds
<1>1. CASE PumpBusy(q, out)
  <2>1. outcome' = Settle(out, {}, "failed")
    BY <1>1 DEF PumpBusy, Settle
  <2> QED  BY <2>1
<1>2. CASE PumpDrained(q, out)
  BY <1>0, <1>2 DEF PumpDrained
<1>3. ASSUME NEW n \in 0 .. Len(q), PumpSends(q, out, n) \/ PumpExhausted(q, out, n)
      PROVE  \E D \in SUBSET {r \in Request : out[r] = "pending"} :
               outcome' = Settle(out, D, "failed")
  <2>1. n \in Nat /\ n + 1 \in 1 .. Len(q)
    BY <1>0, <1>3 DEF PumpSends, PumpExhausted, FirstLive
  <2>2. /\ {q[i] : i \in 1 .. n} \subseteq Queued(q)
        /\ {q[i] : i \in 1 .. n + 1} \subseteq Queued(q)
    BY <1>0, <2>1 DEF Queued, Positions
  <2> QED
    BY <1>0, <1>3, <2>2 DEF PumpSends, PumpExhausted
<1> QED
  BY <1>1, <1>2, <1>3 DEF Pump

(* The connection implements the ledger: a request is settled once, with   *)
(* its own reply or an error, and never after it was refused.              *)
THEOREM LedgerCorrect == Spec => ImplementsLedger
<1> USE RequestAssumption
<1>1. Init => Ledger!Init
  BY DEF Init, Ledger!Init
<1>2. ReplyInv /\ QueueInv /\ [Next]_vars => [Ledger!Next]_(Ledger!vars)
  <2> SUFFICES ASSUME ReplyInv, QueueInv, [Next]_vars
               PROVE  [Ledger!Next]_(Ledger!vars)
    OBVIOUS
  <2>0. /\ TypeOK /\ queue \in Seq(Request) /\ outcome \in [Request -> Outcome]
        /\ Queued(queue) \in SUBSET {r \in Request : outcome[r] = "pending"}
    BY QueueElements DEF ReplyInv, QueueInv, TypeOK, Accounted, Holds
  <2>1. ASSUME NEW r \in Request, Admit(r) PROVE [Ledger!Next]_(Ledger!vars)
    <3> DEFINE out == [outcome EXCEPT ![r] = "pending"]
    <3>1. PICK p \in 1 .. Len(queue) + 1 :
            InsertionPoint(queue, r, p) /\ Pump(Insert(queue, r, p), out)
      BY <2>1 DEF Admit
    <3>2. outcome[r] = "new" /\ answer' = answer
      BY <2>1 DEF Admit
    <3>3. r \notin Queued(queue) /\ r # active
      BY <3>2 DEF QueueInv, Accounted, Holds
    <3>4. /\ Queued(Insert(queue, r, p)) = Queued(queue) \cup {r}
          /\ Distinct(Insert(queue, r, p)) /\ Insert(queue, r, p) \in Seq(Request)
      BY <2>0, <3>1, <3>3, InsertKeepsOrder, InsertIsQueue
         DEF QueueInv, QueueByClass, Accounted, Holds
    <3>5. /\ out \in [Request -> Outcome]
          /\ \A x \in Request : out[x] = IF x = r THEN "pending" ELSE outcome[x]
      BY <2>0 DEF Outcome
    <3> HIDE DEF out
    <3>6. Holds(Insert(queue, r, p), out, active)
      BY <3>3, <3>4, <3>5 DEF QueueInv, Accounted, Holds
    <3>7. PICK D \in SUBSET {x \in Request : out[x] = "pending"} :
            outcome' = Settle(out, D, "failed")
      BY <2>0, <3>1, <3>4, <3>5, <3>6, PumpLedger
    <3> DEFINE verdict == IF r \in D THEN "failed" ELSE "pending"
    <3>8. D \ {r} \subseteq {x \in Request : outcome[x] = "pending"}
      BY <3>5, <3>7
    <3>9. outcome' = [x \in Request |-> IF x = r THEN verdict
                                         ELSE IF x \in D \ {r} THEN "failed"
                                         ELSE outcome[x]]
      BY <3>5, <3>7 DEF Settle
    <3>10. LedgerAnswer' = LedgerAnswer
      BY <3>2, <3>8, <3>9 DEF LedgerAnswer
    <3>11. Ledger!Call(r, verdict, D \ {r})
      BY <3>2, <3>8, <3>9, <3>10 DEF Ledger!Call, LedgerAnswer
    <3>12. verdict \in {"pending", "refused", "failed"} /\ D \ {r} \in SUBSET Request
      OBVIOUS
    <3> QED
      BY <3>11, <3>12 DEF Ledger!Next
  <2>2. ASSUME NEW r \in Request, Refuse(r) PROVE [Ledger!Next]_(Ledger!vars)
    <3>1. /\ outcome[r] = "new" /\ answer' = answer
          /\ outcome' = [outcome EXCEPT ![r] = "refused"]
      BY <2>2 DEF Refuse
    <3>2. outcome' = [x \in Request |-> IF x = r THEN "refused"
                                         ELSE IF x \in {} THEN "failed" ELSE outcome[x]]
      BY <2>0, <3>1
    <3>3. LedgerAnswer' = LedgerAnswer
      BY <3>1, <3>2 DEF LedgerAnswer
    <3>4. Ledger!Call(r, "refused", {})
      BY <3>1, <3>2, <3>3 DEF Ledger!Call, LedgerAnswer
    <3> QED
      BY <3>4 DEF Ledger!Next
  <2>3. ASSUME NEW l, NEW Runs, CancelMonitorRequests(l, Runs)
        PROVE  [Ledger!Next]_(Ledger!vars)
    <3> DEFINE S == MonitorWork(l, Runs)
               out == Settle(outcome, Queued(queue) \cap S, "failed")
    <3>1. PICK f \in Order(queue, S) :
            outcome' = out \/ Pump(Retained(queue, f), out)
      BY <2>3 DEF CancelMonitorRequests
    <3>2. /\ Holds(Retained(queue, f), out, active)
          /\ Retained(queue, f) \in Seq(Request) /\ out \in [Request -> Outcome]
      BY <2>0, CancelHolds, RetainedIsQueue, SettleType DEF QueueInv, Outcome
    <3>3. answer' = answer
      BY <2>3 DEF CancelMonitorRequests
    <3>4. PICK D \in SUBSET {x \in Request : out[x] = "pending"} :
            outcome' = Settle(out, D, "failed")
      <4> HIDE DEF S, out
      <4>1. CASE outcome' = out
        <5>1. outcome' = Settle(out, {}, "failed")
          BY <3>2, <4>1 DEF Settle
        <5> QED  BY <5>1
      <4>2. CASE Pump(Retained(queue, f), out)
        BY <2>0, <3>2, <4>2, PumpLedger
      <4> QED  BY <3>1, <4>1, <4>2
    <3>5. outcome' = Settle(outcome, (Queued(queue) \cap S) \cup D, "failed")
      BY <3>4 DEF Settle
    <3>6. (Queued(queue) \cap S) \cup D \in SUBSET {x \in Request : outcome[x] = "pending"}
      BY <2>0, <3>4 DEF Settle
    <3> QED
      BY <2>0, <3>3, <3>5, <3>6, LedgerFail
  <2>4. ASSUME \/ \E Of \in {Owners} \cup {{o} : o \in Owners} : CancelAcquisitionRequests(Of)
               \/ Disconnect \/ OnConnectFailed
               \/ \E afterError \in BOOLEAN : OnClose(afterError)
        PROVE  [Ledger!Next]_(Ledger!vars)
    <3>1. answer' = answer
      BY <2>4 DEF CancelAcquisitionRequests, Disconnect, OnConnectFailed, OnClose
    <3>2. \E D \in SUBSET Queued(queue) : outcome' = Settle(outcome, D, "failed")
      BY <2>4 DEF CancelAcquisitionRequests, Disconnect, OnConnectFailed, OnClose, ClearQueue
    <3> QED
      BY <2>0, <3>1, <3>2, LedgerFail
  <2>5. CASE FrameEnds
    <3>1. outcome' = outcome /\ \A r \in Request : outcome[r] = "ok" => answer'[r] = answer[r]
      <4>1. answer' # answer => active # None /\ answer' = [answer EXCEPT ![active] = partial.req]
        BY <2>5 DEF FrameEnds, Receiver
      <4>2. active # None => outcome[active] = "pending"
        BY <2>0 DEF QueueInv, Accounted, Holds
      <4> QED
        BY <2>0, <2>5, <4>1, <4>2 DEF FrameEnds, TypeOK
    <3>2. outcome' = Settle(outcome, {}, "failed")
      BY <2>0, <3>1 DEF Settle
    <3> QED
      BY <2>0, <3>1, <3>2, LedgerFail
  <2>6. CASE Complete
    <3>1. active \in Request /\ outcome[active] = "pending" /\ answer' = answer
      BY <2>0, <2>6 DEF Complete, TypeOK, QueueInv, Accounted, Holds
    <3>2. CASE phase = "resolved" /\ gen[active] = generation
      <4>1. outcome' = [outcome EXCEPT ![active] = "ok"] /\ answer[active] = active
        BY <2>6, <3>2 DEF Complete, ReplyInv, WireInv
      <4>2. LedgerAnswer' = [LedgerAnswer EXCEPT ![active] = active]
        BY <2>0, <3>1, <4>1 DEF LedgerAnswer
      <4>3. \E r \in Request : Ledger!Resolve(r)
        BY <3>1, <4>1, <4>2 DEF Ledger!Resolve, LedgerAnswer
      <4> QED
        BY <4>3 DEF Ledger!Next
    <3>3. CASE ~ (phase = "resolved" /\ gen[active] = generation)
      <4>1. outcome' = Settle(outcome, {active}, "failed")
        BY <2>0, <2>6, <3>1, <3>3 DEF Complete, Settle
      <4>2. {active} \in SUBSET {r \in Request : outcome[r] = "pending"}
        BY <3>1
      <4> QED
        BY <2>0, <3>1, <4>1, <4>2, LedgerFail
    <3> QED  BY <3>2, <3>3
  <2>7. CASE PumpTimer
    <3>1. Pump(queue, outcome) /\ answer' = answer /\ Holds(queue, outcome, active)
      BY <2>7 DEF PumpTimer, QueueInv, Accounted
    <3>2. \E D \in SUBSET {r \in Request : outcome[r] = "pending"} :
            outcome' = Settle(outcome, D, "failed")
      BY <2>0, <3>1, PumpLedger
    <3> QED
      BY <2>0, <3>1, <3>2, LedgerFail
  <2>8. ASSUME \/ Connect \/ OnConnect \/ OnDetachedClose \/ PeerEnds
               \/ \E w \in wire : FrameBegins(w)
               \/ InvalidFrame \/ WriteFails \/ Timeout \/ UNCHANGED vars
        PROVE  UNCHANGED <<outcome, answer>>
    BY <2>8 DEF Connect, OnConnect, OnDetachedClose, PeerEnds, FrameBegins, InvalidFrame,
                WriteFails, Timeout, vars
  <2> QED
    BY <2>1, <2>2, <2>3, <2>4, <2>5, <2>6, <2>7, <2>8
       DEF Next, Calls, SocketEvents, Ledger!vars
<1> QED
  BY <1>1, <1>2, ReplyInvariant, QueueInvariant, PTL DEF Spec, ImplementsLedger, Ledger!Spec


=============================================================================
