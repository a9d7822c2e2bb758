--------------------------- MODULE TagAcquisition ---------------------------
(***************************************************************************)
(* server/src/sharedTagAcquisition.ts over server/src/tagRuntime.ts: the   *)
(* scheduler that reads the mapped Shared Tags of every connected device   *)
(* and keeps one sample of each.  A change of a mapping, a definition or a *)
(* connection reaches it as a call of reconcile(), in the same turn for    *)
(* mappings and connection states, later for definitions and devices (the  *)
(* hook of a finished response, or the timer).                             *)
(*                                                                         *)
(* A mapping is what its poll group has in common: a device and a block of *)
(* registers; sources mapped to the same block share a group (StudioStore  *)
(* has what is read together).  A value is the read it came from.          *)
(*                                                                         *)
(* Identities: every reconcile() that changes anything takes a new epoch   *)
(* and rebuilds the groups, so a group is its mapping and its epoch, and   *)
(* the generation a tag gets in it is numbered by that epoch.              *)
(***************************************************************************)
EXTENDS Naturals, FiniteSets

CONSTANTS
  Source,      \* SHARED_TAG identities
  Device,      \* device ids
  Block,       \* register ranges a mapping may name
  None,        \* no mapping, no entry
  ReadLimit,   \* ACQUISITION_LIMITS.maxConcurrentReads
  MaxChanges,  \* bound: changes from outside
  MaxReads     \* bound: reads of a tag that had its first in this generation

ASSUME AcquisitionAssumption ==
  /\ ReadLimit \in Nat \ {0}
  /\ MaxChanges \in Nat /\ MaxReads \in Nat

VARIABLES
  running,  \* started and not stopped
  mapping,  \* AcquisitionConfig: the mapping of each source
  ready,    \* sources whose definition and device are enabled
  link,     \* the connection of each device
  tracked,  \* what the last reconcile() saw
  store,    \* TagRuntimeStore: the entry of each tag
  epoch,
  groups,   \* mappings of the poll groups of this epoch
  reads,    \* scan() calls that wait for their request
  busy,     \* busyDevices: the scan each device is taken by
  changes   \* bound: changes made so far

sched == <<running, tracked, store, epoch, groups, reads, busy>>
world == <<mapping, ready, link, changes>>
vars == <<running, mapping, ready, link, tracked, store, epoch, groups, reads, busy, changes>>

Mapping == [device : Device, block : Block]
(* obj is the DeviceConnection object, generation its connection attempt.  *)
Origin == [map : Mapping, obj : Nat, gen : Nat]
Tracked == [map : Mapping, token : Nat, obj : Nat, gen : Nat, up : BOOLEAN, seq : Nat]
Entry ==
  [token : Nat, seq : Nat,
   quality : {"UNCERTAIN", "GOOD", "STALE", "BAD", "DISCONNECTED"},
   value : Origin \cup {None}]               \* history: where the value was read
Target == [token : Nat, seq : Nat]
Scan == [map : Mapping, epoch : Nat]
Read == [scan : Scan, obj : Nat, gen : Nat, targets : [Source -> Target \cup {None}]]

ASSUME NoneAssumption ==
  None \notin Mapping /\ None \notin Tracked /\ None \notin Entry
  /\ None \notin Target /\ None \notin Scan

TypeOK ==
  /\ running \in BOOLEAN
  /\ mapping \in [Source -> Mapping \cup {None}]
  /\ ready \subseteq Source
  /\ link \in [Device -> [obj : Nat, gen : Nat, up : BOOLEAN, open : BOOLEAN]]
  /\ tracked \in [Source -> Tracked \cup {None}]
  /\ store \in [Source -> Entry \cup {None}]
  /\ epoch \in Nat
  /\ groups \subseteq Mapping
  /\ reads \subseteq Read
  /\ busy \in [Device -> Scan \cup {None}]
  /\ changes \in Nat

Init ==
  /\ running = FALSE
  /\ mapping \in [Source -> Mapping \cup {None}]
  /\ ready = Source
  /\ link = [d \in Device |-> [obj |-> 0, gen |-> 0, up |-> FALSE, open |-> FALSE]]
  /\ tracked = [s \in Source |-> None]
  /\ store = [s \in Source |-> None]
  /\ epoch = 0 /\ groups = {} /\ reads = {}
  /\ busy = [d \in Device |-> None]
  /\ changes = 0

-----------------------------------------------------------------------------
(* reconcile(), as a function of the mappings, the connections, and the    *)
(* entries before it.                                                      *)

(* What the catalog, the mappings and the devices now ask for.             *)
Wanted(map, rdy) == [s \in Source |-> IF s \in rdy THEN map[s] ELSE None]

Connection(lnk, d) == IF lnk[d].open THEN lnk[d].obj ELSE 0

Gone(want, trk) == {s \in Source : trk[s] # None /\ (want[s] = None \/ want[s] # trk[s].map)}
Added(want, trk) == {s \in Source : want[s] # None /\ (trk[s] = None \/ s \in Gone(want, trk))}
Moved(want, trk, lnk) ==
  {s \in Source \ Gone(want, trk) :
     /\ trk[s] # None
     /\ LET c == lnk[trk[s].map.device]
        IN trk[s].obj # Connection(lnk, trk[s].map.device) \/ trk[s].gen # c.gen \/ trk[s].up # c.up}

Track(m, lnk, e) ==
  [map |-> m, token |-> e, obj |-> Connection(lnk, m.device),
   gen |-> lnk[m.device].gen, up |-> lnk[m.device].up, seq |-> 0]

(* activate(): a fresh entry.  fence(): the value stays, the quality goes. *)
Activated(e, up) ==
  [token |-> e, seq |-> 0, quality |-> IF up THEN "UNCERTAIN" ELSE "DISCONNECTED", value |-> None]
(* Mutant: a fence that leaves the quality too. *)
FencedKeeps(entry, e, up) == [entry EXCEPT !.token = e, !.seq = 0]

Fenced(entry, e, up) ==
  [entry EXCEPT !.token = e, !.seq = 0, !.quality = IF up THEN "UNCERTAIN" ELSE "DISCONNECTED"]

Reconciled(map, rdy, lnk, trk) ==
  LET want == Wanted(map, rdy)
      gone == Gone(want, trk)
      added == Added(want, trk)
      moved == Moved(want, trk, lnk)
      next == [s \in Source |->
                 IF s \in added THEN Track(want[s], lnk, epoch + 1)
                 ELSE IF s \in moved THEN Track(trk[s].map, lnk, epoch + 1)
                 ELSE IF s \in gone THEN None ELSE trk[s]]
  IN IF gone \cup added \cup moved = {}
     THEN /\ tracked' = trk
          /\ UNCHANGED <<store, epoch, groups, busy>>
     ELSE /\ tracked' = next
          /\ store' = [s \in Source |->
                         IF s \in added THEN Activated(epoch + 1, next[s].up)
                         ELSE IF s \in moved THEN Fenced(store[s], epoch + 1, next[s].up)
                         ELSE IF s \in gone THEN None ELSE store[s]]
          /\ epoch' = epoch + 1
          /\ groups' = {next[s].map : s \in {t \in Source : next[t] # None /\ next[t].up}}
          /\ busy' = [d \in Device |-> None]

(* A call that changes nothing else; stopped, it returns.                  *)
ReconcileWith(map, rdy, lnk) ==
  IF running
  THEN Reconciled(map, rdy, lnk, tracked) /\ UNCHANGED <<running, reads>>
  ELSE UNCHANGED sched

-----------------------------------------------------------------------------
(* Changes from outside.                                                   *)

Change == changes < MaxChanges /\ changes' = changes + 1

(* put() and delete() of AcquisitionConfig: commit() calls the listener.   *)
Configure(s, m) ==
  /\ Change /\ mapping[s] # m
  /\ mapping' = [mapping EXCEPT ![s] = m]
  /\ ReconcileWith(mapping', ready, link)
  /\ UNCHANGED <<ready, link>>

(* A definition or its device is enabled or disabled; reconcile() is for   *)
(* the response to be finished.                                            *)
Redefine(s) ==
  /\ Change
  /\ ready' = IF s \in ready THEN ready \ {s} ELSE ready \cup {s}
  /\ UNCHANGED <<mapping, link, sched>>

(* conn(): a connection object is made for the device and connects.        *)
Open(d) ==
  /\ Change /\ ~link[d].open
  /\ link' = [link EXCEPT ![d] = [obj |-> @.obj + 1, gen |-> 1, up |-> TRUE, open |-> TRUE]]
  /\ ReconcileWith(mapping, ready, link')
  /\ UNCHANGED <<mapping, ready>>

(* The connection goes down or comes up and emits "state".                 *)
LinkChange(d) ==
  /\ Change /\ link[d].open
  /\ link' = [link EXCEPT ![d].gen = @ + 1, ![d].up = ~@]
  /\ ReconcileWith(mapping, ready, link')
  /\ UNCHANGED <<mapping, ready>>

(* The device is deleted or replaced: connections.delete(), no "state".    *)
Replace(d) ==
  /\ Change /\ link[d].open
  /\ link' = [link EXCEPT ![d].open = FALSE, ![d].up = FALSE, ![d].gen = 0]
  /\ UNCHANGED <<mapping, ready, sched>>

(* The hook of a finished response, or the timer's own call.               *)
Reconcile ==
  /\ running
  /\ ReconcileWith(mapping, ready, link)
  /\ UNCHANGED world

-----------------------------------------------------------------------------
(* The scheduler.                                                          *)

Start ==
  /\ ~running /\ epoch = 0
  /\ running' = TRUE
  /\ Reconciled(mapping, ready, link, tracked)
  /\ UNCHANGED <<world, reads>>

Stop ==
  /\ running /\ Change
  /\ running' = FALSE
  /\ epoch' = epoch + 1
  /\ groups' = {}
  /\ tracked' = [s \in Source |-> None]
  /\ store' = [s \in Source |-> None]
  /\ busy' = [d \in Device |-> None]
  /\ UNCHANGED <<mapping, ready, link, reads>>

Current(m) == [map |-> m, epoch |-> epoch]
Members(m) == {s \in Source : tracked[s] # None /\ tracked[s].map = m}

Valid(s, obj) ==
  LET t == tracked[s]
      d == t.map.device
  IN /\ Connection(link, d) = obj /\ link[d].gen = t.gen /\ link[d].up
     /\ s \in ready /\ mapping[s] = t.map

(* A target keeps the entry it was read for; its scan's epoch says whether *)
(* the entry is still the tracked one.                                     *)
ValidTarget(r, s) == running /\ r.scan.epoch = epoch /\ Valid(s, r.obj)

(* The bound MaxReads holds back no tag that still needs its first read.   *)
Due(s) == store[s].quality = "UNCERTAIN" /\ Valid(s, tracked[s].obj)

Idle(m) ==
  /\ m \in groups
  /\ ~\E r \in reads : r.scan = Current(m)
  /\ busy[m.device] = None
  /\ \E s \in Members(m) : tracked[s].seq < MaxReads \/ Due(s)
First(m) == CHOOSE s \in Members(m) : TRUE
(* scan() asks valid() of the first mapping of its group only.             *)
Startable(m) == Valid(First(m), tracked[First(m)].obj)

Request(m) ==
  LET s == First(m)
  IN [scan |-> Current(m), obj |-> tracked[s].obj, gen |-> tracked[s].gen,
      targets |-> [t \in Source |->
                     IF t \in Members(m) THEN [token |-> tracked[t].token, seq |-> tracked[t].seq + 1]
                     ELSE None]]

(* Groups that are due and can be scanned in one turn: one of a device.    *)
Batch == {ms \in SUBSET {m \in groups : Idle(m)} :
            /\ \A m, n \in ms : m.device = n.device => m = n
            /\ Cardinality(reads) + Cardinality(ms) =< ReadLimit}

(* The entries that scan() of the groups ms counted a read for.            *)
Counted(ms) ==
  [s \in Source |-> IF tracked[s] # None /\ tracked[s].map \in ms
                    THEN [tracked[s] EXCEPT !.seq = @ + 1] ELSE tracked[s]]

(* GOOD samples older than their staleAfterMs.                             *)
Expire(old) ==
  [s \in Source |-> IF s \in old THEN [store[s] EXCEPT !.quality = "STALE"] ELSE store[s]]

(* tick(): expire, then scan what is due.  The first group found invalid   *)
(* makes scan() reconcile, and what is left of the old groups is invalid.  *)
Tick(old, ms) ==
  /\ running
  /\ old \subseteq {s \in Source : store[s] # None /\ store[s].quality = "GOOD"}
  /\ ms \in Batch
  /\ \A m \in ms : Startable(m)
  /\ old # {} \/ ms # {}
  /\ store' = Expire(old)
  /\ reads' = reads \cup {Request(m) : m \in ms}
  /\ tracked' = Counted(ms)
  /\ busy' = [d \in Device |-> IF \E m \in ms : m.device = d
                               THEN Current(CHOOSE m \in ms : m.device = d) ELSE busy[d]]
  /\ UNCHANGED <<running, epoch, groups, world>>

TickInvalid(ms, bad) ==
  /\ running
  /\ ms \in Batch /\ bad \notin ms /\ ms \cup {bad} \in Batch
  /\ \A m \in ms : Startable(m)
  /\ ~Startable(bad)
  /\ reads' = reads \cup {Request(m) : m \in ms}
  /\ Reconciled(mapping, ready, link, Counted(ms))
  /\ UNCHANGED <<running, world>>

(* good() and bad() of the store take the token of the target and refuse a *)
(* generation or an input sequence that is not the entry's own or newer.   *)
Accepts(s, t) == store[s] # None /\ store[s].token = t.token /\ store[s].seq < t.seq

Good(r, s) == [store[s] EXCEPT !.seq = r.targets[s].seq, !.quality = "GOOD",
                               !.value = [map |-> r.scan.map, obj |-> r.obj, gen |-> r.gen]]
Bad(r, s) == [store[s] EXCEPT !.seq = r.targets[s].seq, !.quality = "BAD"]

(* Mutant: the end of any scan frees its device. *)
EndedFreely(r) ==
  /\ reads' = reads \ {r}
  /\ busy' = [busy EXCEPT ![r.scan.map.device] = None]

(* Mutant: the end of a scan leaves its device taken. *)
EndedBusy(r) == reads' = reads \ {r} /\ UNCHANGED busy

Ended(r) ==
  /\ reads' = reads \ {r}
  /\ busy' = [busy EXCEPT ![r.scan.map.device] = IF @ = r.scan THEN None ELSE @]

(* The request of r ends: the sources in good are decoded, the others not  *)
(* (good = {}: the request failed).                                        *)
Settle(r, good) ==
  /\ r \in reads
  /\ good \subseteq {s \in Source : r.targets[s] # None}
  /\ store' = [s \in Source |->
                 IF r.targets[s] = None \/ ~ValidTarget(r, s) \/ ~Accepts(s, r.targets[s]) THEN store[s]
                 ELSE IF s \in good THEN Good(r, s) ELSE Bad(r, s)]
  /\ Ended(r)
  /\ UNCHANGED <<running, tracked, epoch, groups, world>>

Outside ==
  \/ \E s \in Source : \E m \in Mapping \cup {None} : Configure(s, m)
  \/ \E s \in Source : Redefine(s)
  \/ \E d \in Device : Open(d) \/ LinkChange(d) \/ Replace(d)

Ticks ==
  \/ \E old \in SUBSET Source : \E ms \in SUBSET groups : Tick(old, ms)
  \/ \E bad \in groups : \E ms \in SUBSET groups : TickInvalid(ms, bad)

Next ==
  \/ Outside \/ Start \/ Stop \/ Reconcile \/ Ticks
  \/ \E r \in reads : \E good \in SUBSET Source : Settle(r, good)

Spec == Init /\ [][Next]_vars

-----------------------------------------------------------------------------
(* Fairness: the timer runs every 50 ms and every request ends             *)
(* (DeviceConnection!EventuallySettled).  tick() takes the groups in the   *)
(* order in which they became due, so none is passed over for ever.        *)

Asks(s) == Ticks /\ \E r \in reads' \ reads : r.targets[s] # None
Ends(m) == \E r \in reads : r.scan.map = m /\ \E good \in SUBSET Source : Settle(r, good)

FairSpec ==
  /\ Spec
  /\ WF_vars(Reconcile)
  /\ \A s \in Source : SF_vars(Asks(s))
  /\ \A m \in Mapping : WF_vars(Ends(m))

-----------------------------------------------------------------------------
(* Properties.                                                             *)

(* The tags of the store are those tracked, each under the generation and  *)
(* no later input than its entry has counted; stopped, there is none.      *)
(* (sharedTagAcquisition.ts:31, 42, 54, 60: tokens that fence() replaced.) *)
TokensMatch ==
  \A s \in Source :
    /\ (store[s] = None) <=> (tracked[s] = None)
    /\ tracked[s] # None => /\ running
                            /\ store[s].token = tracked[s].token
                            /\ store[s].seq =< tracked[s].seq

(* A value shown as GOOD or STALE was read at the block its source is      *)
(* tracked for, over the connection object and attempt it is tracked on:   *)
(* an answer that comes after a fence, a remapping, a reconnect or a       *)
(* replaced device gives nothing (sharedTagAcquisition.ts:89-94, 108).     *)
FreshIsCurrent ==
  \A s \in Source :
    store[s] # None /\ store[s].quality \in {"GOOD", "STALE"} =>
      /\ tracked[s] # None /\ tracked[s].up
      /\ store[s].value = [map |-> tracked[s].map, obj |-> tracked[s].obj, gen |-> tracked[s].gen]

(* One scan of an epoch at a time on a device, and busyDevices names it: a *)
(* scan of an earlier epoch that ends does not free the device of the one  *)
(* after it (sharedTagAcquisition.ts:73-77, 122-123).                      *)
OneScanPerDevice ==
  /\ \A q, r \in reads : q.scan.epoch = epoch /\ r.scan.epoch = epoch
                         /\ q.scan.map.device = r.scan.map.device => q = r
  /\ \A d \in Device : busy[d] # None =>
       \E r \in reads : r.scan = busy[d] /\ r.scan.epoch = epoch /\ r.scan.map.device = d
  /\ \A r \in reads : r.scan.epoch = epoch => busy[r.scan.map.device] = r.scan

(* A connected tag that waits for its first read of a generation gets one, *)
(* good or bad, or loses its generation.                                   *)
Awaiting(s) == running /\ store[s] # None /\ store[s].quality = "UNCERTAIN"
EventuallyRead == \A s \in Source : Awaiting(s) ~> ~Awaiting(s)

=============================================================================
