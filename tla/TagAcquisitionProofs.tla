------------------------ MODULE TagAcquisitionProofs ------------------------
(* Theorems about TagAcquisition for any numbers of tags, devices, blocks   *)
(* and reads, and any changes of mappings, definitions and connections.     *)
EXTENDS TagAcquisition, TLAPS

Links == [Device -> [obj : Nat, gen : Nat, up : BOOLEAN, open : BOOLEAN]]

(* A tag is tracked on the connection its device has.                       *)
On(t, lnk) ==
  /\ t.obj = Connection(lnk, t.map.device)
  /\ t.gen = lnk[t.map.device].gen
  /\ t.up = lnk[t.map.device].up

-----------------------------------------------------------------------------
(* reconcile().                                                             *)

LEMMA TrackType ==
  ASSUME NEW m \in Mapping, NEW lnk \in Links, NEW e \in Nat
  PROVE  /\ Track(m, lnk, e) \in Tracked /\ Track(m, lnk, e) # None
         /\ On(Track(m, lnk, e), lnk)
         /\ Track(m, lnk, e).map = m /\ Track(m, lnk, e).token = e /\ Track(m, lnk, e).seq = 0
<1>1. m.device \in Device
  BY DEF Mapping
<1>2. Connection(lnk, m.device) \in Nat /\ lnk[m.device].gen \in Nat /\ lnk[m.device].up \in BOOLEAN
  BY <1>1 DEF Connection, Links
<1>3. Track(m, lnk, e) \in Tracked
  BY <1>2 DEF Track, Tracked
<1> QED
  BY <1>3, NoneAssumption DEF Track, On

LEMMA ActivatedType ==
  ASSUME NEW e \in Nat, NEW up
  PROVE  /\ Activated(e, up) \in Entry
         /\ Activated(e, up).token = e /\ Activated(e, up).seq = 0
         /\ Activated(e, up).quality \in {"UNCERTAIN", "DISCONNECTED"}
BY DEF Activated, Entry

LEMMA FencedType ==
  ASSUME NEW e \in Nat, NEW up, NEW entry \in Entry
  PROVE  /\ Fenced(entry, e, up) \in Entry
         /\ Fenced(entry, e, up).token = e /\ Fenced(entry, e, up).seq = 0
         /\ Fenced(entry, e, up).quality \in {"UNCERTAIN", "DISCONNECTED"}
BY DEF Fenced, Entry

(* What reconcile() leaves of a tag: nothing is done to it; or it has a     *)
(* generation of its own, on the present connection; or it is not there.    *)
Untouched(s, trk, lnk) ==
  /\ tracked'[s] = trk[s] /\ store'[s] = store[s]
  /\ trk[s] # None => On(trk[s], lnk)

Renewed(s, lnk) ==
  /\ tracked'[s] \in Tracked /\ On(tracked'[s], lnk)
  /\ store'[s] \in Entry
  /\ store'[s].token = tracked'[s].token /\ store'[s].seq = tracked'[s].seq
  /\ store'[s].quality \in {"UNCERTAIN", "DISCONNECTED"}

Dropped(s) == tracked'[s] = None /\ store'[s] = None

(* A call that finds everything as it was, and one that does not.           *)
NothingNew(map, rdy, lnk, trk) ==
  /\ tracked' = trk /\ UNCHANGED <<store, epoch, groups, busy>>
  /\ \A s \in Source : trk[s] # None => On(trk[s], lnk) /\ s \in rdy /\ map[s] = trk[s].map

NewEpoch(lnk, trk) ==
  /\ epoch' = epoch + 1
  /\ busy' = [d \in Device |-> None]
  /\ tracked' = [s \in Source |-> tracked'[s]] /\ store' = [s \in Source |-> store'[s]]
  /\ \A m \in groups' : \E s \in Source :
       tracked'[s] # None /\ tracked'[s].up /\ m = tracked'[s].map
  /\ \A s \in Source : Untouched(s, trk, lnk) \/ Renewed(s, lnk) \/ Dropped(s)

LEMMA ReconciledSteps ==
  ASSUME NEW map \in [Source -> Mapping \cup {None}], NEW rdy, NEW lnk \in Links,
         NEW trk \in [Source -> Tracked \cup {None}],
         store \in [Source -> Entry \cup {None}], epoch \in Nat,
         \A s \in Source : trk[s] # None => store[s] # None,
         Reconciled(map, rdy, lnk, trk)
  PROVE  NothingNew(map, rdy, lnk, trk) \/ NewEpoch(lnk, trk)
<1> DEFINE want == Wanted(map, rdy)
           gone == Gone(want, trk)
           added == Added(want, trk)
           moved == Moved(want, trk, lnk)
           next == [s \in Source |->
                      IF s \in added THEN Track(want[s], lnk, epoch + 1)
                      ELSE IF s \in moved THEN Track(trk[s].map, lnk, epoch + 1)
                      ELSE IF s \in gone THEN None ELSE trk[s]]
<1>1. /\ \A s \in Source : want[s] = IF s \in rdy THEN map[s] ELSE None
      /\ \A s \in Source : s \in gone <=>
           trk[s] # None /\ (want[s] = None \/ want[s] # trk[s].map)
      /\ \A s \in Source : s \in added <=> want[s] # None /\ (trk[s] = None \/ s \in gone)
      /\ \A s \in Source : s \in moved => s \notin gone /\ trk[s] # None
      /\ \A s \in Source : s \notin moved /\ s \notin gone /\ trk[s] # None => On(trk[s], lnk)
      /\ gone \subseteq Source /\ added \subseteq Source /\ moved \subseteq Source
  BY DEF Wanted, Gone, Added, Moved, On
<1>2. IF gone \cup added \cup moved = {}
      THEN /\ tracked' = trk
           /\ UNCHANGED <<store, epoch, groups, busy>>
      ELSE /\ tracked' = next
           /\ store' = [s \in Source |->
                          IF s \in added THEN Activated(epoch + 1, next[s].up)
                          ELSE IF s \in moved THEN Fenced(store[s], epoch + 1, next[s].up)
                          ELSE IF s \in gone THEN None ELSE store[s]]
           /\ epoch' = epoch + 1
           /\ groups' = {next[s].map : s \in {t \in Source : next[t] # None /\ next[t].up}}
           /\ busy' = [d \in Device |-> None]
  BY DEF Reconciled
<1>3. \A s \in Source : want[s] \in Mapping \cup {None}
  BY <1>1
<1> HIDE DEF want, gone, added, moved
<1>4. CASE gone \cup added \cup moved = {}
  BY <1>1, <1>2, <1>3, <1>4 DEF NothingNew
<1>5. CASE gone \cup added \cup moved # {}
  <2>1. /\ \A s \in Source : tracked'[s] =
             IF s \in added THEN Track(want[s], lnk, epoch + 1)
             ELSE IF s \in moved THEN Track(trk[s].map, lnk, epoch + 1)
             ELSE IF s \in gone THEN None ELSE trk[s]
        /\ \A s \in Source : store'[s] =
             IF s \in added THEN Activated(epoch + 1, tracked'[s].up)
             ELSE IF s \in moved THEN Fenced(store[s], epoch + 1, tracked'[s].up)
             ELSE IF s \in gone THEN None ELSE store[s]
        /\ epoch' = epoch + 1
        /\ busy' = [d \in Device |-> None]
        /\ tracked' = [s \in Source |-> tracked'[s]] /\ store' = [s \in Source |-> store'[s]]
        /\ groups' = {next[s].map : s \in {t \in Source : next[t] # None /\ next[t].up}}
        /\ tracked' = next
    BY <1>2, <1>5
  <2> HIDE DEF next
  <2>2. \A m \in groups' : \E s \in Source :
          tracked'[s] # None /\ tracked'[s].up /\ m = tracked'[s].map
    BY <2>1
  <2>3. epoch + 1 \in Nat
    OBVIOUS
  <2>4. ASSUME NEW s \in Source
        PROVE  Untouched(s, trk, lnk) \/ Renewed(s, lnk) \/ Dropped(s)
    <3>1. CASE s \in added
      <4>1. want[s] \in Mapping
        BY <1>1, <1>3, <3>1
      <4>2. /\ tracked'[s] = Track(want[s], lnk, epoch + 1)
            /\ store'[s] = Activated(epoch + 1, tracked'[s].up)
        BY <2>1, <3>1
      <4> QED
        BY <2>3, <4>1, <4>2, TrackType, ActivatedType DEF Renewed
    <3>2. CASE s \notin added /\ s \in moved
      <4>1. trk[s] \in Tracked /\ store[s] \in Entry
        BY <1>1, <3>2
      <4>2. trk[s].map \in Mapping
        BY <4>1 DEF Tracked
      <4>3. /\ tracked'[s] = Track(trk[s].map, lnk, epoch + 1)
            /\ store'[s] = Fenced(store[s], epoch + 1, tracked'[s].up)
        BY <2>1, <3>2
      <4>4. /\ tracked'[s] \in Tracked /\ On(tracked'[s], lnk)
            /\ tracked'[s].token = epoch + 1 /\ tracked'[s].seq = 0
        BY <2>3, <4>2, <4>3, TrackType
      <4>5. /\ store'[s] \in Entry
            /\ store'[s].token = epoch + 1 /\ store'[s].seq = 0
            /\ store'[s].quality \in {"UNCERTAIN", "DISCONNECTED"}
        BY <2>3, <4>1, <4>3, FencedType
      <4> QED
        BY <4>4, <4>5 DEF Renewed
    <3>3. CASE s \notin added /\ s \notin moved /\ s \in gone
      BY <2>1, <3>3 DEF Dropped
    <3>4. CASE s \notin added /\ s \notin moved /\ s \notin gone
      BY <1>1, <2>1, <3>4 DEF Untouched
    <3> QED
      BY <3>1, <3>2, <3>3, <3>4
  <2> QED
    BY <2>1, <2>2, <2>4 DEF NewEpoch
<1> QED
  BY <1>4, <1>5

-----------------------------------------------------------------------------
(* The inductive invariant.                                                 *)

(* The tags of one device are tracked on one and the same connection.       *)
OneConnection ==
  \A s, t \in Source :
    /\ tracked[s] # None /\ tracked[t] # None
    /\ tracked[s].map.device = tracked[t].map.device
    => /\ tracked[s].obj = tracked[t].obj
       /\ tracked[s].gen = tracked[t].gen
       /\ tracked[s].up = tracked[t].up

(* Only what is connected is polled.                                        *)
GroupsUp ==
  \A m \in groups : \A s \in Source :
    tracked[s] # None /\ tracked[s].map = m => tracked[s].up

(* A read of this epoch is for tags that are still tracked as they were     *)
(* when it was asked for.                                                   *)
ReadMatches(r) ==
  /\ r.scan.epoch =< epoch
  /\ r.scan.epoch = epoch =>
       \A s \in Source : r.targets[s] # None =>
         /\ tracked[s] # None /\ tracked[s].map = r.scan.map
         /\ tracked[s].obj = r.obj /\ tracked[s].gen = r.gen /\ tracked[s].up
         /\ r.targets[s].seq =< tracked[s].seq

ReadsMatch == \A r \in reads : ReadMatches(r)

(* After the stop the epoch moved on, so nothing is polled or tracked.      *)
StoppedClean == ~running => groups = {} /\ \A s \in Source : tracked[s] = None

AcquisitionInv ==
  /\ TypeOK
  /\ TokensMatch
  /\ OneConnection
  /\ GroupsUp
  /\ ReadsMatch
  /\ StoppedClean
  /\ FreshIsCurrent
  /\ OneScanPerDevice

-----------------------------------------------------------------------------
(* A reconcile() keeps the invariant, whatever made it.                     *)

WorldType(map, rdy, lnk, n) ==
  /\ map \in [Source -> Mapping \cup {None}] /\ rdy \subseteq Source
  /\ lnk \in Links /\ n \in Nat

LEMMA TypeParts ==
  TypeOK <=>
    /\ WorldType(mapping, ready, link, changes)
    /\ running \in BOOLEAN
    /\ tracked \in [Source -> Tracked \cup {None}]
    /\ store \in [Source -> Entry \cup {None}]
    /\ epoch \in Nat /\ groups \subseteq Mapping /\ reads \subseteq Read
    /\ busy \in [Device -> Scan \cup {None}]
BY DEF TypeOK, WorldType, Links

LEMMA WorldKeeps ==
  ASSUME AcquisitionInv, UNCHANGED sched, WorldType(mapping', ready', link', changes')
  PROVE  AcquisitionInv'
<1>1. UNCHANGED <<running, tracked, store, epoch, groups, reads, busy>>
  BY DEF sched
<1>2. TypeOK'
  BY <1>1 DEF AcquisitionInv, TypeOK, WorldType, Links
<1> QED
  BY <1>1, <1>2
  DEF AcquisitionInv, TokensMatch, OneConnection, GroupsUp, ReadsMatch, ReadMatches, StoppedClean,
      FreshIsCurrent, OneScanPerDevice

(* The tracked tags, but for the reads that are counted.                    *)
Recounted(trk) ==
  /\ trk \in [Source -> Tracked \cup {None}]
  /\ \A s \in Source :
       \/ trk[s] = None /\ tracked[s] = None
       \/ /\ trk[s] # None /\ tracked[s] # None
          /\ trk[s].map = tracked[s].map /\ trk[s].token = tracked[s].token
          /\ trk[s].obj = tracked[s].obj /\ trk[s].gen = tracked[s].gen
          /\ trk[s].up = tracked[s].up /\ tracked[s].seq =< trk[s].seq

(* The entries, but for the quality of what has expired.                    *)
Aged(st) ==
  /\ st \in [Source -> Entry \cup {None}]
  /\ \A s \in Source :
       \/ st[s] = None /\ store[s] = None
       \/ /\ st[s] # None /\ store[s] # None
          /\ st[s].token = store[s].token /\ st[s].seq = store[s].seq
          /\ st[s].value = store[s].value
          /\ st[s].quality \in {"GOOD", "STALE"} => store[s].quality \in {"GOOD", "STALE"}

LEMMA CountingKeeps ==
  ASSUME AcquisitionInv, NEW trk, Recounted(trk), NEW st, Aged(st),
         tracked' = trk, store' = st, UNCHANGED <<epoch, groups>>, running' = TRUE
  PROVE  /\ TokensMatch' /\ OneConnection' /\ GroupsUp' /\ StoppedClean' /\ FreshIsCurrent'
         /\ \A r \in reads : ReadMatches(r)'
<1>1. /\ TypeOK /\ TokensMatch /\ OneConnection /\ GroupsUp /\ ReadsMatch /\ FreshIsCurrent
  BY DEF AcquisitionInv
<1>3. \A s \in Source :
        /\ store[s] # None => store[s] \in Entry
        /\ tracked[s] # None => tracked[s] \in Tracked
        /\ trk[s] # None => trk[s] \in Tracked
  BY <1>1 DEF TypeOK, Recounted
<1>4. TokensMatch'
  <2> SUFFICES ASSUME NEW s \in Source
               PROVE  /\ (st[s] = None) <=> (trk[s] = None)
                      /\ trk[s] # None => /\ st[s].token = trk[s].token
                                          /\ st[s].seq =< trk[s].seq
    BY DEF TokensMatch
  <2>1. CASE trk[s] = None
    BY <1>1, <2>1 DEF TokensMatch, Recounted, Aged
  <2>2. CASE trk[s] # None
    <3>1. /\ tracked[s] # None /\ trk[s].token = tracked[s].token /\ tracked[s].seq =< trk[s].seq
          /\ store[s] # None /\ store[s].token = tracked[s].token /\ store[s].seq =< tracked[s].seq
      BY <1>1, <2>2 DEF TokensMatch, Recounted
    <3>2. store[s].seq \in Nat /\ tracked[s].seq \in Nat /\ trk[s].seq \in Nat
      BY <1>3, <2>2, <3>1 DEF Entry, Tracked
    <3>3. st[s] # None /\ st[s].token = store[s].token /\ st[s].seq = store[s].seq
      BY <3>1 DEF Aged
    <3> QED
      BY <2>2, <3>1, <3>2, <3>3
  <2> QED
    BY <2>1, <2>2
<1>5. OneConnection' /\ GroupsUp' /\ StoppedClean'
  BY <1>1 DEF OneConnection, GroupsUp, StoppedClean, Recounted
<1>6. ASSUME NEW r \in reads
      PROVE  ReadMatches(r)'
  <2> SUFFICES ASSUME r.scan.epoch = epoch, NEW s \in Source, r.targets[s] # None
               PROVE  /\ trk[s] # None /\ trk[s].map = r.scan.map
                      /\ trk[s].obj = r.obj /\ trk[s].gen = r.gen /\ trk[s].up
                      /\ r.targets[s].seq =< trk[s].seq
    BY <1>1 DEF ReadsMatch, ReadMatches
  <2>1. /\ tracked[s] # None /\ tracked[s].map = r.scan.map
        /\ tracked[s].obj = r.obj /\ tracked[s].gen = r.gen /\ tracked[s].up
        /\ r.targets[s].seq =< tracked[s].seq
    BY <1>1 DEF ReadsMatch, ReadMatches
  <2>2. /\ trk[s] # None /\ trk[s].map = tracked[s].map /\ trk[s].obj = tracked[s].obj
        /\ trk[s].gen = tracked[s].gen /\ trk[s].up = tracked[s].up
        /\ tracked[s].seq =< trk[s].seq
    BY <2>1 DEF Recounted
  <2>3. r.targets[s] \in Target
    BY <1>1 DEF TypeOK, Read
  <2>4. r.targets[s].seq \in Nat /\ tracked[s].seq \in Nat /\ trk[s].seq \in Nat
    BY <1>3, <2>1, <2>2, <2>3 DEF Target, Tracked
  <2> QED
    BY <2>1, <2>2, <2>4
<1>7. FreshIsCurrent'
  <2> SUFFICES ASSUME NEW s \in Source, st[s] # None, st[s].quality \in {"GOOD", "STALE"}
               PROVE  /\ trk[s] # None /\ trk[s].up
                      /\ st[s].value = [map |-> trk[s].map, obj |-> trk[s].obj, gen |-> trk[s].gen]
    BY DEF FreshIsCurrent
  <2>1. /\ store[s] # None /\ store[s].quality \in {"GOOD", "STALE"}
        /\ st[s].value = store[s].value
    BY DEF Aged
  <2>2. /\ tracked[s] # None /\ tracked[s].up
        /\ store[s].value = [map |-> tracked[s].map, obj |-> tracked[s].obj, gen |-> tracked[s].gen]
    BY <1>1, <2>1 DEF FreshIsCurrent
  <2>3. /\ trk[s] # None /\ trk[s].map = tracked[s].map /\ trk[s].obj = tracked[s].obj
        /\ trk[s].gen = tracked[s].gen /\ trk[s].up = tracked[s].up
    BY <2>2 DEF Recounted
  <2> QED
    BY <2>1, <2>2, <2>3
<1> QED
  BY <1>4, <1>5, <1>6, <1>7

LEMMA NothingNewKeeps ==
  ASSUME AcquisitionInv, NEW trk, Recounted(trk),
         tracked' = trk, UNCHANGED <<store, epoch, groups, reads, busy>>,
         running' = TRUE, WorldType(mapping', ready', link', changes')
  PROVE  AcquisitionInv'
<1>1. Aged(store)
  BY DEF Aged, AcquisitionInv, TypeOK
<1>2. /\ TokensMatch' /\ OneConnection' /\ GroupsUp' /\ StoppedClean' /\ FreshIsCurrent'
      /\ \A r \in reads : ReadMatches(r)'
  BY <1>1, CountingKeeps
<1>3. TypeOK'
  <2>1. running' \in BOOLEAN /\ tracked' \in [Source -> Tracked \cup {None}]
    BY DEF Recounted
  <2> QED
    BY <2>1 DEF AcquisitionInv, TypeOK, WorldType, Links
<1>4. ReadsMatch' /\ OneScanPerDevice'
  BY <1>2 DEF ReadsMatch, AcquisitionInv, OneScanPerDevice
<1> QED
  BY <1>2, <1>3, <1>4 DEF AcquisitionInv

LEMMA NewEpochKeeps ==
  ASSUME AcquisitionInv, NEW trk, Recounted(trk), NEW lnk \in Links,
         NewEpoch(lnk, trk),
         reads' \subseteq Read, \A r \in reads' : r \in reads \/ r.scan.epoch = epoch,
         running' = TRUE, WorldType(mapping', ready', link', changes')
  PROVE  AcquisitionInv'
<1>1. /\ TypeOK /\ TokensMatch /\ OneConnection /\ GroupsUp /\ ReadsMatch
      /\ FreshIsCurrent /\ OneScanPerDevice
  BY DEF AcquisitionInv
<1>2. /\ epoch \in Nat /\ epoch' = epoch + 1 /\ busy' = [d \in Device |-> None]
      /\ tracked' = [s \in Source |-> tracked'[s]] /\ store' = [s \in Source |-> store'[s]]
      /\ \A m \in groups' : \E s \in Source :
           tracked'[s] # None /\ tracked'[s].up /\ m = tracked'[s].map
      /\ \A s \in Source : Untouched(s, trk, lnk) \/ Renewed(s, lnk) \/ Dropped(s)
  BY <1>1 DEF NewEpoch, TypeOK
<1>3. \A s \in Source :
        /\ store[s] \in Entry \cup {None}
        /\ tracked[s] # None => tracked[s] \in Tracked
        /\ trk[s] \in Tracked \cup {None}
        /\ tracked'[s] \in Tracked \cup {None} /\ store'[s] \in Entry \cup {None}
        /\ tracked'[s] # None => On(tracked'[s], lnk)
  BY <1>1, <1>2 DEF TypeOK, Recounted, Untouched, Renewed, Dropped
<1>4. TypeOK'
  <2>1. tracked' \in [Source -> Tracked \cup {None}] /\ store' \in [Source -> Entry \cup {None}]
    BY <1>2, <1>3
  <2>2. groups' \subseteq Mapping
    BY <1>2, <1>3 DEF Tracked
  <2>3. epoch' \in Nat /\ busy' \in [Device -> Scan \cup {None}] /\ running' \in BOOLEAN
    BY <1>2
  <2> QED
    BY <2>1, <2>2, <2>3 DEF TypeOK, WorldType, Links
<1>5. TokensMatch'
  <2> SUFFICES ASSUME NEW s \in Source
               PROVE  /\ (store'[s] = None) <=> (tracked'[s] = None)
                      /\ tracked'[s] # None => /\ store'[s].token = tracked'[s].token
                                               /\ store'[s].seq =< tracked'[s].seq
    BY DEF TokensMatch
  <2>1. CASE Untouched(s, trk, lnk)
    <3>1. tracked'[s] = trk[s] /\ store'[s] = store[s]
      BY <2>1 DEF Untouched
    <3>2. CASE trk[s] = None
      BY <1>1, <3>1, <3>2 DEF TokensMatch, Recounted
    <3>3. CASE trk[s] # None
      <4>1. /\ tracked[s] # None /\ trk[s].token = tracked[s].token /\ tracked[s].seq =< trk[s].seq
            /\ store[s] # None /\ store[s].token = tracked[s].token
            /\ store[s].seq =< tracked[s].seq
        BY <1>1, <3>3 DEF TokensMatch, Recounted
      <4>2. store[s].seq \in Nat /\ tracked[s].seq \in Nat /\ trk[s].seq \in Nat
        BY <1>3, <3>3, <4>1 DEF Entry, Tracked
      <4> QED
        BY <3>1, <3>3, <4>1, <4>2
    <3> QED
      BY <3>2, <3>3
  <2>2. CASE Renewed(s, lnk)
    <3>1. store'[s] # None /\ tracked'[s] # None /\ tracked'[s].seq \in Nat
      BY <2>2, NoneAssumption DEF Renewed, Tracked
    <3> QED
      BY <2>2, <3>1 DEF Renewed
  <2>3. CASE Dropped(s)
    BY <2>3 DEF Dropped
  <2> QED
    BY <1>2, <2>1, <2>2, <2>3
<1>6. OneConnection' /\ GroupsUp'
  <2>1. \A s, t \in Source :
          /\ tracked'[s] # None /\ tracked'[t] # None
          /\ tracked'[s].map.device = tracked'[t].map.device
          => /\ tracked'[s].obj = tracked'[t].obj
             /\ tracked'[s].gen = tracked'[t].gen
             /\ tracked'[s].up = tracked'[t].up
    BY <1>3 DEF On
  <2>2. \A m \in groups' : \A s \in Source :
          tracked'[s] # None /\ tracked'[s].map = m => tracked'[s].up
    BY <1>2, <2>1
  <2> QED
    BY <2>1, <2>2 DEF OneConnection, GroupsUp
<1>7. \A r \in reads' : r.scan.epoch < epoch'
  <2>1. \A r \in reads' : r.scan.epoch \in Nat
    BY DEF Read, Scan
  <2>2. \A r \in reads' : r.scan.epoch =< epoch
    BY <1>1, <1>2, <2>1 DEF ReadsMatch, ReadMatches
  <2> QED
    BY <1>2, <2>1, <2>2
<1>8. ReadsMatch' /\ OneScanPerDevice'
  <2>1. \A r \in reads' : r.scan.epoch # epoch' /\ r.scan.epoch =< epoch'
    <3>1. \A r \in reads' : r.scan.epoch \in Nat
      BY DEF Read, Scan
    <3> QED
      BY <1>2, <1>7, <3>1
  <2> QED
    BY <1>2, <2>1 DEF ReadsMatch, ReadMatches, OneScanPerDevice
<1>9. FreshIsCurrent'
  <2> SUFFICES ASSUME NEW s \in Source, store'[s] # None, store'[s].quality \in {"GOOD", "STALE"}
               PROVE  /\ tracked'[s] # None /\ tracked'[s].up
                      /\ store'[s].value = [map |-> tracked'[s].map, obj |-> tracked'[s].obj,
                                            gen |-> tracked'[s].gen]
    BY DEF FreshIsCurrent
  <2>1. tracked'[s] = trk[s] /\ store'[s] = store[s]
    BY <1>2 DEF Untouched, Renewed, Dropped
  <2>2. /\ tracked[s] # None /\ tracked[s].up
        /\ store[s].value = [map |-> tracked[s].map, obj |-> tracked[s].obj, gen |-> tracked[s].gen]
    BY <1>1, <2>1 DEF FreshIsCurrent
  <2>3. /\ trk[s] # None /\ trk[s].map = tracked[s].map /\ trk[s].obj = tracked[s].obj
        /\ trk[s].gen = tracked[s].gen /\ trk[s].up = tracked[s].up
    BY <2>2 DEF Recounted
  <2> QED
    BY <2>1, <2>2, <2>3
<1>10. StoppedClean'
  BY DEF StoppedClean
<1> QED
  BY <1>4, <1>5, <1>6, <1>8, <1>9, <1>10 DEF AcquisitionInv

LEMMA ReconciledKeeps ==
  ASSUME AcquisitionInv, NEW trk, Recounted(trk),
         NEW map, NEW rdy, NEW lnk, NEW n, WorldType(map, rdy, lnk, n),
         Reconciled(map, rdy, lnk, trk), UNCHANGED reads,
         running' = TRUE, WorldType(mapping', ready', link', changes')
  PROVE  AcquisitionInv'
<1>1. /\ map \in [Source -> Mapping \cup {None}] /\ lnk \in Links
      /\ trk \in [Source -> Tracked \cup {None}]
      /\ store \in [Source -> Entry \cup {None}] /\ epoch \in Nat /\ reads \subseteq Read
  BY DEF WorldType, Recounted, AcquisitionInv, TypeOK
<1>2. \A s \in Source : trk[s] # None => store[s] # None
  BY DEF Recounted, AcquisitionInv, TokensMatch
<1>3. NothingNew(map, rdy, lnk, trk) \/ NewEpoch(lnk, trk)
  BY <1>1, <1>2, ReconciledSteps
<1>4. CASE NothingNew(map, rdy, lnk, trk)
  <2>1. tracked' = trk /\ UNCHANGED <<store, epoch, groups, reads, busy>>
    BY <1>4 DEF NothingNew
  <2> QED
    BY <2>1, NothingNewKeeps
<1>5. CASE NewEpoch(lnk, trk)
  BY <1>1, <1>5, NewEpochKeeps
<1> QED
  BY <1>3, <1>4, <1>5

LEMMA SameRecounted == ASSUME AcquisitionInv PROVE Recounted(tracked)
<1>1. tracked \in [Source -> Tracked \cup {None}]
  BY DEF AcquisitionInv, TypeOK
<1>2. \A s \in Source : tracked[s] # None => tracked[s].seq =< tracked[s].seq
  <2>1. \A s \in Source : tracked[s] # None => tracked[s].seq \in Nat
    BY <1>1 DEF Tracked
  <2> QED
    BY <2>1
<1> QED
  BY <1>1, <1>2 DEF Recounted

LEMMA ReconcileWithKeeps ==
  ASSUME AcquisitionInv, ReconcileWith(mapping', ready', link'),
         WorldType(mapping', ready', link', changes')
  PROVE  AcquisitionInv'
<1>1. CASE running
  <2>1. running' = TRUE
    BY <1>1 DEF ReconcileWith, AcquisitionInv, TypeOK
  <2>2. Reconciled(mapping', ready', link', tracked) /\ UNCHANGED reads
    BY <1>1 DEF ReconcileWith
  <2> QED
    BY <2>1, <2>2, SameRecounted, ReconciledKeeps
<1>2. CASE ~running
  <2>1. UNCHANGED sched
    BY <1>2 DEF ReconcileWith
  <2> QED
    BY <2>1, WorldKeeps
<1> QED
  BY <1>1, <1>2

-----------------------------------------------------------------------------
(* Changes from outside.                                                    *)

LEMMA OutsideKeeps == ASSUME AcquisitionInv, Outside PROVE AcquisitionInv'
<1>1. WorldType(mapping, ready, link, changes) /\ changes' \in Nat
  <2>1. WorldType(mapping, ready, link, changes)
    BY TypeParts DEF AcquisitionInv
  <2>2. changes' = changes + 1
    BY DEF Outside, Configure, Redefine, Open, LinkChange, Replace, Change
  <2> QED
    BY <2>1, <2>2 DEF WorldType
<1>2. ASSUME NEW s \in Source, NEW m \in Mapping \cup {None}, Configure(s, m)
      PROVE  AcquisitionInv'
  <2>1. ReconcileWith(mapping', ready', link')
    BY <1>2 DEF Configure
  <2>2. WorldType(mapping', ready', link', changes')
    BY <1>1, <1>2 DEF Configure, WorldType
  <2> QED
    BY <2>1, <2>2, ReconcileWithKeeps
<1>3. ASSUME NEW s \in Source, Redefine(s)
      PROVE  AcquisitionInv'
  <2>1. UNCHANGED sched /\ WorldType(mapping', ready', link', changes')
    BY <1>1, <1>3 DEF Redefine, WorldType
  <2> QED
    BY <2>1, WorldKeeps
<1>4. ASSUME NEW d \in Device, Open(d)
      PROVE  AcquisitionInv'
  <2>1. ReconcileWith(mapping', ready', link')
    BY <1>4 DEF Open
  <2>2. link' \in Links
    <3>1. link \in Links /\ link[d].obj + 1 \in Nat
      BY <1>1 DEF WorldType, Links
    <3> QED
      BY <1>4, <3>1 DEF Open, Links
  <2>3. WorldType(mapping', ready', link', changes')
    BY <1>1, <1>4, <2>2 DEF Open, WorldType
  <2> QED
    BY <2>1, <2>3, ReconcileWithKeeps
<1>5. ASSUME NEW d \in Device, LinkChange(d)
      PROVE  AcquisitionInv'
  <2>1. ReconcileWith(mapping', ready', link')
    BY <1>5 DEF LinkChange
  <2>2. link' \in Links
    <3> DEFINE g == link[d].gen + 1  u == ~link[d].up
    <3>1. link \in Links /\ g \in Nat /\ u \in BOOLEAN
      BY <1>1 DEF WorldType, Links
    <3>2. link' = [link EXCEPT ![d].gen = g, ![d].up = u]
      BY <1>5, <3>1 DEF LinkChange, Links
    <3> HIDE DEF g, u
    <3> QED
      BY <3>1, <3>2 DEF Links
  <2>3. WorldType(mapping', ready', link', changes')
    BY <1>1, <1>5, <2>2 DEF LinkChange, WorldType
  <2> QED
    BY <2>1, <2>3, ReconcileWithKeeps
<1>6. ASSUME NEW d \in Device, Replace(d)
      PROVE  AcquisitionInv'
  <2>1. link' \in Links
    BY <1>1, <1>6 DEF Replace, WorldType, Links
  <2>2. UNCHANGED sched /\ WorldType(mapping', ready', link', changes')
    BY <1>1, <1>6, <2>1 DEF Replace, WorldType
  <2> QED
    BY <2>2, WorldKeeps
<1> QED
  BY <1>2, <1>3, <1>4, <1>5, <1>6 DEF Outside

LEMMA StopKeeps == ASSUME AcquisitionInv, Stop PROVE AcquisitionInv'
<1>1. /\ running' = FALSE /\ epoch' = epoch + 1 /\ groups' = {}
      /\ tracked' = [s \in Source |-> None] /\ store' = [s \in Source |-> None]
      /\ busy' = [d \in Device |-> None] /\ changes' = changes + 1
      /\ UNCHANGED <<mapping, ready, link, reads>>
  BY DEF Stop, Change
<1>2. /\ epoch \in Nat /\ changes \in Nat /\ reads \subseteq Read
      /\ \A r \in reads : r.scan.epoch =< epoch
  BY DEF AcquisitionInv, TypeOK, ReadsMatch, ReadMatches
<1>3. \A r \in reads : r.scan.epoch =< epoch' /\ r.scan.epoch # epoch'
  <2>1. \A r \in reads : r.scan.epoch \in Nat
    BY <1>2 DEF Read, Scan
  <2> QED
    BY <1>1, <1>2, <2>1
<1>4. TypeOK'
  <2>1. epoch' \in Nat /\ changes' \in Nat
    BY <1>1, <1>2
  <2>2. running' \in BOOLEAN /\ groups' \subseteq Mapping
    BY <1>1
  <2>3. tracked' \in [Source -> Tracked \cup {None}] /\ store' \in [Source -> Entry \cup {None}]
    BY <1>1
  <2>4. busy' \in [Device -> Scan \cup {None}]
    BY <1>1
  <2>5. TypeOK
    BY DEF AcquisitionInv
  <2> QED
    BY <1>1, <2>1, <2>2, <2>3, <2>4, <2>5 DEF TypeOK
<1>5. TokensMatch' /\ OneConnection' /\ GroupsUp' /\ StoppedClean' /\ FreshIsCurrent'
  BY <1>1 DEF TokensMatch, OneConnection, GroupsUp, StoppedClean, FreshIsCurrent
<1>6. ReadsMatch'
  BY <1>1, <1>3 DEF ReadsMatch, ReadMatches
<1>7. OneScanPerDevice'
  BY <1>1, <1>3 DEF OneScanPerDevice
<1> QED
  BY <1>4, <1>5, <1>6, <1>7 DEF AcquisitionInv

-----------------------------------------------------------------------------
(* The scheduler.                                                           *)

LEMMA CountedType ==
  ASSUME AcquisitionInv, NEW ms
  PROVE  /\ Recounted(Counted(ms))
         /\ \A s \in Source : tracked[s] # None /\ tracked[s].map \in ms =>
              Counted(ms)[s].seq = tracked[s].seq + 1
<1>1. tracked \in [Source -> Tracked \cup {None}]
  BY DEF AcquisitionInv, TypeOK
<1>2. ASSUME NEW s \in Source
      PROVE  /\ Counted(ms)[s] \in Tracked \cup {None}
             /\ \/ Counted(ms)[s] = None /\ tracked[s] = None
                \/ /\ Counted(ms)[s] # None /\ tracked[s] # None
                   /\ Counted(ms)[s].map = tracked[s].map
                   /\ Counted(ms)[s].token = tracked[s].token
                   /\ Counted(ms)[s].obj = tracked[s].obj /\ Counted(ms)[s].gen = tracked[s].gen
                   /\ Counted(ms)[s].up = tracked[s].up /\ tracked[s].seq =< Counted(ms)[s].seq
             /\ tracked[s] # None /\ tracked[s].map \in ms =>
                  Counted(ms)[s].seq = tracked[s].seq + 1
  <2>1. Counted(ms)[s] = IF tracked[s] # None /\ tracked[s].map \in ms
                         THEN [tracked[s] EXCEPT !.seq = @ + 1] ELSE tracked[s]
    BY DEF Counted
  <2>2. CASE tracked[s] = None
    BY <2>1, <2>2
  <2>3. CASE tracked[s] # None
    <3>1. tracked[s] \in Tracked
      BY <1>1, <2>3
    <3>2. tracked[s].seq \in Nat /\ tracked[s].seq =< tracked[s].seq + 1
          /\ tracked[s].seq =< tracked[s].seq
      BY <3>1 DEF Tracked
    <3> DEFINE more == [tracked[s] EXCEPT !.seq = @ + 1]
    <3>3. /\ more \in Tracked /\ more.map = tracked[s].map /\ more.token = tracked[s].token
          /\ more.obj = tracked[s].obj /\ more.gen = tracked[s].gen /\ more.up = tracked[s].up
          /\ more.seq = tracked[s].seq + 1
      BY <3>1, <3>2 DEF Tracked
    <3> HIDE DEF more
    <3>4. more # None
      BY <3>3, NoneAssumption
    <3>5. Counted(ms)[s] = IF tracked[s].map \in ms THEN more ELSE tracked[s]
      BY <2>1, <2>3 DEF more
    <3> QED
      BY <2>3, <3>1, <3>2, <3>3, <3>4, <3>5
  <2> QED
    BY <2>2, <2>3
<1>3. Counted(ms) = [s \in Source |-> Counted(ms)[s]]
  BY DEF Counted
<1> QED
  BY <1>2, <1>3 DEF Recounted

LEMMA RequestType ==
  ASSUME AcquisitionInv, NEW m \in groups, Idle(m)
  PROVE  /\ Request(m) \in Read
         /\ Request(m).scan = Current(m)
         /\ First(m) \in Members(m)
         /\ \A s \in Source : Request(m).targets[s] # None =>
              /\ tracked[s] # None /\ tracked[s].map = m
              /\ tracked[s].obj = Request(m).obj /\ tracked[s].gen = Request(m).gen
              /\ tracked[s].up
              /\ Request(m).targets[s].seq = tracked[s].seq + 1
<1>1. /\ m \in Mapping /\ epoch \in Nat
      /\ tracked \in [Source -> Tracked \cup {None}]
  BY DEF AcquisitionInv, TypeOK
<1>2. First(m) \in Members(m)
  BY DEF Idle, First
<1> DEFINE f == First(m)
<1>3. /\ f \in Source /\ tracked[f] # None /\ tracked[f].map = m
      /\ tracked[f] \in Tracked
  BY <1>1, <1>2 DEF Members
<1>4. \A s \in Members(m) :
        /\ s \in Source /\ tracked[s] # None /\ tracked[s].map = m
        /\ tracked[s] \in Tracked
        /\ tracked[s].obj = tracked[f].obj /\ tracked[s].gen = tracked[f].gen /\ tracked[s].up
  BY <1>1, <1>3 DEF Members, AcquisitionInv, OneConnection, GroupsUp
<1> HIDE DEF f
<1> DEFINE target(s) == [token |-> tracked[s].token, seq |-> tracked[s].seq + 1]
           targets == [s \in Source |-> IF s \in Members(m) THEN target(s) ELSE None]
<1>5. \A s \in Members(m) : target(s) \in Target
  BY <1>4 DEF Tracked, Target
<1>6. targets \in [Source -> Target \cup {None}]
  BY <1>5
<1>7. Request(m) = [scan |-> Current(m), obj |-> tracked[f].obj, gen |-> tracked[f].gen,
                    targets |-> targets]
  BY DEF Request, f
<1>8. Current(m) \in Scan /\ tracked[f].obj \in Nat /\ tracked[f].gen \in Nat
  BY <1>1, <1>3 DEF Current, Scan, Tracked
<1>9. \A s \in Source : targets[s] # None =>
        s \in Members(m) /\ targets[s].seq = tracked[s].seq + 1
  OBVIOUS
<1> HIDE DEF targets
<1>10. Request(m) \in Read
  BY <1>6, <1>7, <1>8 DEF Read
<1> QED
  BY <1>2, <1>4, <1>7, <1>9, <1>10

LEMMA ExpireAges ==
  ASSUME AcquisitionInv, NEW old,
         old \subseteq {s \in Source : store[s] # None /\ store[s].quality = "GOOD"}
  PROVE  Aged(Expire(old))
<1>1. store \in [Source -> Entry \cup {None}]
  BY DEF AcquisitionInv, TypeOK
<1>2. ASSUME NEW s \in Source
      PROVE  /\ Expire(old)[s] \in Entry \cup {None}
             /\ \/ Expire(old)[s] = None /\ store[s] = None
                \/ /\ Expire(old)[s] # None /\ store[s] # None
                   /\ Expire(old)[s].token = store[s].token /\ Expire(old)[s].seq = store[s].seq
                   /\ Expire(old)[s].value = store[s].value
                   /\ Expire(old)[s].quality \in {"GOOD", "STALE"}
                        => store[s].quality \in {"GOOD", "STALE"}
  <2>1. Expire(old)[s] = IF s \in old THEN [store[s] EXCEPT !.quality = "STALE"] ELSE store[s]
    BY DEF Expire
  <2>2. CASE s \notin old
    BY <1>1, <2>1, <2>2
  <2>3. CASE s \in old
    <3> DEFINE aged == [store[s] EXCEPT !.quality = "STALE"]
    <3>1. store[s] \in Entry /\ store[s] # None /\ store[s].quality = "GOOD"
      BY <1>1, <2>3
    <3>2. /\ aged \in Entry /\ aged.token = store[s].token /\ aged.seq = store[s].seq
          /\ aged.value = store[s].value
      BY <3>1 DEF Entry
    <3>3. Expire(old)[s] = aged
      BY <2>1, <2>3
    <3> HIDE DEF aged
    <3> QED
      BY <3>1, <3>2, <3>3, NoneAssumption
  <2> QED
    BY <2>2, <2>3
<1>3. Expire(old) = [s \in Source |-> Expire(old)[s]]
  BY DEF Expire
<1> QED
  BY <1>2, <1>3 DEF Aged

LEMMA BatchParts ==
  ASSUME NEW ms \in Batch
  PROVE  /\ \A m \in ms : m \in groups /\ Idle(m)
         /\ \A m, n \in ms : m.device = n.device => m = n
BY DEF Batch

LEMMA TickKeeps ==
  ASSUME AcquisitionInv, NEW old, NEW ms, Tick(old, ms)
  PROVE  AcquisitionInv'
<1>1. /\ running' = TRUE
      /\ store' = Expire(old)
      /\ reads' = reads \cup {Request(m) : m \in ms}
      /\ tracked' = Counted(ms)
      /\ busy' = [d \in Device |-> IF \E m \in ms : m.device = d
                                   THEN Current(CHOOSE m \in ms : m.device = d) ELSE busy[d]]
      /\ UNCHANGED <<epoch, groups, mapping, ready, link, changes>>
  BY DEF Tick, AcquisitionInv, TypeOK, world
<1>2. /\ \A m \in ms : m \in groups /\ m \in Mapping /\ Idle(m)
      /\ \A m, n \in ms : m.device = n.device => m = n
  BY BatchParts DEF Tick, AcquisitionInv, TypeOK
<1>3. Aged(Expire(old))
  BY ExpireAges DEF Tick
<1>4. Recounted(Counted(ms))
  BY CountedType
<1>5. /\ TokensMatch' /\ OneConnection' /\ GroupsUp' /\ StoppedClean' /\ FreshIsCurrent'
      /\ \A r \in reads : ReadMatches(r)'
  BY <1>1, <1>3, <1>4, CountingKeeps
<1>6. ASSUME NEW m \in ms
      PROVE  /\ Request(m) \in Read /\ Request(m).scan = Current(m)
             /\ \A s \in Source : Request(m).targets[s] # None =>
                  /\ tracked[s] # None /\ tracked[s].map = m
                  /\ tracked[s].obj = Request(m).obj /\ tracked[s].gen = Request(m).gen
                  /\ tracked[s].up
                  /\ Request(m).targets[s].seq = tracked[s].seq + 1
  BY <1>2, RequestType
<1>7. /\ epoch \in Nat /\ busy \in [Device -> Scan \cup {None}]
      /\ \A m : Current(m).map = m /\ Current(m).epoch = epoch
      /\ \A m \in Mapping : Current(m) \in Scan
  BY DEF Current, Scan, AcquisitionInv, TypeOK
<1>8. ASSUME NEW d \in Device
      PROVE  /\ \A m \in ms : m.device = d => busy'[d] = Current(m)
             /\ (~\E m \in ms : m.device = d) => busy'[d] = busy[d]
             /\ busy'[d] \in Scan \cup {None}
  <2>1. CASE \E m \in ms : m.device = d
    <3>1. PICK m \in ms : m.device = d
      BY <2>1
    <3>2. (CHOOSE n \in ms : n.device = d) = m
      BY <1>2, <3>1
    <3>3. busy'[d] = Current(m)
      BY <1>1, <2>1, <3>2
    <3> QED
      BY <1>2, <1>7, <3>1, <3>3
  <2>2. CASE ~\E m \in ms : m.device = d
    BY <1>1, <1>7, <2>2
  <2> QED
    BY <2>1, <2>2
<1>9. TypeOK'
  <2>1. tracked' \in [Source -> Tracked \cup {None}] /\ store' \in [Source -> Entry \cup {None}]
    BY <1>1, <1>3, <1>4 DEF Recounted, Aged
  <2>2. reads' \subseteq Read
    BY <1>1, <1>6 DEF AcquisitionInv, TypeOK
  <2>3. busy' \in [Device -> Scan \cup {None}]
    BY <1>1, <1>8
  <2> QED
    BY <1>1, <2>1, <2>2, <2>3 DEF AcquisitionInv, TypeOK
<1>10. ReadsMatch'
  <2>1. ASSUME NEW m \in ms, NEW r, r = Request(m)
        PROVE  ReadMatches(r)'
    <3>1. /\ r.scan = Current(m)
          /\ \A s \in Source : r.targets[s] # None =>
               /\ tracked[s] # None /\ tracked[s].map = m
               /\ tracked[s].obj = r.obj /\ tracked[s].gen = r.gen /\ tracked[s].up
               /\ r.targets[s].seq = tracked[s].seq + 1
      BY <1>6, <2>1
    <3>2. r.scan.map = m /\ r.scan.epoch = epoch /\ epoch =< epoch
      BY <1>7, <3>1
    <3>3. ASSUME NEW s \in Source, r.targets[s] # None
          PROVE  /\ tracked'[s] # None /\ tracked'[s].map = r.scan.map
                 /\ tracked'[s].obj = r.obj /\ tracked'[s].gen = r.gen /\ tracked'[s].up
                 /\ r.targets[s].seq =< tracked'[s].seq
      <4>1. /\ tracked[s] # None /\ tracked[s].map = m
            /\ tracked[s].obj = r.obj /\ tracked[s].gen = r.gen /\ tracked[s].up
            /\ r.targets[s].seq = tracked[s].seq + 1
        BY <3>1, <3>3
      <4>2. tracked'[s].seq = tracked[s].seq + 1
        BY <1>1, <4>1, CountedType
      <4>3. /\ tracked'[s] # None /\ tracked'[s].map = tracked[s].map
            /\ tracked'[s].obj = tracked[s].obj /\ tracked'[s].gen = tracked[s].gen
            /\ tracked'[s].up = tracked[s].up
        BY <1>1, <1>4, <4>1 DEF Recounted
      <4>4. tracked[s].seq + 1 =< tracked[s].seq + 1
        <5>1. tracked[s].seq \in Nat
          BY <4>1 DEF AcquisitionInv, TypeOK, Tracked
        <5> QED
          BY <5>1
      <4> QED
        BY <3>2, <4>1, <4>2, <4>3, <4>4
    <3> QED
      BY <1>1, <3>2, <3>3 DEF ReadMatches
  <2> QED
    BY <1>1, <1>5, <2>1 DEF ReadsMatch
<1>11. OneScanPerDevice'
  <2> DEFINE Old(r) == r \in reads /\ r.scan.epoch = epoch
             Asked(r, m) == m \in ms /\ r = Request(m)
  <2>1. \A r \in reads : /\ r.scan \in Scan /\ r.scan # None /\ r.scan.map \in Mapping
                         /\ r.scan.map.device \in Device
    BY NoneAssumption DEF AcquisitionInv, TypeOK, Read, Scan, Mapping
  <2>2. /\ \A q, r : Old(q) /\ Old(r) /\ q.scan.map.device = r.scan.map.device => q = r
        /\ \A d \in Device : busy[d] # None =>
             \E r : Old(r) /\ r.scan = busy[d] /\ r.scan.map.device = d
        /\ \A r : Old(r) => busy[r.scan.map.device] = r.scan
    BY DEF AcquisitionInv, OneScanPerDevice
  <2>3. \A r, m : Asked(r, m) =>
          /\ r.scan = Current(m) /\ r.scan.map = m /\ r.scan.epoch = epoch
          /\ m.device \in Device /\ busy[m.device] = None
    BY <1>2, <1>6, <1>7 DEF Idle, Mapping
  <2>4. \A r : r \in reads' /\ r.scan.epoch = epoch => Old(r) \/ \E m : Asked(r, m)
    BY <1>1
  <2>5. \A r : Old(r) => ~\E m \in ms : m.device = r.scan.map.device
    BY <2>1, <2>2, <2>3
  <2>6. ASSUME NEW q \in reads', NEW r \in reads', q.scan.epoch = epoch, r.scan.epoch = epoch,
               q.scan.map.device = r.scan.map.device
        PROVE  q = r
    <3>1. CASE Old(q) /\ Old(r)
      BY <2>2, <2>6, <3>1
    <3>2. CASE \E m, n : Asked(q, m) /\ Asked(r, n)
      BY <1>2, <2>3, <2>6, <3>2
    <3>3. CASE Old(q) /\ \E m : Asked(r, m)
      BY <2>3, <2>5, <2>6, <3>3
    <3>4. CASE Old(r) /\ \E m : Asked(q, m)
      BY <2>3, <2>5, <2>6, <3>4
    <3> QED
      BY <2>4, <2>6, <3>1, <3>2, <3>3, <3>4
  <2>7. ASSUME NEW d \in Device, busy'[d] # None
        PROVE  \E r \in reads' : r.scan = busy'[d] /\ r.scan.epoch = epoch /\ r.scan.map.device = d
    <3>1. CASE \E m \in ms : m.device = d
      <4>1. PICK m \in ms : m.device = d
        BY <3>1
      <4>2. Asked(Request(m), m) /\ Request(m) \in reads' /\ busy'[d] = Current(m)
        BY <1>1, <1>8, <4>1
      <4> QED
        BY <2>3, <4>1, <4>2
    <3>2. CASE ~\E m \in ms : m.device = d
      <4>1. busy'[d] = busy[d]
        BY <1>8, <3>2
      <4> QED
        BY <1>1, <2>2, <2>7, <4>1
    <3> QED
      BY <3>1, <3>2
  <2>8. ASSUME NEW r \in reads', r.scan.epoch = epoch
        PROVE  busy'[r.scan.map.device] = r.scan
    <3>1. CASE Old(r)
      BY <1>8, <2>1, <2>2, <2>5, <3>1
    <3>2. CASE \E m : Asked(r, m)
      BY <1>8, <2>3, <3>2
    <3> QED
      BY <2>4, <2>8, <3>1, <3>2
  <2> QED
    BY <1>1, <2>6, <2>7, <2>8 DEF OneScanPerDevice
<1> QED
  BY <1>5, <1>9, <1>10, <1>11 DEF AcquisitionInv

(* The first tag of a group is tracked as connected, so a group found       *)
(* invalid is one whose tag reconcile() has something to do for.            *)
LEMMA TickInvalidKeeps ==
  ASSUME AcquisitionInv, NEW ms, NEW bad \in groups, TickInvalid(ms, bad)
  PROVE  AcquisitionInv'
<1>1. /\ running' = TRUE
      /\ reads' = reads \cup {Request(m) : m \in ms}
      /\ Reconciled(mapping, ready, link, Counted(ms))
      /\ UNCHANGED <<mapping, ready, link, changes>>
      /\ WorldType(mapping, ready, link, changes)
  BY TypeParts DEF TickInvalid, AcquisitionInv, TypeOK, world
<1>2. Recounted(Counted(ms))
  BY CountedType
<1>3. \A s \in Source : Counted(ms)[s] # None => store[s] # None
  BY <1>2 DEF Recounted, AcquisitionInv, TokensMatch
<1>4. NothingNew(mapping, ready, link, Counted(ms)) \/ NewEpoch(link, Counted(ms))
  BY <1>1, <1>2, <1>3, ReconciledSteps DEF WorldType, Recounted, AcquisitionInv, TypeOK
<1>5. ~NothingNew(mapping, ready, link, Counted(ms))
  <2>1. Idle(bad)
    BY BatchParts DEF TickInvalid
  <2> DEFINE f == First(bad)
  <2>2. f \in Members(bad)
    BY <2>1, RequestType
  <2>3. f \in Source /\ tracked[f] # None /\ tracked[f].map = bad /\ tracked[f].up
    BY <2>2 DEF Members, AcquisitionInv, GroupsUp
  <2>4. ~Valid(f, tracked[f].obj)
    BY DEF TickInvalid, Startable
  <2> HIDE DEF f
  <2>5. ASSUME NothingNew(mapping, ready, link, Counted(ms))
        PROVE  Valid(f, tracked[f].obj)
    <3>1. /\ Counted(ms)[f] # None /\ Counted(ms)[f].map = tracked[f].map
          /\ Counted(ms)[f].obj = tracked[f].obj /\ Counted(ms)[f].gen = tracked[f].gen
          /\ Counted(ms)[f].up = tracked[f].up
      BY <1>2, <2>3 DEF Recounted
    <3>2. On(Counted(ms)[f], link) /\ f \in ready /\ mapping[f] = Counted(ms)[f].map
      BY <2>3, <2>5, <3>1 DEF NothingNew
    <3> QED
      BY <2>3, <3>1, <3>2 DEF On, Valid
  <2> QED
    BY <2>4, <2>5
<1>6. reads' \subseteq Read /\ \A r \in reads' : r \in reads \/ r.scan.epoch = epoch
  <2>1. \A m \in ms : m \in groups /\ Idle(m)
    BY BatchParts DEF TickInvalid
  <2>2. ASSUME NEW m \in ms
        PROVE  Request(m) \in Read /\ Request(m).scan.epoch = epoch
    <3>1. Request(m) \in Read /\ Request(m).scan = Current(m)
      BY <2>1, RequestType
    <3>2. Current(m).epoch = epoch
      BY DEF Current
    <3> QED
      BY <3>1, <3>2
  <2> QED
    BY <1>1, <2>2 DEF AcquisitionInv, TypeOK
<1> QED
  BY <1>1, <1>2, <1>4, <1>5, <1>6, NewEpochKeeps DEF WorldType

LEMMA SettleKeeps ==
  ASSUME AcquisitionInv, NEW r \in reads, NEW good, Settle(r, good)
  PROVE  AcquisitionInv'
<1>1. /\ store' = [s \in Source |->
                     IF r.targets[s] = None \/ ~ValidTarget(r, s) \/ ~Accepts(s, r.targets[s])
                     THEN store[s]
                     ELSE IF s \in good THEN Good(r, s) ELSE Bad(r, s)]
      /\ reads' = reads \ {r}
      /\ busy' = [busy EXCEPT ![r.scan.map.device] = IF @ = r.scan THEN None ELSE @]
      /\ UNCHANGED <<running, tracked, epoch, groups, mapping, ready, link, changes>>
  BY DEF Settle, Ended, world
<1>2. /\ TypeOK /\ TokensMatch /\ OneConnection /\ GroupsUp /\ ReadsMatch /\ StoppedClean
      /\ FreshIsCurrent /\ OneScanPerDevice
  BY DEF AcquisitionInv
<1>3. /\ r \in Read /\ r.scan \in Scan /\ r.scan.map \in Mapping /\ r.scan.map.device \in Device
      /\ r.obj \in Nat /\ r.gen \in Nat /\ r.targets \in [Source -> Target \cup {None}]
  BY <1>2 DEF TypeOK, Read, Scan, Mapping
<1>4. ASSUME NEW s \in Source
      PROVE  \/ store'[s] = store[s]
             \/ /\ store[s] # None /\ tracked[s] # None /\ tracked[s].up
                /\ tracked[s].map = r.scan.map
                /\ tracked[s].obj = r.obj /\ tracked[s].gen = r.gen
                /\ store'[s] \in Entry /\ store'[s] # None
                /\ store'[s].token = store[s].token /\ store'[s].seq =< tracked[s].seq
                /\ \/ store'[s].quality = "BAD"
                   \/ store'[s].value = [map |-> r.scan.map, obj |-> r.obj, gen |-> r.gen]
  <2>1. CASE r.targets[s] = None \/ ~ValidTarget(r, s) \/ ~Accepts(s, r.targets[s])
    BY <1>1, <2>1
  <2>2. CASE ~(r.targets[s] = None \/ ~ValidTarget(r, s) \/ ~Accepts(s, r.targets[s]))
    <3>1. /\ r.scan.epoch = epoch /\ store[s] # None /\ store[s] \in Entry
          /\ r.targets[s] # None /\ r.targets[s].seq \in Nat
      BY <1>2, <1>3, <2>2 DEF ValidTarget, Accepts, TypeOK, Target
    <3>2. /\ tracked[s] # None /\ tracked[s].up /\ tracked[s].map = r.scan.map
          /\ tracked[s].obj = r.obj /\ tracked[s].gen = r.gen
          /\ r.targets[s].seq =< tracked[s].seq
      BY <1>2, <3>1 DEF ReadsMatch, ReadMatches
    <3> DEFINE origin == [map |-> r.scan.map, obj |-> r.obj, gen |-> r.gen]
    <3>3. origin \in Origin
      BY <1>3 DEF Origin
    <3>4. store'[s] = IF s \in good THEN Good(r, s) ELSE Bad(r, s)
      BY <1>1, <2>2
    <3>5. CASE s \in good
      <4>1. store'[s] = [store[s] EXCEPT !.seq = r.targets[s].seq, !.quality = "GOOD",
                                         !.value = origin]
        BY <3>4, <3>5 DEF Good
      <4> HIDE DEF origin
      <4>2. /\ store'[s] \in Entry /\ store'[s].token = store[s].token
            /\ store'[s].seq = r.targets[s].seq /\ store'[s].value = origin
        BY <3>1, <3>3, <4>1 DEF Entry
      <4> QED
        BY <3>1, <3>2, <4>2, NoneAssumption DEF origin
    <3>6. CASE s \notin good
      <4>1. store'[s] = [store[s] EXCEPT !.seq = r.targets[s].seq, !.quality = "BAD"]
        BY <3>4, <3>6 DEF Bad
      <4>2. /\ store'[s] \in Entry /\ store'[s].token = store[s].token
            /\ store'[s].seq = r.targets[s].seq /\ store'[s].quality = "BAD"
        BY <3>1, <4>1 DEF Entry
      <4> QED
        BY <3>1, <3>2, <4>2, NoneAssumption
    <3> QED
      BY <3>5, <3>6
  <2> QED
    BY <2>1, <2>2
<1>5. ASSUME NEW d \in Device
      PROVE  busy'[d] = IF d = r.scan.map.device /\ busy[d] = r.scan THEN None ELSE busy[d]
  BY <1>1, <1>2 DEF TypeOK
<1>6. TypeOK'
  <2>1. store' \in [Source -> Entry \cup {None}]
    BY <1>1, <1>2, <1>4 DEF TypeOK
  <2>2. busy' \in [Device -> Scan \cup {None}]
    BY <1>1, <1>2, <1>5 DEF TypeOK
  <2> QED
    BY <1>1, <1>2, <2>1, <2>2 DEF TypeOK
<1>7. TokensMatch'
  BY <1>1, <1>2, <1>4 DEF TokensMatch
<1>8. FreshIsCurrent'
  <2> SUFFICES ASSUME NEW s \in Source, store'[s] # None, store'[s].quality \in {"GOOD", "STALE"}
               PROVE  /\ tracked[s] # None /\ tracked[s].up
                      /\ store'[s].value = [map |-> tracked[s].map, obj |-> tracked[s].obj,
                                            gen |-> tracked[s].gen]
    BY <1>1 DEF FreshIsCurrent
  <2>1. CASE store'[s] = store[s]
    BY <1>2, <2>1 DEF FreshIsCurrent
  <2>2. CASE store'[s] # store[s]
    BY <1>4, <2>2
  <2> QED
    BY <2>1, <2>2
<1>9. OneConnection' /\ GroupsUp' /\ ReadsMatch' /\ StoppedClean'
  BY <1>1, <1>2 DEF OneConnection, GroupsUp, ReadsMatch, ReadMatches, StoppedClean
<1>10. OneScanPerDevice'
  <2>1. ASSUME NEW d \in Device, busy'[d] # None
        PROVE  \E q \in reads' : q.scan = busy'[d] /\ q.scan.epoch = epoch /\ q.scan.map.device = d
    <3>1. busy'[d] = busy[d] /\ ~(d = r.scan.map.device /\ busy[d] = r.scan)
      BY <1>5, <2>1
    <3>2. PICK q \in reads : q.scan = busy[d] /\ q.scan.epoch = epoch /\ q.scan.map.device = d
      BY <1>2, <2>1, <3>1 DEF OneScanPerDevice
    <3> QED
      BY <1>1, <3>1, <3>2
  <2>2. ASSUME NEW q \in reads', q.scan.epoch = epoch
        PROVE  busy'[q.scan.map.device] = q.scan
    <3>1. q \in reads /\ q # r /\ busy[q.scan.map.device] = q.scan
      BY <1>1, <1>2, <2>2 DEF OneScanPerDevice
    <3>2. q.scan # r.scan
      BY <1>2, <2>2, <3>1 DEF OneScanPerDevice
    <3>3. q.scan.map.device \in Device
      BY <1>2, <3>1 DEF TypeOK, Read, Scan, Mapping
    <3> QED
      BY <1>5, <3>1, <3>2, <3>3
  <2>3. \A p, q \in reads' : p.scan.epoch = epoch /\ q.scan.epoch = epoch
                             /\ p.scan.map.device = q.scan.map.device => p = q
    BY <1>1, <1>2 DEF OneScanPerDevice
  <2> QED
    BY <1>1, <2>1, <2>2, <2>3 DEF OneScanPerDevice
<1> QED
  BY <1>6, <1>7, <1>8, <1>9, <1>10 DEF AcquisitionInv

-----------------------------------------------------------------------------
LEMMA InitAcquisitionInv == ASSUME Init PROVE AcquisitionInv
<1>1. TypeOK
  BY DEF Init, TypeOK
<1> QED
  BY <1>1
  DEF Init, AcquisitionInv, TokensMatch, OneConnection, GroupsUp, ReadsMatch, StoppedClean,
      FreshIsCurrent, OneScanPerDevice

LEMMA NextKeeps == ASSUME AcquisitionInv, [Next]_vars PROVE AcquisitionInv'
<1>1. WorldType(mapping, ready, link, changes)
  BY TypeParts DEF AcquisitionInv
<1>2. CASE Start
  <2>1. /\ running' = TRUE /\ UNCHANGED <<mapping, ready, link, changes, reads>>
        /\ Reconciled(mapping, ready, link, tracked)
    BY <1>2 DEF Start, world
  <2>2. WorldType(mapping', ready', link', changes')
    BY <1>1, <2>1
  <2> QED
    BY <1>1, <2>1, <2>2, SameRecounted, ReconciledKeeps
<1>3. CASE Reconcile
  <2>1. UNCHANGED <<mapping, ready, link, changes>>
    BY <1>3 DEF Reconcile, world
  <2>2. ReconcileWith(mapping', ready', link')
    BY <1>3, <2>1 DEF Reconcile
  <2>3. WorldType(mapping', ready', link', changes')
    BY <1>1, <2>1
  <2> QED
    BY <2>2, <2>3, ReconcileWithKeeps
<1>4. CASE Ticks
  BY <1>4, TickKeeps, TickInvalidKeeps DEF Ticks
<1>5. CASE UNCHANGED vars
  <2>1. UNCHANGED sched /\ UNCHANGED <<mapping, ready, link, changes>>
    BY <1>5 DEF vars, sched
  <2>2. WorldType(mapping', ready', link', changes')
    BY <1>1, <2>1
  <2> QED
    BY <2>1, <2>2, WorldKeeps
<1> QED
  BY <1>2, <1>3, <1>4, <1>5, OutsideKeeps, StopKeeps, SettleKeeps DEF Next

(* The inductive invariant: the tags of a device are tracked on one         *)
(* connection, what is polled is connected, and a read of this epoch is for *)
(* tags that are still tracked as when it was asked for                     *)
(* (sharedTagAcquisition.ts 31-62 and 70-124).                              *)
THEOREM AcquisitionInvariant == Spec => []AcquisitionInv
<1>1. Init => AcquisitionInv
  BY InitAcquisitionInv
<1>2. AcquisitionInv /\ [Next]_vars => AcquisitionInv'
  BY NextKeeps
<1> QED
  BY <1>1, <1>2, PTL DEF Spec

(* Every reachable state has its type.                                      *)
THEOREM TypeCorrect == Spec => []TypeOK
<1>1. AcquisitionInv => TypeOK
  BY DEF AcquisitionInv
<1> QED
  BY <1>1, AcquisitionInvariant, PTL

(* A value shown as GOOD or STALE was read at the block, on the connection  *)
(* object and in the attempt its source is tracked for, whatever was        *)
(* remapped, disabled, reconnected or replaced while it was read            *)
(* (sharedTagAcquisition.ts 89-94 and 108).                                 *)
THEOREM FreshCorrect == Spec => []FreshIsCurrent
<1>1. AcquisitionInv => FreshIsCurrent
  BY DEF AcquisitionInv
<1> QED
  BY <1>1, AcquisitionInvariant, PTL

(* A device is read for one group at a time in each epoch, and the end of a *)
(* scan frees no device but its own (sharedTagAcquisition.ts 73-77 and      *)
(* 122-123).                                                                *)
THEOREM OneScanCorrect == Spec => []OneScanPerDevice
<1>1. AcquisitionInv => OneScanPerDevice
  BY DEF AcquisitionInv
<1> QED
  BY <1>1, AcquisitionInvariant, PTL

(* The store has an entry for exactly the tracked tags, each under the      *)
(* token it is tracked with (sharedTagAcquisition.ts 31, 42, 54 and 60).    *)
THEOREM TokensCorrect == Spec => []TokensMatch
<1>1. AcquisitionInv => TokensMatch
  BY DEF AcquisitionInv
<1> QED
  BY <1>1, AcquisitionInvariant, PTL

=============================================================================
