-------------------------- MODULE TagDeliveryProofs --------------------------
(* Theorems about TagDelivery for any sources, pages and limits, and any    *)
(* numbers of changes, restarts and recoveries.                             *)
EXTENDS TagDelivery, FiniteSetTheorems, SequenceTheorems,
        WellFoundedInduction, TLAPS

-----------------------------------------------------------------------------
(* The inductive invariant.                                                 *)

(* The item of s at moment n of a history.                                  *)
Stood(h, s, n, it) ==
  \E i \in 1 .. n : /\ h[i].source = s /\ h[i].item = it
                    /\ \A j \in (i + 1) .. n : h[j].source # s

Moment(h, sel, n, items) == \A s \in sel : Stood(h, s, n, items[s])

(* Who is connected, and who has a cursor.                                  *)
Phases(c) ==
  /\ client[c].phase \in {"idle", "halted", "snapshot"} => client[c].cursor = None
  /\ client[c].phase \in {"opening", "subscribing", "live"} => client[c].cursor # None
  /\ client[c].phase \notin {"subscribing", "live"} =>
       session[c] = None /\ down[c] = <<>> /\ ~ client[c].ack

(* What a browser shows with a cursor of this epoch is that moment.         *)
Cached(c) ==
  client[c].cursor # None =>
    /\ client[c].cursor.epoch <= epoch
    /\ client[c].cursor.epoch = epoch =>
         /\ client[c].cursor.seq = seen[c]
         /\ Moment(log, Selection[c], seen[c], client[c].cache)

(* The controls on their way to a session.                                  *)
Asked(c) ==
  /\ session[c] = None => up[c] = <<>>
  /\ session[c] # None /\ ~ session[c].subscribed =>
       /\ up[c] = <<[type |-> "subscribe", cursor |-> client[c].cursor]>>
       /\ down[c] = <<>> /\ ~ client[c].ack
  /\ session[c] # None /\ session[c].subscribed =>
       /\ \A i \in DOMAIN up[c] :
            /\ up[c][i].type = "ack" /\ up[c][i].cursor.seq <= client[c].cursor.seq
            /\ up[c][i].cursor.seq \in {session[c].acked} \cup session[c].boundaries
            /\ \A j \in DOMAIN up[c] : i < j => up[c][i].cursor.seq <= up[c][j].cursor.seq
       /\ client[c].cursor.seq \in {session[c].acked} \cup session[c].boundaries
       /\ session[c].acked <= session[c].after
       /\ \A b \in session[c].boundaries : session[c].acked < b /\ b <= session[c].after

(* The frames on their way to a browser.                                    *)
Told(c) ==
  /\ \A i \in DOMAIN down[c] :
       /\ down[c][i].type = "resync" => i = Len(down[c]) /\ session[c] = None
       /\ down[c][i].type = "subscribed" => i = 1 /\ down[c][i].to = client[c].cursor.seq
       /\ down[c][i].type = "range" =>
            /\ client[c].cursor.epoch = epoch
            /\ down[c][i].from = Reached(c, i)
            /\ down[c][i].from < down[c][i].to /\ down[c][i].to <= Len(log)
            /\ down[c][i].updates = Relevant(log, down[c][i].from, down[c][i].to, Selection[c])
            /\ session[c] # None => down[c][i].to \in session[c].boundaries
  /\ session[c] # None /\ session[c].subscribed =>
       /\ client[c].cursor.epoch = epoch
       /\ session[c].after = Reached(c, Len(down[c]) + 1) /\ session[c].after <= Len(log)

Paged(c) == Phases(c) /\ seen[c] <= Len(log) /\ Cached(c) /\ Asked(c) /\ Told(c)

(* A reply that will be taken is a moment the browser has not gone past.    *)
Replying(r) ==
  /\ r.current =>
       /\ client[r.client].phase = "snapshot"
       /\ \A q \in calls : q.current /\ q.client = r.client => q = r
  /\ r.reply # None =>
       /\ r.reply.cursor.epoch <= epoch
       /\ r.current /\ r.reply.cursor.epoch = epoch =>
            /\ seen[r.client] <= r.reply.cursor.seq /\ r.reply.cursor.seq <= Len(log)
            /\ Moment(log, Selection[r.client], r.reply.cursor.seq, r.reply.items)

DeliveryInv ==
  /\ TypeOK /\ LeasesHeld /\ WatchedIsPublished
  /\ \A c \in Client : Paged(c)
  /\ \A r \in calls : Replying(r)


-----------------------------------------------------------------------------
(* Histories.                                                               *)

(* The second history begins with the first.                                *)
Extends(h, g) == Len(h) <= Len(g) /\ \A i \in 1 .. Len(h) : g[i] = h[i]

LEMMA StoodLater ==
  ASSUME NEW h \in Seq(Event), NEW g \in Seq(Event), Extends(h, g),
         NEW n \in 0 .. Len(h), NEW s, NEW it
  PROVE  Stood(g, s, n, it) <=> Stood(h, s, n, it)
<1>1. \A i \in 1 .. n : g[i] = h[i]
  BY LenProperties DEF Extends
<1>2. \A i \in 1 .. n : \A j \in (i + 1) .. n : g[j] = h[j]
  BY <1>1, LenProperties
<1> QED
  BY <1>1, <1>2 DEF Stood

LEMMA RelevantLater ==
  ASSUME NEW h \in Seq(Event), NEW g \in Seq(Event), Extends(h, g),
         NEW a \in Nat, NEW b \in 0 .. Len(h), NEW sel
  PROVE  Relevant(g, a, b, sel) = Relevant(h, a, b, sel)
<1>1. \A i \in (a + 1) .. b : g[i] = h[i]
  BY LenProperties DEF Extends
<1>2. {m \in (a + 1) .. b : g[m].source \in sel} = {m \in (a + 1) .. b : h[m].source \in sel}
  BY <1>1
<1> QED
  BY <1>1, <1>2 DEF Relevant

(* A set of bounded numbers has a greatest: no one is above the element     *)
(* with the fewest elements above it.                                       *)
LEMMA Greatest ==
  ASSUME NEW n \in Nat, NEW S \in SUBSET (0 .. n), S # {}
  PROVE  \E x \in S : \A y \in S : y <= x
<1> DEFINE above(x) == {y \in S : y > x}
           T == {above(x) : x \in S}
           R == StrictSubsetOrdering(S)
           F == FiniteSubsetsOf(S)
<1>1. IsWellFoundedOn(R, F)
  BY FS_StrictSubsetOrderingWellFounded
<1>2. T \subseteq F /\ T # {}
  <2>1. IsFiniteSet(0 .. n)
    BY FS_Interval
  <2>2. F = SUBSET S
    BY <2>1, FS_Subset, FS_FiniteSubsetsOfFinite
  <2>3. T \subseteq SUBSET S /\ T # {}
    OBVIOUS
  <2> QED
    BY <2>2, <2>3
<1>3. \E a \in T : \A b \in T : <<b, a>> \notin R
  <2> HIDE DEF R, F, T
  <2> QED
    BY <1>1, <1>2, WFMin
<1>4. PICK x \in S : \A y \in S : <<above(y), above(x)>> \notin R
  BY <1>3
<1>5. ASSUME NEW y \in S, y > x PROVE FALSE
  <2>1. x \in Nat /\ y \in Nat /\ \A z \in S : z \in Nat
    OBVIOUS
  <2>2. above(y) \subseteq above(x) /\ y \in above(x) /\ y \notin above(y)
    <3>1. \A z \in S : z > y => z > x
      BY <1>5, <2>1
    <3>2. ~ (y > y)
      BY <2>1
    <3> QED
      BY <1>5, <3>1, <3>2, Zenon
  <2>3. above(y) \in SUBSET S /\ above(x) \in SUBSET S /\ above(y) # above(x)
    BY <2>2
  <2> HIDE DEF above
  <2>4. <<above(y), above(x)>> \in R
    BY <2>2, <2>3 DEF StrictSubsetOrdering
  <2> QED
    BY <1>4, <2>4
<1>6. \A y \in S : y <= x
  BY <1>5
<1> QED
  BY <1>6

(* What a browser makes of the updates of a frame is the moment it ends at. *)
LEMMA ApplyIs ==
  ASSUME NEW h \in Seq(Event), NEW a \in Nat, NEW b \in 0 .. Len(h), a <= b,
         NEW sel \in SUBSET Source, NEW cache \in [Source -> Item \cup {None}],
         Moment(h, sel, a, cache)
  PROVE  Moment(h, sel, b, Apply(cache, Relevant(h, a, b, sel)))
<1> SUFFICES ASSUME NEW s \in sel
             PROVE  Stood(h, s, b, Apply(cache, Relevant(h, a, b, sel))[s])
  BY DEF Moment
<1> DEFINE u == Relevant(h, a, b, sel)
           at == {i \in DOMAIN u : u[i].source = s}
<1>1. DOMAIN u = {m \in (a + 1) .. b : h[m].source \in sel}
      /\ \A i \in DOMAIN u : u[i] = h[i]
  BY DEF Relevant
<1>2. at = {m \in (a + 1) .. b : h[m].source = s}
  BY <1>1
<1>3. Apply(cache, u)[s] =
        IF at = {} THEN cache[s] ELSE u[CHOOSE i \in at : \A j \in at : j =< i].item
  BY DEF Apply
<1> HIDE DEF u
<1>4. CASE at = {}
  <2>1. PICK i \in 1 .. a : /\ h[i].source = s /\ h[i].item = cache[s]
                            /\ \A j \in (i + 1) .. a : h[j].source # s
    BY DEF Moment, Stood
  <2>2. \A j \in (i + 1) .. b : h[j].source # s
    BY <1>2, <1>4, <2>1
  <2>3. i \in 1 .. b
    BY <2>1
  <2> QED
    BY <1>3, <1>4, <2>1, <2>2, <2>3 DEF u, Stood
<1>5. CASE at # {}
  <2>1. \E i \in at : \A j \in at : j =< i
    <3>1. at \in SUBSET (0 .. b) /\ b \in Nat
      BY <1>2
    <3> HIDE DEF at
    <3> QED
      BY <1>5, <3>1, Greatest
  <2>2. PICK i \in at : i = (CHOOSE k \in at : \A j \in at : j =< k) /\ \A j \in at : j =< i
    <3> HIDE DEF at
    <3> QED
      BY <2>1
  <2>3. Apply(cache, u)[s] = h[i].item
    BY <1>1, <1>3, <1>5, <2>2
  <2>4. i \in 1 .. b /\ h[i].source = s
    BY <1>2, <2>2
  <2>5. \A j \in (i + 1) .. b : h[j].source # s
    BY <1>2, <2>2, <2>4
  <2> QED
    BY <2>3, <2>4, <2>5 DEF u, Stood
<1> QED
  BY <1>4, <1>5

(* A set of sources put in a row.                                           *)
LEMMA RowIs ==
  ASSUME NEW D, IsFiniteSet(D)
  PROVE  /\ SetToSeq(D) \in Seq(D) /\ Len(SetToSeq(D)) = Cardinality(D)
         /\ Cardinality(D) \in Nat
         /\ \A i, j \in 1 .. Cardinality(D) : SetToSeq(D)[i] = SetToSeq(D)[j] => i = j
         /\ \A s \in D : \E i \in 1 .. Cardinality(D) : SetToSeq(D)[i] = s
<1> DEFINE N == Cardinality(D)
           f == SetToSeq(D)
<1>1. N \in Nat /\ ExistsBijection(1 .. N, D)
  BY FS_CardinalityType
<1>2. \E g \in [1 .. N -> D] : IsInjective(g)
  BY <1>1 DEF ExistsBijection, Bijection, Injection
<1>3. f \in [1 .. N -> D] /\ IsInjective(f)
  BY <1>2 DEF SetToSeq
<1>4. f \in Seq(D) /\ Len(f) = N
  BY <1>1, <1>3
<1>5. \A i, j \in 1 .. N : f[i] = f[j] => i = j
  BY <1>3 DEF IsInjective
<1>6. \A s \in D : \E i \in 1 .. N : f[i] = s
  <2>1. f \in Injection(1 .. N, D)
    BY <1>3 DEF Injection
  <2>2. Cardinality(1 .. N) = N
    BY <1>1, FS_Interval
  <2>3. f \in Surjection(1 .. N, D)
    BY <2>1, <2>2, FS_Injection
  <2> QED
    BY <2>3 DEF Surjection
<1> QED
  BY <1>1, <1>4, <1>5, <1>6

-----------------------------------------------------------------------------
(* publish(), and what it makes of the last event of each source.           *)

LEMMA PublishesIs ==
  ASSUME log \in Seq(Event), item \in [Source -> Item], floor \in Nat,
         NEW ss \in Seq(Source), Publishes(ss)
  PROVE  /\ log' \in Seq(Event) /\ floor' \in Nat
         /\ Len(ss) \in Nat /\ Len(log) \in Nat /\ Len(log') = Len(log) + Len(ss)
         /\ Extends(log, log')
         /\ \A k \in 1 .. Len(ss) :
              log'[Len(log) + k] = [source |-> ss[k], item |-> item[ss[k]]]
<1> DEFINE new == [i \in 1 .. Len(ss) |-> [source |-> ss[i], item |-> item[ss[i]]]]
<1>1. Len(ss) \in Nat /\ Len(log) \in Nat
  BY LenProperties
<1>2. \A i \in 1 .. Len(ss) : ss[i] \in Source
  BY ElementOfSeq
<1>3. new \in Seq(Event) /\ Len(new) = Len(ss)
  <2>1. \A i \in 1 .. Len(ss) : [source |-> ss[i], item |-> item[ss[i]]] \in Event
    BY <1>2 DEF Event
  <2>2. new \in [1 .. Len(ss) -> Event]
    BY <2>1
  <2> QED
    BY <1>1, <2>2
<1>4. log' = log \o new /\ floor' = Floor(Len(log'))
  BY DEF Publishes, Appended
<1>5. \A i \in 1 .. Len(ss) : new[i] = [source |-> ss[i], item |-> item[ss[i]]]
  OBVIOUS
<1> HIDE DEF new
<1>6. /\ log' \in Seq(Event) /\ Len(log') = Len(log) + Len(ss)
      /\ \A i \in 1 .. Len(log) + Len(ss) :
           log'[i] = IF i <= Len(log) THEN log[i] ELSE new[i - Len(log)]
  <2>1. /\ log \o new \in Seq(Event) /\ Len(log \o new) = Len(log) + Len(new)
        /\ \A i \in 1 .. Len(log) + Len(new) :
             (log \o new)[i] = IF i <= Len(log) THEN log[i] ELSE new[i - Len(log)]
    BY <1>3, ConcatProperties
  <2> QED
    BY <1>3, <1>4, <2>1
<1>7. Extends(log, log')
  BY <1>1, <1>6 DEF Extends
<1>8. \A k \in 1 .. Len(ss) :
        log'[Len(log) + k] = [source |-> ss[k], item |-> item[ss[k]]]
  <2> SUFFICES ASSUME NEW k \in 1 .. Len(ss)
               PROVE  log'[Len(log) + k] = [source |-> ss[k], item |-> item[ss[k]]]
    OBVIOUS
  <2>1. /\ Len(log) + k \in 1 .. Len(log) + Len(ss) /\ ~ (Len(log) + k <= Len(log))
        /\ (Len(log) + k) - Len(log) = k
    BY <1>1
  <2> QED
    BY <1>5, <1>6, <2>1
<1>9. floor' \in Nat
  <2>1. Len(log') \in Nat
    BY <1>1, <1>6
  <2> QED
    BY <1>4, <2>1, DeliveryAssumption DEF Floor, Max2
<1> QED
  BY <1>1, <1>6, <1>7, <1>8, <1>9

LEMMA LastPublished ==
  ASSUME log \in Seq(Event), item \in [Source -> Item], floor \in Nat,
         NEW ss \in Seq(Source), Publishes(ss),
         \A i, j \in 1 .. Len(ss) : ss[i] = ss[j] => i = j
  PROVE  /\ \A k \in 1 .. Len(ss) : Len(log) + k \in LastEvent(ss[k])'
         /\ \A s \in Source : (\A k \in 1 .. Len(ss) : ss[k] # s) =>
              \A i \in LastEvent(s) : i \in LastEvent(s)' /\ log'[i] = log[i]
<1>1. /\ Len(ss) \in Nat /\ Len(log) \in Nat /\ Len(log') = Len(log) + Len(ss)
      /\ \A i \in 1 .. Len(log) : log'[i] = log[i]
      /\ \A k \in 1 .. Len(ss) :
           log'[Len(log) + k] = [source |-> ss[k], item |-> item[ss[k]]]
  BY PublishesIs DEF Extends
<1>2. \A j \in Len(log) + 1 .. Len(log') :
        j - Len(log) \in 1 .. Len(ss) /\ log'[j].source = ss[j - Len(log)]
  <2> SUFFICES ASSUME NEW j \in Len(log) + 1 .. Len(log')
               PROVE  j - Len(log) \in 1 .. Len(ss) /\ log'[j].source = ss[j - Len(log)]
    OBVIOUS
  <2> DEFINE k == j - Len(log)
  <2>1. k \in 1 .. Len(ss) /\ Len(log) + k = j
    BY <1>1
  <2> HIDE DEF k
  <2>2. log'[j] = [source |-> ss[k], item |-> item[ss[k]]]
    BY <1>1, <2>1
  <2>3. log'[j].source = ss[k]
    BY <2>2
  <2> QED
    BY <2>1, <2>3 DEF k
<1>3. ASSUME NEW k \in 1 .. Len(ss) PROVE Len(log) + k \in LastEvent(ss[k])'
  <2>1. Len(log) + k \in 1 .. Len(log') /\ log'[Len(log) + k].source = ss[k]
    <3>1. Len(log) + k \in 1 .. Len(log')
      BY <1>1
    <3>2. log'[Len(log) + k] = [source |-> ss[k], item |-> item[ss[k]]]
      BY <1>1
    <3> QED
      BY <3>1, <3>2
  <2>2. ASSUME NEW j \in (Len(log) + k) + 1 .. Len(log') PROVE log'[j].source # ss[k]
    <3>1. j \in Len(log) + 1 .. Len(log') /\ j - Len(log) # k
      BY <1>1
    <3> QED
      BY <1>2, <3>1
  <2> QED
    BY <2>1, <2>2 DEF LastEvent
<1>4. ASSUME NEW s \in Source, \A k \in 1 .. Len(ss) : ss[k] # s, NEW i \in LastEvent(s)
      PROVE  i \in LastEvent(s)' /\ log'[i] = log[i]
  <2>1. /\ i \in 1 .. Len(log) /\ log[i].source = s
        /\ \A j \in (i + 1) .. Len(log) : log[j].source # s
    BY DEF LastEvent
  <2>2. i \in 1 .. Len(log') /\ log'[i] = log[i]
    BY <1>1, <2>1
  <2>3. ASSUME NEW j \in (i + 1) .. Len(log') PROVE log'[j].source # s
    <3>1. CASE j <= Len(log)
      BY <1>1, <2>1, <3>1
    <3>2. CASE j > Len(log)
      <4>1. j \in Len(log) + 1 .. Len(log')
        BY <1>1, <2>1, <3>2
      <4> QED
        BY <1>2, <1>4, <4>1
    <3> QED
      BY <1>1, <2>1, <3>1, <3>2
  <2> QED
    BY <2>1, <2>2, <2>3 DEF LastEvent
<1> QED
  BY <1>3, <1>4

(* What is read of the sources that were published is what was published;   *)
(* the others have the watches they had.                                    *)
LEMMA PublishedKeeps ==
  ASSUME TypeOK, WatchedIsPublished, ~ failed, item' = item,
         NEW ss \in Seq(Source), Publishes(ss),
         \A i, j \in 1 .. Len(ss) : ss[i] = ss[j] => i = j,
         \A s \in Source : watch'[s] # None =>
           \/ \E k \in 1 .. Len(ss) :
                /\ ss[k] = s /\ watch'[s].sig = item[s] /\ watch'[s].since <= Len(log) + k
           \/ /\ \A k \in 1 .. Len(ss) : ss[k] # s
              /\ watch[s] # None
              /\ watch'[s].sig = watch[s].sig /\ watch'[s].since = watch[s].since
  PROVE  WatchedIsPublished'
<1> USE DEF TypeOK
<1>1. /\ \A k \in 1 .. Len(ss) : Len(log) + k \in LastEvent(ss[k])'
      /\ \A s \in Source : (\A k \in 1 .. Len(ss) : ss[k] # s) =>
           \A i \in LastEvent(s) : i \in LastEvent(s)' /\ log'[i] = log[i]
  BY LastPublished
<1>2. \A k \in 1 .. Len(ss) : log'[Len(log) + k] = [source |-> ss[k], item |-> item[ss[k]]]
  BY PublishesIs
<1> SUFFICES ASSUME NEW s \in Source, watch'[s] # None
             PROVE  /\ watch'[s].sig.sample = item[s].sample
                    /\ \E i \in LastEvent(s)' : log'[i].item = watch'[s].sig /\ watch'[s].since <= i
  BY DEF WatchedIsPublished, Watched
<1>3. CASE \E k \in 1 .. Len(ss) :
             /\ ss[k] = s /\ watch'[s].sig = item[s] /\ watch'[s].since <= Len(log) + k
  <2>1. PICK k \in 1 .. Len(ss) :
             /\ ss[k] = s /\ watch'[s].sig = item[s] /\ watch'[s].since <= Len(log) + k
    BY <1>3
  <2>2. Len(log) + k \in LastEvent(s)' /\ log'[Len(log) + k].item = item[s]
    <3>1. Len(log) + k \in LastEvent(s)'
      BY <1>1, <2>1
    <3>2. log'[Len(log) + k] = [source |-> s, item |-> item[s]]
      BY <1>2, <2>1
    <3> QED
      BY <3>1, <3>2
  <2> QED
    BY <2>1, <2>2
<1>4. CASE /\ \A k \in 1 .. Len(ss) : ss[k] # s
           /\ watch[s] # None
           /\ watch'[s].sig = watch[s].sig /\ watch'[s].since = watch[s].since
  <2>1. PICK i \in LastEvent(s) : log[i].item = watch[s].sig /\ watch[s].since <= i
    BY <1>4 DEF WatchedIsPublished, Watched
  <2>2. watch[s].sig.sample = item[s].sample
    BY <1>4 DEF WatchedIsPublished, Watched
  <2> QED
    BY <1>1, <1>4, <2>1, <2>2
<1> QED
  BY <1>3, <1>4

(* Leases, when the sessions stay: a watch goes only if nobody holds it.    *)
Subscribers(s) ==
  {c \in Client : session[c] # None /\ session[c].subscribed /\ s \in Selection[c]}

LEMMA LeasesStay ==
  ASSUME LeasesHeld, session' = session,
         \A s \in Source : watch[s] # None =>
           \/ /\ watch'[s] # None
              /\ watch'[s].refs = watch[s].refs /\ watch'[s].since = watch[s].since
           \/ watch'[s] = None /\ watch[s].refs = 0,
         \A s \in Source : watch[s] = None /\ watch'[s] # None => watch'[s].refs = 0
  PROVE  LeasesHeld'
<1>1. \A s \in Source : IsFiniteSet(Subscribers(s))
  <2>1. \A s \in Source : Subscribers(s) \in SUBSET Client
    BY DEF Subscribers
  <2> QED
    BY <2>1, FS_Subset, DeliveryAssumption
<1>2. \A s \in Source : watch[s] # None => watch[s].refs = Cardinality(Subscribers(s))
  BY DEF LeasesHeld, Watched, Subscribers
<1>3. \A c \in Client : session[c] # None /\ session[c].subscribed =>
        \A s \in Selection[c] : s \in Source /\ watch[s] # None /\ watch[s].since =< session[c].acked
  BY DeliveryAssumption DEF LeasesHeld, Watched
<1>4. ASSUME NEW c \in Client, session[c] # None, session[c].subscribed, NEW s \in Selection[c]
      PROVE  watch'[s] # None /\ watch'[s].since =< session[c].acked
  <2>1. s \in Source /\ watch[s] # None /\ watch[s].since =< session[c].acked
    BY <1>3, <1>4
  <2>2. watch[s].refs # 0
    <3>1. c \in Subscribers(s)
      BY <1>4 DEF Subscribers
    <3> QED
      BY <1>1, <1>2, <2>1, <3>1, FS_EmptySet
  <2> QED
    BY <2>1, <2>2
<1>5. ASSUME NEW s \in Source, watch'[s] # None
      PROVE  watch'[s].refs = Cardinality(Subscribers(s))
  <2>1. CASE watch[s] # None
    BY <1>2, <1>5, <2>1
  <2>2. CASE watch[s] = None
    <3>1. Subscribers(s) = {}
      BY <1>3, <2>2 DEF Subscribers
    <3> QED
      BY <1>5, <2>2, <3>1, FS_EmptySet
  <2> QED
    BY <2>1, <2>2
<1> QED
  BY <1>4, <1>5 DEF LeasesHeld, Watched, Subscribers

-----------------------------------------------------------------------------
(* What a step leaves alone while the history grows.                        *)

LEMMA MomentLater ==
  ASSUME NEW h \in Seq(Event), NEW g \in Seq(Event), Extends(h, g),
         NEW n \in 0 .. Len(h), NEW sel, NEW items, Moment(h, sel, n, items)
  PROVE  Moment(g, sel, n, items)
BY StoodLater DEF Moment

LEMMA FrameType ==
  ASSUME NEW f \in Frame
  PROVE  /\ f.type \in {"resync", "subscribed", "range"}
         /\ f.type \in {"subscribed", "range"} => f.to \in Nat
         /\ f.type = "range" => f.from \in Nat
BY DEF Frame

LEMMA ToldLater ==
  ASSUME TypeOK, NEW c \in Client, Told(c), epoch' = epoch,
         log' \in Seq(Event), Extends(log, log'),
         client'[c] = client[c], session'[c] = session[c], down'[c] = down[c]
  PROVE  Told(c)'
<1>1. /\ log \in Seq(Event) /\ down[c] \in Seq(Frame)
      /\ Len(log) \in Nat /\ Len(log') \in Nat /\ Len(log) <= Len(log')
  BY LenProperties DEF TypeOK, Extends
<1>2. ASSUME NEW i \in DOMAIN down[c], down[c][i].type = "range"
      PROVE  /\ down[c][i].to <= Len(log')
             /\ down[c][i].updates = Relevant(log', down[c][i].from, down[c][i].to, Selection[c])
  <2>1. down[c][i] \in Frame
    BY <1>1, ElementOfSeq, LenProperties
  <2>2. /\ down[c][i].from \in Nat /\ down[c][i].to \in Nat /\ down[c][i].to <= Len(log)
        /\ down[c][i].updates = Relevant(log, down[c][i].from, down[c][i].to, Selection[c])
    BY <1>2, <2>1, FrameType DEF Told
  <2>3. down[c][i].to \in 0 .. Len(log)
    BY <1>1, <2>2
  <2> QED
    BY <1>1, <2>2, <2>3, RelevantLater
<1>3. \A i : Reached(c, i)' = Reached(c, i)
  BY DEF Reached
<1>4. session[c] # None /\ session[c].subscribed => session[c].after <= Len(log')
  <2> SUFFICES ASSUME session[c] # None, session[c].subscribed PROVE session[c].after <= Len(log')
    OBVIOUS
  <2>1. session[c] \in Session
    BY DEF TypeOK
  <2>2. session[c].after \in Nat /\ session[c].after <= Len(log)
    BY <2>1 DEF Session, Told
  <2> QED
    BY <1>1, <2>2
<1> QED
  BY <1>2, <1>3, <1>4 DEF Told

LEMMA PagedLater ==
  ASSUME TypeOK, NEW c \in Client, Paged(c), epoch' = epoch,
         log' \in Seq(Event), Extends(log, log'),
         client'[c] = client[c], session'[c] = session[c], up'[c] = up[c], down'[c] = down[c],
         seen'[c] = seen[c]
  PROVE  Paged(c)'
<1>1. /\ log \in Seq(Event) /\ seen[c] \in Nat /\ seen[c] <= Len(log)
      /\ Len(log) \in Nat /\ Len(log') \in Nat /\ Len(log) <= Len(log')
  BY LenProperties DEF TypeOK, Extends, Paged
<1>2. seen[c] \in 0 .. Len(log) /\ seen'[c] <= Len(log')
  BY <1>1
<1>3. Cached(c)'
  BY <1>1, <1>2, MomentLater DEF Paged, Cached
<1>4. Told(c)'
  BY ToldLater DEF Paged
<1>5. Phases(c)' /\ Asked(c)'
  BY DEF Paged, Phases, Asked
<1> QED
  BY <1>2, <1>3, <1>4, <1>5 DEF Paged

LEMMA ReplyLater ==
  ASSUME TypeOK, NEW r \in calls, Replying(r), epoch' = epoch,
         log' \in Seq(Event), Extends(log, log'),
         r.current => \A q \in calls' : q.current /\ q.client = r.client => q = r,
         client'[r.client].phase = client[r.client].phase, seen'[r.client] = seen[r.client]
  PROVE  Replying(r)'
<1>1. /\ log \in Seq(Event) /\ r \in Call
      /\ Len(log) \in Nat /\ Len(log') \in Nat /\ Len(log) <= Len(log')
  BY LenProperties DEF TypeOK, Extends
<1>2. r.current => /\ client'[r.client].phase = "snapshot"
                   /\ \A q \in calls' : q.current /\ q.client = r.client => q = r
  BY DEF Replying
<1>3. ASSUME r.reply # None
      PROVE  /\ r.reply.cursor.epoch <= epoch
             /\ r.current /\ r.reply.cursor.epoch = epoch =>
                  /\ seen'[r.client] <= r.reply.cursor.seq /\ r.reply.cursor.seq <= Len(log')
                  /\ Moment(log', Selection[r.client], r.reply.cursor.seq, r.reply.items)
  <2>1. r.reply.cursor.seq \in Nat
    BY <1>1, <1>3 DEF Call, Reply, Cursor
  <2>2. r.reply.cursor.epoch <= epoch
    BY <1>3 DEF Replying
  <2> SUFFICES ASSUME r.current, r.reply.cursor.epoch = epoch
               PROVE  /\ seen'[r.client] <= r.reply.cursor.seq /\ r.reply.cursor.seq <= Len(log')
                      /\ Moment(log', Selection[r.client], r.reply.cursor.seq, r.reply.items)
    BY <2>2
  <2>3. /\ seen[r.client] <= r.reply.cursor.seq /\ r.reply.cursor.seq <= Len(log)
        /\ Moment(log, Selection[r.client], r.reply.cursor.seq, r.reply.items)
    BY <1>3 DEF Replying
  <2>4. r.reply.cursor.seq \in 0 .. Len(log) /\ r.reply.cursor.seq <= Len(log')
    BY <1>1, <2>1, <2>3
  <2> QED
    BY <1>1, <2>3, <2>4, MomentLater
<1> QED
  BY <1>2, <1>3 DEF Replying

LEMMA SameExtends ==
  ASSUME log \in Seq(Event), log' = log
  PROVE  log' \in Seq(Event) /\ Extends(log, log')
BY LenProperties DEF Extends

(* The steps of the broker alone: they only add to the history.             *)
Apart == UNCHANGED <<epoch, sockets, client, calls, seen>>

LEMMA ApartKeeps ==
  ASSUME DeliveryInv, Apart, log' \in Seq(Event), Extends(log, log')
  PROVE  (\A c \in Client : Paged(c)') /\ (\A r \in calls' : Replying(r)')
<1>1. /\ epoch' = epoch /\ client' = client /\ calls' = calls /\ seen' = seen
      /\ session' = session /\ up' = up /\ down' = down
  BY DEF Apart, sockets
<1>2. TypeOK
  BY DEF DeliveryInv
<1>3. ASSUME NEW c \in Client PROVE Paged(c)'
  BY <1>1, <1>2, PagedLater DEF DeliveryInv
<1>4. ASSUME NEW r \in calls PROVE Replying(r)'
  <2>1. Replying(r)
    BY DEF DeliveryInv
  <2>2. r.current => \A q \in calls' : q.current /\ q.client = r.client => q = r
    BY <1>1, <2>1 DEF Replying
  <2> QED
    BY <1>1, <1>2, <2>1, <2>2, ReplyLater
<1> QED
  BY <1>1, <1>3, <1>4

-----------------------------------------------------------------------------
(* The steps of the broker.                                                 *)

LEMMA InvalidatedIs ==
  ASSUME TypeOK
  PROVE  /\ Dirty \in SUBSET Source /\ IsFiniteSet(Dirty)
         /\ Invalidated \in [Source -> Watch \cup {None}]
         /\ \A s \in Source :
              /\ Invalidated[s] = None <=> watch[s] = None
              /\ watch[s] # None =>
                   /\ Invalidated[s].sig = item[s]
                   /\ Invalidated[s].refs = watch[s].refs
                   /\ Invalidated[s].since = watch[s].since
              /\ s \in Dirty => watch[s] # None
              /\ s \notin Dirty => Invalidated[s] = watch[s]
<1>1. Dirty \in SUBSET Source /\ IsFiniteSet(Dirty)
  BY FS_Subset, DeliveryAssumption DEF Dirty, Watched
<1>2. \A s \in Source : item[s] \in Item /\ watch[s] \in Watch \cup {None}
  BY DEF TypeOK
<1>3. ASSUME NEW s \in Source
      PROVE  /\ Invalidated[s] \in Watch \cup {None}
             /\ Invalidated[s] = None <=> watch[s] = None
             /\ watch[s] # None =>
                  /\ Invalidated[s].sig = item[s]
                  /\ Invalidated[s].refs = watch[s].refs
                  /\ Invalidated[s].since = watch[s].since
             /\ s \in Dirty => watch[s] # None
             /\ s \notin Dirty => Invalidated[s] = watch[s]
  <2>1. Invalidated[s] = IF s \in Dirty THEN [watch[s] EXCEPT !.sig = item[s]] ELSE watch[s]
    BY DEF Invalidated
  <2>2. s \in Dirty <=> watch[s] # None /\ watch[s].sig # item[s]
    BY DEF Dirty, Watched
  <2>3. CASE s \in Dirty
    <3>1. watch[s] \in Watch /\ watch[s] # None /\ item[s] \in Item
      BY <1>2, <2>2, <2>3
    <3>2. [watch[s] EXCEPT !.sig = item[s]] \in Watch
      BY <3>1 DEF Watch
    <3>3. None \notin Watch
      BY NoneAssumption
    <3> QED
      BY <2>1, <2>3, <3>1, <3>2, <3>3 DEF Watch
  <2>4. CASE s \notin Dirty
    BY <1>2, <2>1, <2>2, <2>4
  <2> QED
    BY <2>3, <2>4
<1>4. Invalidated \in [Source -> Watch \cup {None}]
  BY <1>3 DEF Invalidated
<1> QED
  BY <1>1, <1>3, <1>4

LEMMA RowOf ==
  ASSUME NEW D \in SUBSET Source
  PROVE  /\ SetToSeq(D) \in Seq(Source) /\ Len(SetToSeq(D)) = Cardinality(D)
         /\ Cardinality(D) \in Nat
         /\ \A i, j \in 1 .. Len(SetToSeq(D)) : SetToSeq(D)[i] = SetToSeq(D)[j] => i = j
         /\ \A s : s \in D <=> \E k \in 1 .. Len(SetToSeq(D)) : SetToSeq(D)[k] = s
<1>1. IsFiniteSet(D)
  BY FS_Subset, DeliveryAssumption
<1>2. /\ SetToSeq(D) \in Seq(D) /\ Len(SetToSeq(D)) = Cardinality(D)
      /\ Cardinality(D) \in Nat
      /\ \A i, j \in 1 .. Cardinality(D) : SetToSeq(D)[i] = SetToSeq(D)[j] => i = j
      /\ \A s \in D : \E i \in 1 .. Cardinality(D) : SetToSeq(D)[i] = s
  BY <1>1, RowIs
<1> DEFINE f == SetToSeq(D)
<1>3. f \in [1 .. Cardinality(D) -> D]
  BY <1>2, LenProperties
<1> HIDE DEF f
<1>4. f \in [1 .. Cardinality(D) -> Source]
  BY <1>3
<1>5. f \in Seq(Source)
  BY <1>2, <1>4
<1>6. \A s : s \in D <=> \E k \in 1 .. Cardinality(D) : f[k] = s
  BY <1>2, <1>3 DEF f
<1> QED
  BY <1>2, <1>5, <1>6 DEF f

(* Where what a watch last published stands: last, or where it stood.       *)
LEMMA InvalidatedPlace ==
  ASSUME TypeOK, WatchedIsPublished, ~ failed, NEW s \in Source, Invalidated[s] # None
  PROVE  /\ Invalidated[s].since <= Len(log) /\ Invalidated[s].since \in Nat
         /\ s \in Dirty => Invalidated[s].sig = item[s]
         /\ s \notin Dirty => /\ watch[s] # None /\ Invalidated[s].sig = watch[s].sig
                              /\ Invalidated[s].since = watch[s].since
<1>1. watch[s] # None /\ watch[s] \in Watch
  BY InvalidatedIs DEF TypeOK
<1>2. PICK i \in LastEvent(s) : watch[s].since <= i
  BY <1>1 DEF WatchedIsPublished, Watched
<1>3. i \in 1 .. Len(log) /\ watch[s].since \in Nat /\ Len(log) \in Nat
  BY <1>1, LenProperties DEF TypeOK, LastEvent, Watch
<1>4. watch[s].since <= Len(log)
  BY <1>2, <1>3
<1> QED
  BY <1>1, <1>3, <1>4, InvalidatedIs

LEMMA InvalidateKeeps ==
  ASSUME DeliveryInv, Invalidate
  PROVE  DeliveryInv'
<1>1. /\ TypeOK /\ LeasesHeld /\ WatchedIsPublished /\ ~ failed
      /\ Publishes(SetToSeq(Dirty)) /\ watch' = Invalidated
      /\ item' = item /\ epoch' = epoch /\ failed' = failed /\ changes' = changes
      /\ session' = session /\ client' = client /\ calls' = calls /\ seen' = seen
      /\ up' = up /\ down' = down
  BY DEF DeliveryInv, Invalidate, sockets
<1> DEFINE ss == SetToSeq(Dirty)
<1>2. /\ ss \in Seq(Source) /\ \A i, j \in 1 .. Len(ss) : ss[i] = ss[j] => i = j
      /\ \A s : s \in Dirty <=> \E k \in 1 .. Len(ss) : ss[k] = s
  BY <1>1, InvalidatedIs, RowOf
<1> HIDE DEF ss
<1>3. /\ log' \in Seq(Event) /\ floor' \in Nat /\ Extends(log, log')
      /\ Len(log) \in Nat /\ Len(ss) \in Nat
  BY <1>1, <1>2, PublishesIs DEF TypeOK, ss
<1>4. WatchedIsPublished'
  <2>1. Publishes(ss)
    BY <1>1 DEF ss
  <2>2. ASSUME NEW s \in Source, watch'[s] # None
        PROVE  \/ \E k \in 1 .. Len(ss) :
                    /\ ss[k] = s /\ watch'[s].sig = item[s] /\ watch'[s].since <= Len(log) + k
               \/ /\ \A k \in 1 .. Len(ss) : ss[k] # s
                  /\ watch[s] # None
                  /\ watch'[s].sig = watch[s].sig /\ watch'[s].since = watch[s].since
    BY <1>1, <1>2, <1>3, <2>2, InvalidatedPlace
  <2> QED
    BY <1>1, <1>2, <2>1, <2>2, PublishedKeeps
<1>5. LeasesHeld'
  BY <1>1, InvalidatedIs, LeasesStay
<1>6. (\A c \in Client : Paged(c)') /\ (\A r \in calls' : Replying(r)')
  BY <1>1, <1>3, ApartKeeps DEF Apart, sockets
<1>7. TypeOK'
  BY <1>1, <1>3, InvalidatedIs DEF TypeOK
<1> QED
  BY <1>4, <1>5, <1>6, <1>7 DEF DeliveryInv

LEMMA AppendIs ==
  ASSUME NEW S, NEW q \in Seq(S), NEW e \in S
  PROVE  /\ Append(q, e) \in Seq(S) /\ Len(Append(q, e)) = Len(q) + 1 /\ Len(q) \in Nat
         /\ \A i \in 1 .. Len(q) : Append(q, e)[i] = q[i]
         /\ Append(q, e)[Len(q) + 1] = e
BY AppendProperties, LenProperties

(* The observer of the store publishes the sample in its own turn.          *)
LEMMA SampleKeeps ==
  ASSUME DeliveryInv, NEW s \in Source, Sample(s)
  PROVE  DeliveryInv'
<1> DEFINE now == [item[s] EXCEPT !.sample = @ + 1]
           e == [source |-> s, item |-> now]
<1>1. /\ TypeOK /\ LeasesHeld /\ WatchedIsPublished /\ ~ failed
      /\ item' = [item EXCEPT ![s] = now] /\ changes' = changes + 1
      /\ \/ /\ log' = Append(log, e) /\ floor' = Floor(Len(log'))
            /\ watch' = IF s \in Watched THEN [watch EXCEPT ![s].sig = now] ELSE watch
            /\ failed' = failed
         \/ failed' = TRUE /\ log' = log /\ floor' = floor /\ watch' = watch
      /\ epoch' = epoch /\ session' = session /\ client' = client /\ calls' = calls
      /\ seen' = seen /\ up' = up /\ down' = down
  BY DEF DeliveryInv, Sample, sockets, Change
<1>2. item[s] \in Item /\ now \in Item
  <2>1. item[s] \in Item
    BY <1>1 DEF TypeOK
  <2>2. item[s].sample \in Nat /\ item[s].av \in BOOLEAN
    BY <2>1 DEF Item
  <2>3. item[s].sample + 1 \in Nat
    BY <2>2
  <2>4. now = [av |-> item[s].av, sample |-> item[s].sample + 1]
    BY <2>1 DEF Item
  <2> QED
    BY <2>1, <2>2, <2>3, <2>4 DEF Item
<1>3. e \in Event /\ e.source = s /\ e.item = now
  BY <1>2 DEF Event
<1> HIDE DEF now, e
<1>4. item' \in [Source -> Item] /\ item'[s] = now /\ \A t \in Source \ {s} : item'[t] = item[t]
  BY <1>1, <1>2 DEF TypeOK
<1>5. /\ watch' \in [Source -> Watch \cup {None}]
      /\ \A t \in Source :
           /\ watch'[t] = None <=> watch[t] = None
           /\ watch[t] # None => watch'[t].refs = watch[t].refs /\ watch'[t].since = watch[t].since
           /\ t # s => watch'[t] = watch[t]
  <2>1. CASE watch' = watch
    BY <1>1, <2>1 DEF TypeOK
  <2>2. CASE s \in Watched /\ watch' = [watch EXCEPT ![s].sig = now]
    <3>1. watch[s] \in Watch /\ watch[s] # None
      BY <1>1, <2>2 DEF TypeOK, Watched
    <3>2. [watch[s] EXCEPT !.sig = now] \in Watch
      BY <1>2, <3>1 DEF Watch
    <3>3. /\ [watch[s] EXCEPT !.sig = now].refs = watch[s].refs
          /\ [watch[s] EXCEPT !.sig = now].since = watch[s].since
      BY <3>1 DEF Watch
    <3>4. watch'[s] = [watch[s] EXCEPT !.sig = now] /\ \A t \in Source \ {s} : watch'[t] = watch[t]
      BY <1>1, <2>2 DEF TypeOK
    <3>5. watch' \in [Source -> Watch \cup {None}]
      BY <1>1, <2>2, <3>2 DEF TypeOK
    <3>6. watch'[s] # None
      BY <3>2, <3>4, NoneAssumption
    <3> QED
      BY <3>1, <3>3, <3>4, <3>5, <3>6
  <2> QED
    BY <1>1, <2>1, <2>2
<1>6. /\ log' \in Seq(Event) /\ Extends(log, log') /\ floor' \in Nat
  <2>1. CASE log' = log /\ floor' = floor
    BY <1>1, <2>1, SameExtends DEF TypeOK
  <2>2. CASE log' = Append(log, e) /\ floor' = Floor(Len(log'))
    <3>1. /\ log' \in Seq(Event) /\ Len(log') = Len(log) + 1 /\ Len(log) \in Nat
          /\ \A i \in 1 .. Len(log) : log'[i] = log[i]
      BY <1>1, <1>3, <2>2, AppendIs DEF TypeOK
    <3>2. Len(log) <= Len(log') /\ Len(log') \in Nat
      BY <3>1
    <3>3. floor' \in Nat
      BY <1>1, <2>2, <3>2, DeliveryAssumption DEF TypeOK, Floor, Max2
    <3> QED
      BY <3>1, <3>2, <3>3 DEF Extends
  <2> QED
    BY <1>1, <2>1, <2>2
<1>7. WatchedIsPublished'
  <2> SUFFICES ASSUME ~ failed', NEW t \in Source, watch'[t] # None
               PROVE  /\ watch'[t].sig.sample = item'[t].sample
                      /\ \E i \in LastEvent(t)' : log'[i].item = watch'[t].sig /\ watch'[t].since <= i
    BY DEF WatchedIsPublished, Watched
  <2>1. /\ log' = Append(log, e)
        /\ watch' = IF s \in Watched THEN [watch EXCEPT ![s].sig = now] ELSE watch
    BY <1>1
  <2>2. /\ Len(log') = Len(log) + 1 /\ Len(log) \in Nat /\ log'[Len(log) + 1] = e
        /\ \A i \in 1 .. Len(log) : log'[i] = log[i]
    BY <1>1, <1>3, <2>1, AppendIs DEF TypeOK
  <2>3. watch[t] # None /\ watch[t] \in Watch
    BY <1>1, <1>5 DEF TypeOK
  <2>4. PICK i \in LastEvent(t) : log[i].item = watch[t].sig /\ watch[t].since <= i
    BY <1>1, <2>3 DEF WatchedIsPublished, Watched
  <2>5. /\ i \in 1 .. Len(log) /\ log[i].source = t
        /\ \A j \in (i + 1) .. Len(log) : log[j].source # t
    BY <2>4 DEF LastEvent
  <2>6. CASE t = s
    <3>1. watch'[t].sig = now /\ watch'[t].since = watch[t].since
      <4>1. watch'[s] = [watch[s] EXCEPT !.sig = now]
        BY <1>1, <2>1, <2>3, <2>6 DEF Watched, TypeOK
      <4> QED
        BY <2>3, <2>6, <4>1 DEF Watch
    <3>2. Len(log) + 1 \in LastEvent(t)'
      BY <1>3, <2>2, <2>6 DEF LastEvent
    <3>3. watch[t].since \in Nat /\ watch[t].since <= Len(log) + 1
      BY <2>2, <2>3, <2>4, <2>5 DEF Watch
    <3> QED
      BY <1>3, <1>4, <2>2, <2>6, <3>1, <3>2, <3>3
  <2>7. CASE t # s
    <3>1. i \in LastEvent(t)' /\ log'[i] = log[i]
      <4>1. i \in 1 .. Len(log') /\ log'[i] = log[i]
        BY <2>2, <2>5
      <4>2. ASSUME NEW j \in (i + 1) .. Len(log') PROVE log'[j].source # t
        <5>1. CASE j = Len(log) + 1
          BY <1>3, <2>2, <2>7, <5>1
        <5>2. CASE j # Len(log) + 1
          BY <2>2, <2>5, <5>2
        <5> QED
          BY <5>1, <5>2
      <4> QED
        BY <2>5, <4>1, <4>2 DEF LastEvent
    <3>2. watch'[t] = watch[t] /\ item'[t] = item[t]
      BY <1>4, <1>5, <2>7
    <3>3. watch[t].sig.sample = item[t].sample
      BY <1>1, <2>3 DEF WatchedIsPublished, Watched
    <3> QED
      BY <2>4, <3>1, <3>2, <3>3
  <2> QED
    BY <2>6, <2>7
<1>8. LeasesHeld'
  BY <1>1, <1>5, LeasesStay
<1>9. (\A c \in Client : Paged(c)') /\ (\A r \in calls' : Replying(r)')
  BY <1>1, <1>6, ApartKeeps DEF Apart, sockets
<1>10. TypeOK'
  <2>1. failed \in BOOLEAN /\ changes \in Nat
    BY <1>1 DEF TypeOK
  <2>2. failed' \in BOOLEAN
    BY <1>1, <2>1
  <2>3. changes' \in Nat
    BY <1>1, <2>1
  <2> QED
    BY <1>1, <1>4, <1>5, <1>6, <2>2, <2>3 DEF TypeOK
<1> QED
  BY <1>7, <1>8, <1>9, <1>10 DEF DeliveryInv

(* A silent change is not of a sample; what is pruned is held by nobody.    *)
LEMMA SilentKeeps ==
  ASSUME DeliveryInv, NEW s \in Source, Silent(s)
  PROVE  DeliveryInv'
<1>1. /\ TypeOK /\ LeasesHeld /\ WatchedIsPublished
      /\ item' = [item EXCEPT ![s].av = ~ @] /\ changes' = changes + 1
      /\ log' = log /\ floor' = floor /\ watch' = watch /\ failed' = failed
      /\ epoch' = epoch /\ session' = session /\ client' = client /\ calls' = calls
      /\ seen' = seen /\ up' = up /\ down' = down
  BY DEF DeliveryInv, Silent, sockets, broker, Change
<1>2. item[s] \in Item /\ [item[s] EXCEPT !.av = ~ @] \in Item
      /\ [item[s] EXCEPT !.av = ~ @].sample = item[s].sample
  BY <1>1 DEF TypeOK, Item
<1>3. item' \in [Source -> Item] /\ \A t \in Source : item'[t].sample = item[t].sample
  BY <1>1, <1>2 DEF TypeOK
<1>4. WatchedIsPublished'
  BY <1>1, <1>3 DEF WatchedIsPublished, Watched, LastEvent
<1>5. LeasesHeld'
  BY <1>1 DEF LeasesHeld, Watched
<1>6. (\A c \in Client : Paged(c)') /\ (\A r \in calls' : Replying(r)')
  BY <1>1, SameExtends, ApartKeeps DEF Apart, sockets, TypeOK
<1>7. TypeOK'
  <2>1. changes' \in Nat
    BY <1>1 DEF TypeOK
  <2> QED
    BY <1>1, <1>3, <2>1 DEF TypeOK
<1> QED
  BY <1>4, <1>5, <1>6, <1>7 DEF DeliveryInv

LEMMA PruneKeeps ==
  ASSUME DeliveryInv, PruneJournal \/ \E s \in Source : PruneWatch(s)
  PROVE  DeliveryInv'
<1>1. /\ TypeOK /\ LeasesHeld /\ WatchedIsPublished
      /\ item' = item /\ log' = log /\ failed' = failed
      /\ epoch' = epoch /\ session' = session /\ client' = client /\ calls' = calls
      /\ seen' = seen /\ up' = up /\ down' = down
  BY DEF DeliveryInv, PruneJournal, PruneWatch, sockets
<1>2. /\ watch' \in [Source -> Watch \cup {None}]
      /\ \A s \in Source :
           \/ watch'[s] = watch[s]
           \/ watch'[s] = None /\ watch[s] # None /\ watch[s].refs = 0
  <2>1. CASE PruneJournal
    BY <1>1, <2>1 DEF PruneJournal, TypeOK
  <2>2. ASSUME NEW s \in Source, PruneWatch(s)
        PROVE  /\ watch' \in [Source -> Watch \cup {None}]
               /\ \A t \in Source :
                    \/ watch'[t] = watch[t]
                    \/ watch'[t] = None /\ watch[t] # None /\ watch[t].refs = 0
    BY <1>1, <2>2 DEF PruneWatch, TypeOK, Watched
  <2> QED
    BY <2>1, <2>2
<1>3. floor' \in Nat /\ changes' \in Nat
  BY <1>1, LenProperties DEF PruneJournal, PruneWatch, Change, TypeOK
<1>4. WatchedIsPublished'
  BY <1>1, <1>2 DEF WatchedIsPublished, Watched, LastEvent
<1>5. LeasesHeld'
  BY <1>1, <1>2, LeasesStay
<1>6. (\A c \in Client : Paged(c)') /\ (\A r \in calls' : Replying(r)')
  BY <1>1, SameExtends, ApartKeeps DEF Apart, sockets, TypeOK
<1>7. TypeOK'
  BY <1>1, <1>2, <1>3 DEF TypeOK
<1> QED
  BY <1>4, <1>5, <1>6, <1>7 DEF DeliveryInv

(* snapshot(): its cursor is where the history ends after it, and what it   *)
(* captures is the moment of that cursor.                                   *)
LEMMA SnapshotIs ==
  ASSUME TypeOK, WatchedIsPublished, LeasesHeld, ~ failed, item' = item, session' = session,
         NEW sel \in SUBSET Source, Snapshot(sel)
  PROVE  /\ log' \in Seq(Event) /\ Extends(log, log') /\ floor' \in Nat
         /\ watch' \in [Source -> Watch \cup {None}]
         /\ Len(log') = Boundary(sel) /\ Len(log') \in Nat
         /\ WatchedIsPublished' /\ LeasesHeld'
         /\ \A s \in sel : Stood(log', s, Len(log'), item[s])
<1> DEFINE new == sel \ Watched
           changed == SetToSeq(Dirty)
           added == SetToSeq(new)
           ss == changed \o added
           place(s) == Len(log) + Len(changed) + (CHOOSE i \in DOMAIN added : added[i] = s)
<1>1. /\ Publishes(ss)
      /\ watch' = [s \in Source |->
                     IF s \in sel /\ s \notin Watched
                     THEN [sig |-> item[s], refs |-> 0, since |-> place(s)]
                     ELSE Invalidated[s]]
  BY DEF Snapshot
<1>2. /\ changed \in Seq(Source) /\ Len(changed) = Cardinality(Dirty) /\ Len(changed) \in Nat
      /\ \A i, j \in 1 .. Len(changed) : changed[i] = changed[j] => i = j
      /\ \A s : s \in Dirty <=> \E k \in 1 .. Len(changed) : changed[k] = s
  BY InvalidatedIs, RowOf
<1>3. /\ added \in Seq(Source) /\ Len(added) = Cardinality(new) /\ Len(added) \in Nat
      /\ \A i, j \in 1 .. Len(added) : added[i] = added[j] => i = j
      /\ \A s : s \in new <=> \E k \in 1 .. Len(added) : added[k] = s
  BY RowOf
<1>4. /\ log \in Seq(Event) /\ Len(log) \in Nat /\ item \in [Source -> Item] /\ floor \in Nat
      /\ watch \in [Source -> Watch \cup {None}]
  BY LenProperties DEF TypeOK
<1>5. ASSUME NEW s \in new
      PROVE  /\ place(s) \in Nat
             /\ \E k \in 1 .. Len(added) : added[k] = s /\ place(s) = Len(log) + Len(changed) + k
  <2>1. DOMAIN added = 1 .. Len(added)
    BY <1>3, LenProperties
  <2>2. \E k \in DOMAIN added : added[k] = s
    BY <1>3, <2>1
  <2> HIDE DEF added
  <2>3. PICK k \in DOMAIN added : added[k] = s /\ k = (CHOOSE i \in DOMAIN added : added[i] = s)
    BY <2>2
  <2>4. k \in 1 .. Len(added) /\ place(s) = Len(log) + Len(changed) + k
    BY <2>1, <2>3
  <2>5. place(s) \in Nat
    BY <1>2, <1>3, <1>4, <2>4
  <2> QED
    BY <2>3, <2>4, <2>5
<1>6. Dirty \subseteq Watched /\ new \cap Watched = {}
  BY DEF Dirty
<1> HIDE DEF place, changed, added, new
<1>7. /\ ss \in Seq(Source) /\ Len(ss) = Len(changed) + Len(added)
      /\ \A i \in 1 .. Len(changed) + Len(added) :
           ss[i] = IF i <= Len(changed) THEN changed[i] ELSE added[i - Len(changed)]
  <2>1. changed \in Seq(Source) /\ added \in Seq(Source)
    BY <1>2, <1>3
  <2> QED
    BY <2>1, ConcatProperties
<1> HIDE DEF ss
<1>8. \A k \in 1 .. Len(changed) : k \in 1 .. Len(ss) /\ ss[k] = changed[k]
  BY <1>2, <1>3, <1>7
<1>9. \A k \in 1 .. Len(added) :
        Len(changed) + k \in 1 .. Len(ss) /\ ss[Len(changed) + k] = added[k]
  <2> SUFFICES ASSUME NEW k \in 1 .. Len(added)
               PROVE  Len(changed) + k \in 1 .. Len(ss) /\ ss[Len(changed) + k] = added[k]
    OBVIOUS
  <2>1. /\ Len(changed) + k \in 1 .. Len(changed) + Len(added)
        /\ ~ (Len(changed) + k <= Len(changed)) /\ (Len(changed) + k) - Len(changed) = k
    BY <1>2, <1>3
  <2> QED
    BY <1>7, <2>1
<1>10. \A i \in 1 .. Len(ss) :
         \/ i \in 1 .. Len(changed) /\ ss[i] = changed[i] /\ ss[i] \in Dirty
         \/ /\ i - Len(changed) \in 1 .. Len(added) /\ ss[i] = added[i - Len(changed)]
            /\ ss[i] \in new /\ i > Len(changed)
  <2> SUFFICES ASSUME NEW i \in 1 .. Len(ss)
               PROVE  \/ i \in 1 .. Len(changed) /\ ss[i] = changed[i] /\ ss[i] \in Dirty
                      \/ /\ i - Len(changed) \in 1 .. Len(added) /\ ss[i] = added[i - Len(changed)]
                         /\ ss[i] \in new /\ i > Len(changed)
    OBVIOUS
  <2>1. CASE i <= Len(changed)
    <3>1. i \in 1 .. Len(changed) /\ ss[i] = changed[i]
      BY <1>2, <1>3, <1>7, <2>1
    <3> QED
      BY <1>2, <3>1
  <2>2. CASE i > Len(changed)
    <3> DEFINE k == i - Len(changed)
    <3>1. k \in 1 .. Len(added) /\ ss[i] = added[k]
      BY <1>2, <1>3, <1>7, <2>2
    <3> HIDE DEF k
    <3>2. ss[i] \in new
      BY <1>3, <3>1
    <3> QED
      BY <2>2, <3>1, <3>2 DEF k
  <2> QED
    BY <1>2, <2>1, <2>2
<1>11. \A i, j \in 1 .. Len(ss) : ss[i] = ss[j] => i = j
  <2> SUFFICES ASSUME NEW i \in 1 .. Len(ss), NEW j \in 1 .. Len(ss), ss[i] = ss[j]
               PROVE  i = j
    OBVIOUS
  <2>1. CASE ss[i] \in Dirty
    <3>1. ss[i] \notin new /\ ss[j] \notin new
      BY <1>6, <2>1
    <3> QED
      BY <1>2, <1>10, <3>1
  <2>2. CASE ss[i] \notin Dirty
    <3>1. /\ i - Len(changed) \in 1 .. Len(added) /\ j - Len(changed) \in 1 .. Len(added)
          /\ added[i - Len(changed)] = added[j - Len(changed)]
      BY <1>10, <2>2
    <3>2. i - Len(changed) = j - Len(changed)
      BY <1>3, <3>1
    <3> QED
      BY <1>2, <3>2
  <2> QED
    BY <2>1, <2>2
<1>12. /\ log' \in Seq(Event) /\ floor' \in Nat /\ Extends(log, log')
       /\ Len(log') = Len(log) + Len(ss)
  BY <1>1, <1>4, <1>7, PublishesIs
<1>13. Len(log') = Boundary(sel) /\ Len(log') \in Nat
  <2>1. Boundary(sel) = Len(log) + Len(changed) + Len(added)
    BY <1>2, <1>3 DEF Boundary, new
  <2> QED
    BY <1>2, <1>3, <1>4, <1>7, <1>12, <2>1
<1>14. ASSUME NEW s \in Source
       PROVE  /\ s \in new => watch'[s] = [sig |-> item[s], refs |-> 0, since |-> place(s)]
              /\ s \notin new => watch'[s] = Invalidated[s]
              /\ s \in new <=> s \in sel /\ watch[s] = None
  BY <1>1 DEF new, Watched
<1>15. watch' \in [Source -> Watch \cup {None}]
  <2>1. \A s \in Source : watch'[s] \in Watch \cup {None}
    <3> SUFFICES ASSUME NEW s \in Source PROVE watch'[s] \in Watch \cup {None}
      OBVIOUS
    <3>1. CASE s \in new
      <4> DEFINE p == place(s)
      <4>1. p \in Nat /\ item[s] \in Item
        BY <1>4, <1>5, <3>1
      <4>2. watch'[s] = [sig |-> item[s], refs |-> 0, since |-> p]
        BY <1>14, <3>1
      <4> HIDE DEF p
      <4>3. [sig |-> item[s], refs |-> 0, since |-> p] \in Watch
        BY <4>1 DEF Watch
      <4> QED
        BY <4>2, <4>3
    <3>2. CASE s \notin new
      BY <1>14, <3>2, InvalidatedIs
    <3> QED
      BY <3>1, <3>2
  <2> QED
    BY <1>1, <2>1
<1>16. ASSUME NEW s \in Source, watch'[s] # None
       PROVE  \/ \E k \in 1 .. Len(ss) :
                   /\ ss[k] = s /\ watch'[s].sig = item[s] /\ watch'[s].since <= Len(log) + k
              \/ /\ \A k \in 1 .. Len(ss) : ss[k] # s
                 /\ watch[s] # None
                 /\ watch'[s].sig = watch[s].sig /\ watch'[s].since = watch[s].since
  <2>1. CASE s \in new
    <3>1. PICK k \in 1 .. Len(added) : added[k] = s /\ place(s) = Len(log) + Len(changed) + k
      BY <1>5, <2>1
    <3>2. watch'[s].sig = item[s] /\ watch'[s].since = place(s)
      <4> DEFINE p == place(s)
      <4>1. watch'[s] = [sig |-> item[s], refs |-> 0, since |-> p]
        BY <1>14, <2>1
      <4> HIDE DEF p
      <4>2. watch'[s].sig = item[s] /\ watch'[s].since = p
        BY <4>1
      <4> QED
        BY <4>2 DEF p
    <3>3. place(s) \in Nat /\ place(s) <= Len(log) + (Len(changed) + k)
      BY <1>2, <1>4, <1>5, <2>1, <3>1
    <3> QED
      BY <1>9, <3>1, <3>2, <3>3
  <2>2. CASE s \notin new
    <3>1. /\ Invalidated[s] # None /\ watch'[s] = Invalidated[s]
          /\ Invalidated[s].since <= Len(log) /\ Invalidated[s].since \in Nat
          /\ s \in Dirty => Invalidated[s].sig = item[s]
          /\ s \notin Dirty => /\ watch[s] # None /\ Invalidated[s].sig = watch[s].sig
                               /\ Invalidated[s].since = watch[s].since
      BY <1>14, <1>16, <2>2, InvalidatedPlace
    <3>2. CASE s \in Dirty
      <4>1. PICK k \in 1 .. Len(changed) : changed[k] = s
        BY <1>2, <3>2
      <4>2. k \in 1 .. Len(ss) /\ ss[k] = s /\ watch'[s].since <= Len(log) + k
        BY <1>2, <1>4, <1>8, <3>1, <4>1
      <4> QED
        BY <3>1, <3>2, <4>2
    <3>3. CASE s \notin Dirty
      BY <1>10, <2>2, <3>1, <3>3
    <3> QED
      BY <3>2, <3>3
  <2> QED
    BY <2>1, <2>2
<1>17. WatchedIsPublished'
  BY <1>1, <1>7, <1>11, <1>16, PublishedKeeps
<1>18. LeasesHeld'
  <2>1. ASSUME NEW s \in Source, watch[s] # None
        PROVE  /\ watch'[s] # None
               /\ watch'[s].refs = watch[s].refs /\ watch'[s].since = watch[s].since
    BY <1>14, <2>1, InvalidatedIs
  <2>2. ASSUME NEW s \in Source, watch[s] = None, watch'[s] # None
        PROVE  watch'[s].refs = 0
    <3>1. Invalidated[s] = None
      BY <2>2, InvalidatedIs
    <3>2. s \in new
      BY <1>14, <2>2, <3>1
    <3> DEFINE p == place(s)
    <3>3. watch'[s] = [sig |-> item[s], refs |-> 0, since |-> p]
      BY <1>14, <3>2
    <3> HIDE DEF p
    <3> QED
      BY <3>3
  <2> QED
    BY <2>1, <2>2, LeasesStay
<1>19. ASSUME NEW s \in sel PROVE Stood(log', s, Len(log'), item[s])
  <2>1. watch'[s] # None /\ watch'[s].sig = item[s]
    <3>1. CASE s \in new
      <4>1. watch'[s] = [sig |-> item[s], refs |-> 0, since |-> place(s)]
            /\ place(s) \in Nat /\ item[s] \in Item
        BY <1>4, <1>5, <1>14, <3>1
      <4>2. watch'[s] \in Watch
        BY <4>1 DEF Watch
      <4> QED
        BY <4>1, <4>2, NoneAssumption
    <3>2. CASE s \notin new
      BY <1>14, <3>2, InvalidatedIs
    <3> QED
      BY <3>1, <3>2
  <2>2. \E k \in LastEvent(s)' : log'[k].item = item[s]
    <3>1. CASE \E k \in 1 .. Len(ss) : ss[k] = s
      <4>1. PICK k \in 1 .. Len(ss) : ss[k] = s
        BY <3>1
      <4>2. Len(log) + k \in LastEvent(s)'
        BY <1>1, <1>4, <1>7, <1>11, <4>1, LastPublished
      <4>3. log'[Len(log) + k] = [source |-> s, item |-> item[s]]
        BY <1>1, <1>4, <1>7, <4>1, PublishesIs
      <4> QED
        BY <4>2, <4>3
    <3>2. CASE \A k \in 1 .. Len(ss) : ss[k] # s
      <4>1. watch[s] # None /\ watch'[s].sig = watch[s].sig
        BY <1>16, <2>1, <3>2
      <4>2. PICK k \in LastEvent(s) : log[k].item = watch[s].sig
        BY <4>1 DEF WatchedIsPublished, Watched
      <4>3. k \in LastEvent(s)' /\ log'[k] = log[k]
        BY <1>1, <1>4, <1>7, <1>11, <3>2, <4>2, LastPublished
      <4> QED
        BY <2>1, <4>1, <4>2, <4>3
    <3> QED
      BY <3>1, <3>2
  <2> QED
    BY <2>2 DEF LastEvent, Stood
<1> QED
  BY <1>12, <1>13, <1>15, <1>17, <1>18, <1>19

LEMMA OtherSnapshotKeeps ==
  ASSUME DeliveryInv, NEW sel \in Others, OtherSnapshot(sel)
  PROVE  DeliveryInv'
<1>1. /\ TypeOK /\ LeasesHeld /\ WatchedIsPublished /\ ~ failed /\ Snapshot(sel)
      /\ item' = item /\ epoch' = epoch /\ failed' = failed /\ changes' = changes
      /\ session' = session /\ client' = client /\ calls' = calls /\ seen' = seen
      /\ up' = up /\ down' = down
  BY DEF DeliveryInv, OtherSnapshot, sockets
<1>2. sel \in SUBSET Source
  BY DeliveryAssumption
<1>3. /\ log' \in Seq(Event) /\ Extends(log, log') /\ floor' \in Nat
      /\ watch' \in [Source -> Watch \cup {None}]
      /\ WatchedIsPublished' /\ LeasesHeld'
  BY <1>1, <1>2, SnapshotIs
<1>4. (\A c \in Client : Paged(c)') /\ (\A r \in calls' : Replying(r)')
  BY <1>1, <1>3, ApartKeeps DEF Apart, sockets
<1>5. TypeOK'
  BY <1>1, <1>3 DEF TypeOK
<1> QED
  BY <1>3, <1>4, <1>5 DEF DeliveryInv

-----------------------------------------------------------------------------
(* The steps of one session and its browser, c.                             *)

LEMMA ActorKeeps ==
  ASSUME DeliveryInv, NEW c \in Client, epoch' = epoch,
         log' \in Seq(Event), Extends(log, log'),
         \A d \in Client \ {c} : /\ client'[d] = client[d] /\ session'[d] = session[d]
                                 /\ up'[d] = up[d] /\ down'[d] = down[d] /\ seen'[d] = seen[d],
         Paged(c)'
  PROVE  \A d \in Client : Paged(d)'
<1>1. TypeOK /\ \A d \in Client : Paged(d)
  BY DEF DeliveryInv
<1>2. ASSUME NEW d \in Client \ {c} PROVE Paged(d)'
  BY <1>1, PagedLater
<1> QED
  BY <1>2

LEMMA RepliesKeep ==
  ASSUME DeliveryInv, NEW c \in Client, epoch' = epoch,
         log' \in Seq(Event), Extends(log, log'),
         \A d \in Client \ {c} : client'[d] = client[d] /\ seen'[d] = seen[d],
         \A r \in calls' :
           /\ r.client \in Client /\ \E q \in calls : q.reply = r.reply
           /\ r.current => /\ r \in calls
                           /\ r.client = c => /\ client'[c].phase = client[c].phase
                                              /\ seen'[c] = seen[c]
  PROVE  \A r \in calls' : Replying(r)'
<1>1. TypeOK /\ \A r \in calls : Replying(r)
  BY DEF DeliveryInv
<1> SUFFICES ASSUME NEW r \in calls' PROVE Replying(r)'
  OBVIOUS
<1>2. CASE r.current
  <2>1. r \in calls /\ r.client \in Client
    BY <1>2
  <2>2. client'[r.client].phase = client[r.client].phase /\ seen'[r.client] = seen[r.client]
    BY <1>2
  <2>3. \A q \in calls' : q.current /\ q.client = r.client => q = r
    BY <1>1, <2>1, <1>2 DEF Replying
  <2> QED
    BY <1>1, <2>1, <2>2, <2>3, ReplyLater
<1>3. CASE ~ r.current
  <2>1. PICK q \in calls : q.reply = r.reply
    OBVIOUS
  <2>2. q.reply # None => q.reply.cursor.epoch <= epoch
    BY <1>1 DEF Replying
  <2> QED
    BY <1>3, <2>1, <2>2 DEF Replying
<1> QED
  BY <1>2, <1>3

LEMMA WatchKept ==
  ASSUME WatchedIsPublished, log' = log, item' = item, failed' = failed,
         \A s \in Source : watch'[s] # None =>
           /\ watch[s] # None
           /\ watch'[s].sig = watch[s].sig /\ watch'[s].since = watch[s].since
  PROVE  WatchedIsPublished'
BY DEF WatchedIsPublished, Watched, LastEvent

(* The lease goes with the session.                                         *)
LEMMA ReleaseKeeps ==
  ASSUME TypeOK, LeasesHeld, WatchedIsPublished, NEW c \in Client,
         session' = [session EXCEPT ![c] = None], watch' = Released(c),
         log' = log, item' = item, failed' = failed
  PROVE  /\ session' \in [Client -> Session \cup {None}]
         /\ watch' \in [Source -> Watch \cup {None}]
         /\ LeasesHeld' /\ WatchedIsPublished'
<1>1. /\ session \in [Client -> Session \cup {None}]
      /\ watch \in [Source -> Watch \cup {None}]
  BY DEF TypeOK
<1>2. /\ session' \in [Client -> Session \cup {None}] /\ session'[c] = None
      /\ \A d \in Client \ {c} : session'[d] = session[d]
  BY <1>1
<1> DEFINE held(s) == session[c] # None /\ session[c].subscribed /\ s \in Selection[c]
<1>3. \A s \in Source : IsFiniteSet(Subscribers(s))
  <2>1. \A s \in Source : Subscribers(s) \in SUBSET Client
    BY DEF Subscribers
  <2> QED
    BY <2>1, FS_Subset, DeliveryAssumption
<1>4. \A s \in Source : watch[s] # None => watch[s].refs = Cardinality(Subscribers(s))
  BY DEF LeasesHeld, Watched, Subscribers
<1>5. \A s \in Source : held(s) <=> c \in Subscribers(s)
  BY DEF Subscribers
<1>6. \A s \in Source : Subscribers(s)' = Subscribers(s) \ {c}
  BY <1>2 DEF Subscribers
<1>7. ASSUME NEW s \in Source
      PROVE  /\ watch'[s] \in Watch \cup {None}
             /\ watch'[s] = None <=> watch[s] = None
             /\ watch[s] # None =>
                  /\ watch'[s].sig = watch[s].sig /\ watch'[s].since = watch[s].since
                  /\ watch'[s].refs = Cardinality(Subscribers(s) \ {c})
  <2>1. watch'[s] = IF held(s) THEN [watch[s] EXCEPT !.refs = @ - 1] ELSE watch[s]
    BY DEF Released
  <2>2. CASE held(s)
    <3>1. watch[s] # None /\ watch[s] \in Watch
      BY <1>1, <2>2 DEF LeasesHeld, Watched
    <3> DEFINE n == Cardinality(Subscribers(s) \ {c})
    <3>2. n \in Nat /\ watch[s].refs - 1 = n
      <4>1. Cardinality(Subscribers(s)) \in Nat /\ n = Cardinality(Subscribers(s)) - 1 /\ n \in Nat
        <5>1. IsFiniteSet(Subscribers(s)) /\ c \in Subscribers(s)
          BY <1>3, <1>5, <2>2
        <5>2. IsFiniteSet(Subscribers(s) \ {c}) /\ n = Cardinality(Subscribers(s)) - 1
          BY <5>1, FS_RemoveElement
        <5> QED
          BY <5>1, <5>2, FS_CardinalityType
      <4> QED
        BY <1>4, <3>1, <4>1
    <3> HIDE DEF n
    <3>3. watch'[s] = [sig |-> watch[s].sig, refs |-> n, since |-> watch[s].since]
      BY <2>1, <2>2, <3>1, <3>2 DEF Watch
    <3>4. [sig |-> watch[s].sig, refs |-> n, since |-> watch[s].since] \in Watch
      BY <3>1, <3>2 DEF Watch
    <3>5. watch'[s] # None /\ watch'[s] \in Watch
      BY <3>3, <3>4, NoneAssumption
    <3>6. watch'[s].sig = watch[s].sig /\ watch'[s].since = watch[s].since /\ watch'[s].refs = n
      BY <3>3
    <3> QED
      BY <3>1, <3>5, <3>6 DEF n
  <2>3. CASE ~ held(s)
    <3>1. watch'[s] = watch[s]
      BY <2>1, <2>3
    <3>2. Subscribers(s) \ {c} = Subscribers(s)
      BY <1>5, <2>3
    <3> QED
      BY <1>1, <1>4, <3>1, <3>2
  <2> QED
    BY <2>2, <2>3
<1>8. watch' \in [Source -> Watch \cup {None}]
  BY <1>7 DEF Released
<1>9. LeasesHeld'
  <2>1. ASSUME NEW d \in Client, session'[d] # None, session'[d].subscribed, NEW s \in Selection[d]
        PROVE  watch'[s] # None /\ watch'[s].since =< session'[d].acked
    <3>1. session'[d] = session[d]
      BY <1>2, <2>1
    <3>2. s \in Source /\ watch[s] # None /\ watch[s].since =< session[d].acked
      BY <2>1, <3>1, DeliveryAssumption DEF LeasesHeld, Watched
    <3> QED
      BY <1>7, <3>1, <3>2
  <2>2. ASSUME NEW s \in Source, watch'[s] # None
        PROVE  watch'[s].refs = Cardinality(Subscribers(s)')
    BY <1>6, <1>7, <2>2
  <2> QED
    BY <2>1, <2>2, DeliveryAssumption DEF LeasesHeld, Watched, Subscribers
<1>10. WatchedIsPublished'
  BY <1>7, WatchKept
<1> QED
  BY <1>2, <1>8, <1>9, <1>10

(* What the browser may still receive of a session that ended.              *)
LEMMA CutIs ==
  ASSUME NEW q \in Seq(Frame), NEW cut \in 0 .. Len(q), NEW told \in BOOLEAN
  PROVE  LET g == SubSeq(q, 1, cut) \o (IF told THEN <<[type |-> "resync"]>> ELSE <<>>)
         IN /\ g \in Seq(Frame) /\ Len(g) \in Nat
            /\ \A i \in 1 .. Len(g) :
                 \/ i <= cut /\ g[i] = q[i]
                 \/ i = Len(g) /\ i = cut + 1 /\ g[i] = [type |-> "resync"]
<1> DEFINE a == SubSeq(q, 1, cut)
           b == IF told THEN <<[type |-> "resync"]>> ELSE <<>>
<1>1. Len(q) \in Nat /\ cut \in Nat /\ cut <= Len(q)
  BY LenProperties
<1>2. a \in Seq(Frame) /\ Len(a) = cut /\ \A i \in 1 .. cut : a[i] = q[i]
  <2>1. \A i \in 1 .. cut : q[i] \in Frame
    BY <1>1, ElementOfSeq
  <2> QED
    BY <1>1, <2>1, SubSeqProperties
<1>3. b \in Seq(Frame) /\ Len(b) \in 0 .. 1 /\ \A i \in 1 .. Len(b) : b[i] = [type |-> "resync"]
  <2>1. [type |-> "resync"] \in Frame
    BY DEF Frame
  <2> QED
    BY <2>1
<1> HIDE DEF a, b
<1>4. /\ a \o b \in Seq(Frame) /\ Len(a \o b) = cut + Len(b)
      /\ \A i \in 1 .. cut + Len(b) : (a \o b)[i] = IF i <= cut THEN a[i] ELSE b[i - cut]
  BY <1>2, <1>3, ConcatProperties
<1>5. ASSUME NEW i \in 1 .. Len(a \o b)
      PROVE  \/ i <= cut /\ (a \o b)[i] = q[i]
             \/ i = Len(a \o b) /\ i = cut + 1 /\ (a \o b)[i] = [type |-> "resync"]
  <2>1. CASE i <= cut
    BY <1>1, <1>2, <1>3, <1>4, <2>1
  <2>2. CASE i > cut
    <3>1. i = cut + 1 /\ Len(b) = 1 /\ i - cut = 1
      BY <1>1, <1>3, <1>4, <2>2
    <3> QED
      BY <1>1, <1>3, <1>4, <3>1
  <2> QED
    BY <1>1, <1>3, <1>4, <2>1, <2>2
<1>6. Len(a \o b) \in Nat
  BY <1>1, <1>3, <1>4
<1> QED
  BY <1>4, <1>5, <1>6 DEF a, b

LEMMA AbortKeeps ==
  ASSUME DeliveryInv, NEW c \in Client, session[c] # None, Abort(c),
         UNCHANGED <<item, epoch, log, floor, failed, client, calls, seen, changes>>
  PROVE  DeliveryInv'
<1>1. /\ TypeOK /\ LeasesHeld /\ WatchedIsPublished /\ Paged(c)
      /\ item' = item /\ epoch' = epoch /\ log' = log /\ floor' = floor /\ failed' = failed
      /\ client' = client /\ calls' = calls /\ seen' = seen /\ changes' = changes
      /\ session' = [session EXCEPT ![c] = None] /\ watch' = Released(c)
      /\ up' = [up EXCEPT ![c] = <<>>]
  BY DEF DeliveryInv, Abort
<1>2. /\ session' \in [Client -> Session \cup {None}]
      /\ watch' \in [Source -> Watch \cup {None}]
      /\ LeasesHeld' /\ WatchedIsPublished'
  BY <1>1, ReleaseKeeps
<1>3. PICK cut \in 0 .. Len(down[c]), told \in BOOLEAN :
        down' = [down EXCEPT ![c] = SubSeq(@, 1, cut)
                                    \o (IF told THEN <<[type |-> "resync"]>> ELSE <<>>)]
  BY DEF Abort
<1>4. /\ down[c] \in Seq(Frame) /\ down \in [Client -> Seq(Frame)]
      /\ Len(down[c]) \in Nat /\ DOMAIN down[c] = 1 .. Len(down[c])
  BY <1>1, LenProperties DEF TypeOK
<1>5. /\ down'[c] \in Seq(Frame) /\ Len(down'[c]) \in Nat
      /\ \A i \in 1 .. Len(down'[c]) :
           \/ i <= cut /\ down'[c][i] = down[c][i]
           \/ i = Len(down'[c]) /\ i = cut + 1 /\ down'[c][i] = [type |-> "resync"]
  BY <1>3, <1>4, CutIs
<1>6. /\ down' \in [Client -> Seq(Frame)]
      /\ up' \in [Client -> Seq(Control)] /\ up'[c] = <<>> /\ session'[c] = None
      /\ \A d \in Client \ {c} : session'[d] = session[d] /\ up'[d] = up[d] /\ down'[d] = down[d]
  <2>1. down' = [down EXCEPT ![c] = down'[c]]
    BY <1>3, <1>4
  <2>2. down' \in [Client -> Seq(Frame)]
    BY <1>4, <1>5, <2>1
  <2>3. up' \in [Client -> Seq(Control)] /\ up'[c] = <<>>
    BY <1>1 DEF TypeOK
  <2> QED
    BY <1>1, <1>3, <2>2, <2>3 DEF TypeOK
<1>7. Told(c)'
  <2> SUFFICES ASSUME NEW i \in DOMAIN down'[c]
               PROVE  /\ down'[c][i].type = "resync" => i = Len(down'[c])
                      /\ down'[c][i].type = "subscribed" => i = 1 /\ down'[c][i].to = client[c].cursor.seq
                      /\ down'[c][i].type = "range" =>
                           /\ client[c].cursor.epoch = epoch
                           /\ down'[c][i].from = Reached(c, i)'
                           /\ down'[c][i].from < down'[c][i].to /\ down'[c][i].to <= Len(log)
                           /\ down'[c][i].updates = Relevant(log, down'[c][i].from, down'[c][i].to, Selection[c])
    BY <1>1, <1>6 DEF Told
  <2>1. i \in 1 .. Len(down'[c])
    BY <1>5, LenProperties
  <2>2. CASE i <= cut /\ down'[c][i] = down[c][i]
    <3>1. i \in 1 .. Len(down[c]) /\ i \in DOMAIN down[c]
      BY <1>4, <2>1, <2>2
    <3>2. Reached(c, i)' = Reached(c, i)
      <4>1. CASE i = 1
        BY <1>1, <4>1 DEF Reached
      <4>2. CASE i # 1
        <5>1. i - 1 \in 1 .. Len(down'[c]) /\ i - 1 <= cut /\ i - 1 # cut + 1
          BY <1>4, <1>5, <2>1, <2>2, <4>2
        <5>2. down'[c][i - 1] = down[c][i - 1]
          BY <1>5, <5>1
        <5> QED
          BY <4>2, <5>2 DEF Reached
      <4> QED
        BY <4>1, <4>2
    <3>3. Told(c)
      BY <1>1 DEF Paged
    <3> QED
      BY <1>1, <2>2, <3>1, <3>2, <3>3 DEF Told
  <2>3. CASE i = Len(down'[c]) /\ down'[c][i] = [type |-> "resync"]
    <3>1. down'[c][i].type = "resync"
      BY <2>3
    <3> QED
      BY <2>3, <3>1
  <2> QED
    BY <1>5, <2>1, <2>2, <2>3
<1>8. Paged(c)'
  <2>1. Phases(c)' /\ Asked(c)'
    BY <1>1, <1>6 DEF Paged, Phases, Asked
  <2>2. Cached(c)' /\ seen'[c] <= Len(log')
    BY <1>1 DEF Paged, Cached
  <2> QED
    BY <1>7, <2>1, <2>2 DEF Paged
<1>9. log' \in Seq(Event) /\ Extends(log, log')
  BY <1>1, SameExtends DEF TypeOK
<1>10. \A d \in Client : Paged(d)'
  BY <1>1, <1>6, <1>8, <1>9, ActorKeeps
<1>11. \A r \in calls' : Replying(r)'
  <2>1. \A r \in calls : r.client \in Client
    BY <1>1 DEF TypeOK, Call
  <2> QED
    BY <1>1, <1>9, <2>1, RepliesKeep
<1>12. TypeOK'
  BY <1>1, <1>2, <1>6 DEF TypeOK
<1> QED
  BY <1>2, <1>10, <1>11, <1>12 DEF DeliveryInv

LEMMA EndSessionKeeps ==
  ASSUME DeliveryInv, NEW c \in Client, EndSession(c)
  PROVE  DeliveryInv'
BY AbortKeeps DEF EndSession

(* The end of an operation of the browser.                                  *)
LEMMA DetachedKeeps ==
  ASSUME DeliveryInv, NEW c \in Client, Detached(c), calls' = Abandoned(c),
         NEW k \in Browser, client' = [client EXCEPT ![c] = k],
         UNCHANGED <<item, epoch, log, floor, failed, seen, changes>>,
         k.phase \in {"idle", "halted", "waiting"}, ~ k.ack,
         k.phase # "waiting" => k.cursor = None,
         k.cursor # None => k.cursor = client[c].cursor /\ k.cache = client[c].cache
  PROVE  DeliveryInv'
<1>1. /\ TypeOK /\ LeasesHeld /\ WatchedIsPublished /\ Paged(c)
      /\ item' = item /\ epoch' = epoch /\ log' = log /\ floor' = floor /\ failed' = failed
      /\ seen' = seen /\ changes' = changes
      /\ session' = [session EXCEPT ![c] = None] /\ watch' = Released(c)
      /\ up' = [up EXCEPT ![c] = <<>>] /\ down' = [down EXCEPT ![c] = <<>>]
  BY DEF DeliveryInv, Detached
<1>2. /\ session' \in [Client -> Session \cup {None}]
      /\ watch' \in [Source -> Watch \cup {None}]
      /\ LeasesHeld' /\ WatchedIsPublished'
  BY <1>1, ReleaseKeeps
<1>3. /\ down' \in [Client -> Seq(Frame)] /\ up' \in [Client -> Seq(Control)]
      /\ client' \in [Client -> Browser]
  BY <1>1 DEF TypeOK
<1>4. /\ down'[c] = <<>> /\ up'[c] = <<>> /\ session'[c] = None /\ client'[c] = k
      /\ \A d \in Client \ {c} : /\ client'[d] = client[d] /\ session'[d] = session[d]
                                 /\ up'[d] = up[d] /\ down'[d] = down[d]
  BY <1>1 DEF TypeOK
<1>5. Paged(c)'
  <2>1. Phases(c)'
    BY <1>4 DEF Phases
  <2>2. Asked(c)'
    BY <1>4 DEF Asked
  <2>3. Told(c)'
    BY <1>4 DEF Told
  <2>4. Cached(c)' /\ seen'[c] <= Len(log')
    BY <1>1, <1>4 DEF Paged, Cached
  <2> QED
    BY <2>1, <2>2, <2>3, <2>4 DEF Paged
<1>6. log' \in Seq(Event) /\ Extends(log, log')
  BY <1>1, SameExtends DEF TypeOK
<1>7. \A d \in Client : Paged(d)'
  BY <1>1, <1>4, <1>5, <1>6, ActorKeeps
<1>8. \A r \in calls' :
        /\ r \in Call /\ \E q \in calls : q.reply = r.reply
        /\ r.current => r \in calls /\ r.client # c
  <2> SUFFICES ASSUME NEW r \in calls'
               PROVE  /\ r \in Call /\ \E q \in calls : q.reply = r.reply
                      /\ r.current => r \in calls /\ r.client # c
    OBVIOUS
  <2>1. PICK q \in calls : r = IF q.client = c THEN [q EXCEPT !.current = FALSE] ELSE q
    BY DEF Abandoned
  <2>2. q \in Call
    BY <1>1 DEF TypeOK
  <2>3. CASE q.client = c
    <3>1. r = [client |-> q.client, current |-> FALSE, reply |-> q.reply]
      BY <2>1, <2>2, <2>3 DEF Call
    <3> QED
      BY <2>2, <3>1 DEF Call
  <2>4. CASE q.client # c
    BY <2>1, <2>2, <2>4
  <2> QED
    BY <2>3, <2>4
<1>9. \A r \in calls' : Replying(r)'
  <2>1. \A r \in calls' : r.client \in Client
    BY <1>8 DEF Call
  <2> QED
    BY <1>1, <1>4, <1>6, <1>8, <2>1, RepliesKeep
<1>10. TypeOK'
  <2>1. calls' \subseteq Call
    BY <1>8
  <2> QED
    BY <1>1, <1>2, <1>3, <2>1 DEF TypeOK
<1> QED
  BY <1>2, <1>7, <1>9, <1>10 DEF DeliveryInv

LEMMA NoCacheType == NoCache \in [Source -> Item \cup {None}]
BY DEF NoCache

LEMMA BrowserFields ==
  ASSUME NEW b \in Browser
  PROVE  b = [phase |-> b.phase, cursor |-> b.cursor, cache |-> b.cache, ack |-> b.ack,
              attempts |-> b.attempts, starts |-> b.starts]
BY DEF Browser

LEMMA RecoverKeeps ==
  ASSUME DeliveryInv, NEW c \in Client, NEW resnapshot \in BOOLEAN, Recover(c, resnapshot),
         UNCHANGED <<item, epoch, log, floor, failed, seen, changes>>
  PROVE  DeliveryInv'
<1> DEFINE spent == client[c].attempts >= RecoveryLimit
           drop == resnapshot \/ spent
           k == [phase |-> IF spent THEN "halted" ELSE "waiting",
                 cursor |-> IF drop THEN None ELSE client[c].cursor,
                 cache |-> IF drop THEN NoCache ELSE client[c].cache,
                 ack |-> FALSE,
                 attempts |-> IF spent THEN client[c].attempts ELSE client[c].attempts + 1,
                 starts |-> client[c].starts]
<1>1. client[c] \in Browser
  BY DEF DeliveryInv, TypeOK
<1>2. client[c].attempts \in Nat /\ client[c].attempts + 1 \in Nat /\ client[c].starts \in Nat
      /\ client[c].cursor \in Cursor \cup {None} /\ client[c].cache \in [Source -> Item \cup {None}]
  BY <1>1 DEF Browser
<1>3. client' = [client EXCEPT ![c] = k]
  <2> DEFINE b == client[c]
             e == [b EXCEPT !.phase = IF spent THEN "halted" ELSE "waiting", !.ack = FALSE,
                            !.attempts = IF spent THEN @ ELSE @ + 1,
                            !.cursor = IF drop THEN None ELSE @,
                            !.cache = IF drop THEN NoCache ELSE @]
  <2>1. client' = [client EXCEPT ![c] = e]
    BY Zenon DEF Recover, Recovered
  <2>2. e = k
    <3>1. e \in Browser
      BY <1>1, <1>2, NoCacheType DEF Browser
    <3>2. /\ e.phase = k.phase /\ e.cursor = k.cursor /\ e.cache = k.cache
          /\ e.ack = k.ack /\ e.attempts = k.attempts /\ e.starts = k.starts
      BY <1>1 DEF Browser
    <3> HIDE DEF e
    <3>3. k = [phase |-> k.phase, cursor |-> k.cursor, cache |-> k.cache, ack |-> k.ack,
              attempts |-> k.attempts, starts |-> k.starts]
      OBVIOUS
    <3> QED
      BY <3>1, <3>2, <3>3, BrowserFields
  <2> QED
    BY <2>1, <2>2, Zenon
<1>4. k \in Browser
  BY <1>2, NoCacheType DEF Browser
<1>5. k.phase \in {"halted", "waiting"} /\ ~ k.ack /\ (k.phase # "waiting" => k.cursor = None)
      /\ (k.cursor # None => k.cursor = client[c].cursor /\ k.cache = client[c].cache)
  OBVIOUS
<1> HIDE DEF k
<1> QED
  BY <1>3, <1>4, <1>5, DetachedKeeps DEF Recover

LEMMA StopKeeps ==
  ASSUME DeliveryInv, NEW c \in Client, Stop(c)
  PROVE  DeliveryInv'
<1> DEFINE k == [phase |-> "idle", cursor |-> None, cache |-> NoCache, ack |-> FALSE,
                 attempts |-> client[c].attempts, starts |-> client[c].starts]
<1>1. client[c] \in Browser
  BY DEF DeliveryInv, TypeOK
<1>2. client[c].attempts \in Nat /\ client[c].starts \in Nat
  BY <1>1 DEF Browser
<1>3. k \in Browser
  BY <1>1, NoCacheType DEF Browser
<1>5. client' = [client EXCEPT ![c] = k]
  <2> DEFINE e == [client[c] EXCEPT !.phase = "idle", !.ack = FALSE, !.cursor = None,
                                    !.cache = NoCache]
  <2>1. client' = [client EXCEPT ![c] = e]
    BY DEF Stop
  <2>2. e = k
    <3>1. e \in Browser
      BY <1>1, <1>2, NoCacheType DEF Browser
    <3>2. /\ e.phase = k.phase /\ e.cursor = k.cursor /\ e.cache = k.cache
          /\ e.ack = k.ack /\ e.attempts = k.attempts /\ e.starts = k.starts
      BY <1>1 DEF Browser
    <3> HIDE DEF e
    <3>3. k = [phase |-> k.phase, cursor |-> k.cursor, cache |-> k.cache, ack |-> k.ack,
              attempts |-> k.attempts, starts |-> k.starts]
      OBVIOUS
    <3> QED
      BY <3>1, <3>2, <3>3, BrowserFields
  <2> QED
    BY <2>1, <2>2, Zenon
<1>4. k.phase = "idle" /\ ~ k.ack /\ k.cursor = None
  OBVIOUS
<1> HIDE DEF k
<1> QED
  BY <1>3, <1>4, <1>5, DetachedKeeps DEF Stop

LEMMA FaultsKeep ==
  ASSUME DeliveryInv, NEW c \in Client, SnapshotFails(c) \/ Closed(c) \/ Broken(c)
  PROVE  DeliveryInv'
<1>1. PICK resnapshot \in BOOLEAN : Recover(c, resnapshot)
  BY DEF SnapshotFails, Closed, Broken
<1>2. UNCHANGED <<item, epoch, log, floor, failed, seen, changes>>
  BY DEF SnapshotFails, Closed, Broken
<1> QED
  BY <1>1, <1>2, RecoverKeeps

(* The steps that leave the broker, its sessions and the history alone.     *)
LEMMA QuietKeeps ==
  ASSUME DeliveryInv, UNCHANGED <<item, broker, session, changes>>
  PROVE  /\ WatchedIsPublished' /\ LeasesHeld' /\ log' \in Seq(Event) /\ Extends(log, log')
         /\ epoch' = epoch /\ log' = log /\ session' = session
         /\ item' = item /\ watch' = watch /\ floor' = floor /\ failed' = failed
         /\ changes' = changes
<1>1. /\ TypeOK /\ WatchedIsPublished /\ LeasesHeld
      /\ item' = item /\ log' = log /\ failed' = failed /\ watch' = watch /\ session' = session
      /\ epoch' = epoch /\ floor' = floor
  BY DEF DeliveryInv, broker
<1>2. WatchedIsPublished'
  BY <1>1, WatchKept
<1>3. LeasesHeld'
  BY <1>1 DEF LeasesHeld, Watched
<1>4. log' \in Seq(Event) /\ Extends(log, log')
  BY <1>1, SameExtends DEF TypeOK
<1> QED
  BY <1>1, <1>2, <1>3, <1>4

(* A start and a reconnection ask for a snapshot when there is no cursor;   *)
(* nothing else was asked for then.                                         *)
LEMMA ConnectKeeps ==
  ASSUME DeliveryInv, NEW c \in Client, Start(c) \/ Reconnect(c)
  PROVE  DeliveryInv'
<1> DEFINE n == IF Start(c) THEN client[c].starts + 1 ELSE client[c].starts
           k == [phase |-> IF client[c].cursor = None THEN "snapshot" ELSE "opening",
                 cursor |-> client[c].cursor, cache |-> client[c].cache, ack |-> client[c].ack,
                 attempts |-> client[c].attempts, starts |-> n]
           new == [client |-> c, current |-> TRUE, reply |-> None]
<1>1. /\ TypeOK /\ Paged(c) /\ \A r \in calls : Replying(r)
      /\ client[c] \in Browser /\ client[c].phase \in {"idle", "halted", "waiting"}
      /\ UNCHANGED <<item, broker, sockets, seen, changes>>
  BY DEF DeliveryInv, TypeOK, Start, Reconnect
<1>2. n \in Nat
  <2>1. client[c].starts \in Nat
    BY <1>1 DEF Browser
  <2>2. client[c].starts + 1 \in Nat
    BY <2>1
  <2> QED
    BY <2>1, <2>2
<1>3. client' = [client EXCEPT ![c] = k] /\ calls' = calls \cup Called(c, k)
  <2>1. CASE Start(c)
    <3> DEFINE b == [client[c] EXCEPT !.starts = @ + 1]
    <3>2. b = [phase |-> client[c].phase, cursor |-> client[c].cursor, cache |-> client[c].cache,
               ack |-> client[c].ack, attempts |-> client[c].attempts, starts |-> n]
      BY <1>1, <2>1 DEF Browser
    <3>1. Connecting(b) = k
      <4> HIDE DEF b
      <4> QED
        BY <3>2 DEF Connecting
    <3> QED
      BY <2>1, <3>1 DEF Start
  <2>2. CASE ~ Start(c) /\ Reconnect(c)
    <3>1. Connecting(client[c]) = k
      BY <1>1, <2>2 DEF Connecting, Browser
    <3> QED
      BY <2>2, <3>1 DEF Reconnect
  <2> QED
    BY <2>1, <2>2
<1> HIDE DEF n
<1>4. k \in Browser
  BY <1>1, <1>2 DEF Browser
<1>5. /\ k.phase = IF client[c].cursor = None THEN "snapshot" ELSE "opening"
      /\ k.cursor = client[c].cursor /\ k.cache = client[c].cache /\ k.ack = client[c].ack
  OBVIOUS
<1>6. new \in Call /\ new.client = c /\ new.reply = None
  BY DEF Call
<1>7. Called(c, k) \subseteq {new} /\ (k.phase # "snapshot" => Called(c, k) = {})
  BY DEF Called
<1> HIDE DEF k, new
<1>8. /\ client' \in [Client -> Browser] /\ client'[c] = k
      /\ \A d \in Client \ {c} : client'[d] = client[d]
  BY <1>1, <1>3, <1>4 DEF TypeOK
<1>9. /\ session' = session /\ up' = up /\ down' = down /\ seen' = seen
      /\ session[c] = None /\ down[c] = <<>> /\ up[c] = <<>> /\ ~ client[c].ack
  BY <1>1 DEF sockets, Paged, Phases, Asked
<1>10. /\ WatchedIsPublished' /\ LeasesHeld' /\ log' \in Seq(Event) /\ Extends(log, log')
       /\ epoch' = epoch /\ log' = log /\ item' = item /\ watch' = watch /\ floor' = floor
       /\ failed' = failed /\ changes' = changes
  BY <1>1, <1>9, QuietKeeps
<1>11. Paged(c)'
  <2>1. Phases(c)'
    BY <1>5, <1>8, <1>9 DEF Phases
  <2>2. Asked(c)' /\ Told(c)'
    BY <1>9 DEF Asked, Told
  <2>3. Cached(c)' /\ seen'[c] <= Len(log')
    BY <1>1, <1>5, <1>8, <1>9, <1>10 DEF Paged, Cached
  <2> QED
    BY <2>1, <2>2, <2>3 DEF Paged
<1>12. \A d \in Client : Paged(d)'
  BY <1>8, <1>9, <1>10, <1>11, ActorKeeps
<1>13. ASSUME NEW r \in calls PROVE r.current => r.client # c
  BY <1>1, <1>13 DEF Replying
<1>14. \A r \in calls' : Replying(r)'
  <2> SUFFICES ASSUME NEW r \in calls' PROVE Replying(r)'
    OBVIOUS
  <2>1. r \in calls \/ (r = new /\ k.phase = "snapshot")
    BY <1>3, <1>7
  <2>2. CASE r = new /\ k.phase = "snapshot"
    <3>1. \A q \in calls' : q.current /\ q.client = c => q = r
      BY <1>3, <1>7, <1>13, <2>2
    <3> QED
      BY <1>6, <1>8, <2>2, <3>1 DEF Replying
  <2>3. CASE r \in calls
    <3>1. CASE r.current
      <4>1. r.client # c /\ r.client \in Client
        BY <1>1, <1>13, <2>3, <3>1 DEF TypeOK, Call
      <4>2. \A q \in calls' : q.current /\ q.client = r.client => q = r
        BY <1>1, <1>3, <1>6, <1>7, <2>3, <3>1, <4>1 DEF Replying
      <4>3. client'[r.client] = client[r.client]
        BY <1>8, <4>1
      <4> QED
        BY <1>1, <1>9, <1>10, <2>3, <4>2, <4>3 DEF Replying
    <3>2. CASE ~ r.current
      BY <1>1, <1>10, <2>3, <3>2 DEF Replying
    <3> QED
      BY <3>1, <3>2
  <2> QED
    BY <2>1, <2>2, <2>3
<1>15. TypeOK'
  <2>1. calls' \subseteq Call
    BY <1>1, <1>3, <1>6, <1>7 DEF TypeOK
  <2> QED
    BY <1>1, <1>8, <1>9, <1>10, <2>1 DEF TypeOK
<1> QED
  BY <1>10, <1>12, <1>14, <1>15 DEF DeliveryInv

(* The session of a browser that asks for its subscription.                 *)
LEMMA BrowserPhase ==
  ASSUME NEW b \in Browser, NEW p \in {"subscribing", "live"}
  PROVE  /\ [b EXCEPT !.phase = p] \in Browser /\ [b EXCEPT !.phase = p].phase = p
         /\ [b EXCEPT !.phase = p].cursor = b.cursor /\ [b EXCEPT !.phase = p].cache = b.cache
         /\ [b EXCEPT !.phase = p].ack = b.ack
BY DEF Browser

LEMMA OpenedKeeps ==
  ASSUME DeliveryInv, NEW c \in Client, Opened(c)
  PROVE  DeliveryInv'
<1> DEFINE z == [subscribed |-> FALSE, after |-> 0, acked |-> 0, boundaries |-> {}]
           u == [type |-> "subscribe", cursor |-> client[c].cursor]
           k == [client[c] EXCEPT !.phase = "subscribing"]
<1>1. /\ TypeOK /\ LeasesHeld /\ WatchedIsPublished /\ Paged(c) /\ \A r \in calls : Replying(r)
      /\ client[c] \in Browser /\ client[c].phase = "opening"
      /\ session' = [session EXCEPT ![c] = z] /\ up' = [up EXCEPT ![c] = <<u>>]
      /\ down' = [down EXCEPT ![c] = <<>>] /\ client' = [client EXCEPT ![c] = k]
      /\ item' = item /\ epoch' = epoch /\ log' = log /\ floor' = floor /\ watch' = watch
      /\ failed' = failed /\ calls' = calls /\ seen' = seen /\ changes' = changes
  BY DEF DeliveryInv, TypeOK, Opened, broker
<1>2. /\ k \in Browser /\ k.phase = "subscribing" /\ k.cursor = client[c].cursor
      /\ k.cache = client[c].cache /\ k.ack = client[c].ack
  BY <1>1, BrowserPhase
<1>3. z \in Session /\ z # None /\ ~ z.subscribed
  <2>1. z \in Session
    BY DEF Session
  <2> QED
    BY <2>1, NoneAssumption
<1>4. /\ client[c].cursor # None /\ session[c] = None /\ ~ client[c].ack
  BY <1>1 DEF Paged, Phases
<1>5. u \in Control /\ <<u>> \in Seq(Control)
  <2>1. client[c].cursor \in Cursor
    BY <1>1, <1>4 DEF Browser
  <2>2. u \in Control
    BY <2>1 DEF Control
  <2> QED
    BY <2>2
<1> HIDE DEF z, k
<1>6. /\ client'[c] = k /\ session'[c] = z /\ up'[c] = <<u>> /\ down'[c] = <<>>
      /\ \A d \in Client \ {c} : /\ client'[d] = client[d] /\ session'[d] = session[d]
                                 /\ up'[d] = up[d] /\ down'[d] = down[d]
  BY <1>1 DEF TypeOK
<1>7. /\ client' \in [Client -> Browser] /\ session' \in [Client -> Session \cup {None}]
      /\ up' \in [Client -> Seq(Control)] /\ down' \in [Client -> Seq(Frame)]
  BY <1>1, <1>2, <1>3, <1>5 DEF TypeOK
<1>8. WatchedIsPublished'
  BY <1>1, WatchKept
<1>9. LeasesHeld'
  <2>1. \A d \in Client : /\ session'[d] # None /\ session'[d].subscribed
                             => session'[d] = session[d]
                          /\ session[d] # None /\ session[d].subscribed
                             => session'[d] = session[d]
    BY <1>3, <1>4, <1>6
  <2>2. \A s \in Source : Subscribers(s)' = Subscribers(s)
    BY <2>1 DEF Subscribers
  <2> QED
    BY <1>1, <2>1, <2>2 DEF LeasesHeld, Watched, Subscribers
<1>10. Paged(c)'
  <2>1. Phases(c)'
    BY <1>2, <1>4, <1>6 DEF Phases
  <2>2. Asked(c)'
    BY <1>2, <1>3, <1>4, <1>6 DEF Asked
  <2>3. Told(c)'
    BY <1>3, <1>6 DEF Told
  <2>4. Cached(c)' /\ seen'[c] <= Len(log')
    BY <1>1, <1>2, <1>6 DEF Paged, Cached
  <2> QED
    BY <2>1, <2>2, <2>3, <2>4 DEF Paged
<1>11. log' \in Seq(Event) /\ Extends(log, log')
  BY <1>1, SameExtends DEF TypeOK
<1>12. \A d \in Client : Paged(d)'
  BY <1>1, <1>6, <1>10, <1>11, ActorKeeps
<1>13. \A r \in calls' : Replying(r)'
  <2>1. \A r \in calls : r.client \in Client
    BY <1>1 DEF TypeOK, Call
  <2>2. \A r \in calls : r.current => r.client # c
    BY <1>1 DEF Replying
  <2> QED
    BY <1>1, <1>6, <1>11, <2>1, <2>2, RepliesKeep
<1>14. TypeOK'
  BY <1>1, <1>7 DEF TypeOK
<1> QED
  BY <1>8, <1>9, <1>12, <1>13, <1>14 DEF DeliveryInv

(* An acknowledgement is of what the browser has applied.                   *)
LEMMA SendAckKeeps ==
  ASSUME DeliveryInv, NEW c \in Client, SendAck(c)
  PROVE  DeliveryInv'
<1> DEFINE a == [type |-> "ack", cursor |-> client[c].cursor]
           k == [client[c] EXCEPT !.ack = FALSE]
<1>1. /\ TypeOK /\ Paged(c) /\ \A r \in calls : Replying(r)
      /\ client[c] \in Browser /\ client[c].ack /\ client' = [client EXCEPT ![c] = k]
      /\ up' = IF session[c] = None THEN up ELSE [up EXCEPT ![c] = Append(@, a)]
      /\ down' = down /\ calls' = calls /\ seen' = seen
      /\ UNCHANGED <<item, broker, session, changes>>
  BY DEF DeliveryInv, TypeOK, SendAck
<1>2. /\ k \in Browser /\ k.phase = client[c].phase /\ k.cursor = client[c].cursor
      /\ k.cache = client[c].cache /\ ~ k.ack
  BY <1>1 DEF Browser
<1>3. /\ WatchedIsPublished' /\ LeasesHeld' /\ log' \in Seq(Event) /\ Extends(log, log')
      /\ epoch' = epoch /\ log' = log /\ session' = session /\ item' = item /\ watch' = watch
      /\ floor' = floor /\ failed' = failed /\ changes' = changes
  BY <1>1, QuietKeeps
<1>4. client[c].cursor \in Cursor /\ client[c].cursor # None
  <2>1. client[c].cursor # None
    BY <1>1 DEF Paged, Phases, Browser
  <2> QED
    BY <1>1, <2>1 DEF Browser
<1>5. a \in Control /\ a.type = "ack" /\ a.cursor = client[c].cursor
  BY <1>4 DEF Control
<1>6. session[c] # None => session[c].subscribed
  BY <1>1 DEF Paged, Asked
<1> HIDE DEF a, k
<1>7. up[c] \in Seq(Control) /\ up \in [Client -> Seq(Control)] /\ Len(up[c]) \in Nat
      /\ DOMAIN up[c] = 1 .. Len(up[c])
  BY <1>1, LenProperties DEF TypeOK
<1>8. /\ Append(up[c], a) \in Seq(Control) /\ Len(Append(up[c], a)) = Len(up[c]) + 1
      /\ \A i \in 1 .. Len(up[c]) : Append(up[c], a)[i] = up[c][i]
      /\ Append(up[c], a)[Len(up[c]) + 1] = a
  BY <1>5, <1>7, AppendIs
<1>9. /\ client'[c] = k /\ client' \in [Client -> Browser] /\ up' \in [Client -> Seq(Control)]
      /\ up'[c] = IF session[c] = None THEN up[c] ELSE Append(up[c], a)
      /\ \A d \in Client \ {c} : client'[d] = client[d] /\ up'[d] = up[d]
  BY <1>1, <1>2, <1>7, <1>8 DEF TypeOK
<1>10. Asked(c)'
  <2>1. Asked(c)
    BY <1>1 DEF Paged
  <2>2. CASE session[c] = None
    BY <1>3, <1>9, <2>1, <2>2 DEF Asked
  <2>3. CASE session[c] # None
    <3>1. /\ \A i \in 1 .. Len(up[c]) :
               /\ up[c][i].type = "ack" /\ up[c][i].cursor.seq <= client[c].cursor.seq
               /\ up[c][i].cursor.seq \in {session[c].acked} \cup session[c].boundaries
               /\ \A j \in 1 .. Len(up[c]) : i < j => up[c][i].cursor.seq <= up[c][j].cursor.seq
          /\ client[c].cursor.seq \in {session[c].acked} \cup session[c].boundaries
          /\ session[c].acked <= session[c].after
          /\ \A b \in session[c].boundaries : session[c].acked < b /\ b <= session[c].after
      BY <1>6, <1>7, <2>1, <2>3 DEF Asked
    <3>2. up'[c] = Append(up[c], a) /\ DOMAIN up'[c] = 1 .. Len(up[c]) + 1
      <4>1. up'[c] = Append(up[c], a)
        BY <1>9, <2>3
      <4> QED
        BY <1>8, <4>1, LenProperties
    <3>3. client[c].cursor.seq \in Nat /\ client[c].cursor.seq <= client[c].cursor.seq
      BY <1>4 DEF Cursor
    <3>4. ASSUME NEW i \in DOMAIN up'[c]
          PROVE  /\ up'[c][i].type = "ack" /\ up'[c][i].cursor.seq <= client[c].cursor.seq
                 /\ up'[c][i].cursor.seq \in {session[c].acked} \cup session[c].boundaries
                 /\ \A j \in DOMAIN up'[c] : i < j => up'[c][i].cursor.seq <= up'[c][j].cursor.seq
      <4>1. CASE i \in 1 .. Len(up[c])
        <5>1. up'[c][i] = up[c][i]
          BY <1>8, <3>2, <4>1
        <5>2. ASSUME NEW j \in DOMAIN up'[c], i < j
              PROVE  up[c][i].cursor.seq <= up'[c][j].cursor.seq
          <6>1. CASE j \in 1 .. Len(up[c])
            BY <1>8, <3>1, <3>2, <4>1, <5>2, <6>1
          <6>2. CASE j = Len(up[c]) + 1
            BY <1>5, <1>8, <3>1, <3>2, <4>1, <6>2
          <6> QED
            BY <1>7, <3>2, <6>1, <6>2
        <5> QED
          BY <3>1, <4>1, <5>1, <5>2
      <4>2. CASE i = Len(up[c]) + 1
        <5>1. up'[c][i] = a
          BY <1>8, <3>2, <4>2
        <5>2. \A j \in DOMAIN up'[c] : ~ (i < j)
          BY <1>7, <3>2, <4>2
        <5> QED
          BY <1>5, <3>1, <3>3, <5>1, <5>2
      <4> QED
        BY <1>7, <3>2, <4>1, <4>2
    <3> QED
      BY <1>2, <1>3, <1>6, <1>9, <2>3, <3>1, <3>4 DEF Asked
  <2> QED
    BY <2>2, <2>3
<1>11. Paged(c)'
  <2>1. Phases(c)'
    BY <1>1, <1>2, <1>3, <1>9 DEF Paged, Phases
  <2>2. Told(c)'
    <3>1. Told(c) /\ \A i : Reached(c, i)' = Reached(c, i)
      BY <1>1, <1>2, <1>9 DEF Paged, Reached
    <3> QED
      BY <1>1, <1>2, <1>3, <1>9, <3>1 DEF Told
  <2>3. Cached(c)' /\ seen'[c] <= Len(log')
    BY <1>1, <1>2, <1>3, <1>9 DEF Paged, Cached
  <2> QED
    BY <1>10, <2>1, <2>2, <2>3 DEF Paged
<1>12. \A d \in Client : Paged(d)'
  BY <1>1, <1>3, <1>9, <1>11, ActorKeeps
<1>13. \A r \in calls' : Replying(r)'
  <2>1. \A r \in calls : r.client \in Client
    BY <1>1 DEF TypeOK, Call
  <2> QED
    BY <1>1, <1>2, <1>3, <1>9, <2>1, RepliesKeep
<1>14. TypeOK'
  BY <1>1, <1>3, <1>9 DEF TypeOK
<1> QED
  BY <1>3, <1>12, <1>13, <1>14 DEF DeliveryInv

(* The frames that are left when the browser takes the first.               *)
LEMMA TailIs ==
  ASSUME NEW S, NEW q \in Seq(S), q # <<>>
  PROVE  /\ Tail(q) \in Seq(S) /\ Len(q) \in Nat \ {0} /\ Len(Tail(q)) = Len(q) - 1
         /\ DOMAIN Tail(q) = 1 .. Len(q) - 1 /\ DOMAIN q = 1 .. Len(q)
         /\ Head(q) = q[1] /\ q[1] \in S
         /\ \A i \in 1 .. Len(q) - 1 : Tail(q)[i] = q[i + 1]
<1>1. Len(q) \in Nat \ {0} /\ DOMAIN q = 1 .. Len(q)
  BY EmptySeq, LenProperties
<1>2. Tail(q) \in Seq(S) /\ Len(Tail(q)) = Len(q) - 1
      /\ \A i \in 1 .. Len(Tail(q)) : Tail(q)[i] = q[i + 1]
  BY HeadTailProperties
<1>3. Head(q) = q[1] /\ q[1] \in S
  BY <1>1, ElementOfSeq
<1>4. DOMAIN Tail(q) = 1 .. Len(q) - 1
  BY <1>2, LenProperties
<1> QED
  BY <1>1, <1>2, <1>3, <1>4

LEMMA ToldTail ==
  ASSUME TypeOK, NEW c \in Client, Told(c), down[c] # <<>>, down'[c] = Tail(down[c]),
         log' = log, epoch' = epoch, session'[c] = session[c],
         client'[c].cursor.epoch = client[c].cursor.epoch,
         client'[c].cursor.seq = Reached(c, 2)
  PROVE  Told(c)'
<1> DEFINE q == down[c]
<1>1. q \in Seq(Frame)
  BY DEF TypeOK
<1>2. /\ Len(q) \in Nat \ {0} /\ Len(down'[c]) = Len(q) - 1 /\ DOMAIN down'[c] = 1 .. Len(q) - 1
      /\ DOMAIN q = 1 .. Len(q) /\ \A i \in 1 .. Len(q) - 1 : down'[c][i] = q[i + 1]
  <2> HIDE DEF q
  <2>1. q # <<>> /\ down'[c] = Tail(q)
    BY DEF q
  <2> QED
    BY <1>1, <2>1, TailIs
<1> DEFINE before(i) == IF i = 1 THEN client[c].cursor.seq ELSE q[i - 1].to
           after(i) == IF i = 1 THEN client'[c].cursor.seq ELSE down'[c][i - 1].to
<1>6. \A i : Reached(c, i) = before(i) /\ Reached(c, i)' = after(i)
  BY DEF Reached
<1>3. ASSUME NEW i \in 1 .. Len(q) PROVE after(i) = before(i + 1)
  <2>1. CASE i = 1
    BY <1>6, <2>1
  <2>2. CASE i # 1
    <3>1. i - 1 \in 1 .. Len(q) - 1 /\ (i - 1) + 1 = i /\ (i + 1) - 1 = i /\ i + 1 # 1
      BY <1>2, <2>2
    <3>2. down'[c][i - 1] = q[i]
      BY <1>2, <3>1
    <3>3. after(i) = down'[c][i - 1].to /\ before(i + 1) = q[i].to
      BY <2>2, <3>1
    <3> QED
      BY <3>2, <3>3
  <2> QED
    BY <2>1, <2>2
<1>4. ASSUME NEW i \in DOMAIN down'[c]
      PROVE  /\ down'[c][i].type = "resync" => i = Len(down'[c]) /\ session[c] = None
             /\ down'[c][i].type # "subscribed"
             /\ down'[c][i].type = "range" =>
                  /\ client'[c].cursor.epoch = epoch
                  /\ down'[c][i].from = Reached(c, i)'
                  /\ down'[c][i].from < down'[c][i].to /\ down'[c][i].to <= Len(log)
                  /\ down'[c][i].updates = Relevant(log, down'[c][i].from, down'[c][i].to, Selection[c])
                  /\ session[c] # None => down'[c][i].to \in session[c].boundaries
  <2> HIDE DEF q, after, before
  <2> DEFINE m == Len(q)
  <2>4. /\ m \in Nat \ {0} /\ Len(down'[c]) = m - 1 /\ i \in 1 .. m - 1 /\ DOMAIN q = 1 .. m
    BY <1>2
  <2>1. i \in 1 .. m - 1 /\ i + 1 \in DOMAIN q /\ i + 1 # 1 /\ i \in 1 .. m
        /\ (i + 1 = m => i = Len(down'[c]))
    <3> HIDE DEF m
    <3>1. i \in 1 .. m - 1 /\ i + 1 # 1 /\ i \in 1 .. m /\ i + 1 \in 1 .. m
      BY <2>4
    <3>2. i + 1 = m => i = m - 1
      BY <2>4
    <3> QED
      BY <2>4, <3>1, <3>2
  <2>2. down'[c][i] = q[i + 1] /\ after(i) = before(i + 1)
    BY <1>2, <1>3, <2>1
  <2>3. Reached(c, i)' = after(i) /\ Reached(c, i + 1) = before(i + 1)
    BY <1>6
  <2> QED
    BY <2>1, <2>2, <2>3 DEF Told, q
<1>5. session[c] # None /\ session[c].subscribed => session[c].after = after(Len(down'[c]) + 1)
  <2>1. Len(q) \in 1 .. Len(q) /\ Len(down'[c]) + 1 = Len(q)
    BY <1>2
  <2> HIDE DEF after, before
  <2>2. after(Len(q)) = before(Len(q) + 1)
    BY <1>3, <2>1
  <2>3. before(Len(q) + 1) = Reached(c, Len(q) + 1)
    BY <1>6
  <2> QED
    BY <2>1, <2>2, <2>3 DEF Told
<1>7. Reached(c, Len(down[c]) + 1)' = after(Len(down'[c]) + 1)
  BY <1>6 DEF Reached
<1> HIDE DEF after, before
<1> QED
  BY <1>4, <1>5, <1>7 DEF Told

LEMMA ApplyType ==
  ASSUME NEW h \in Seq(Event), NEW a \in Nat, NEW b \in 0 .. Len(h), NEW sel,
         NEW cache \in [Source -> Item \cup {None}]
  PROVE  Apply(cache, Relevant(h, a, b, sel)) \in [Source -> Item \cup {None}]
<1> DEFINE u == Relevant(h, a, b, sel)
<1>1. \A i \in DOMAIN u : u[i].item \in Item
  <2> SUFFICES ASSUME NEW i \in DOMAIN u PROVE u[i].item \in Item
    OBVIOUS
  <2>1. i \in (a + 1) .. b /\ u[i] = h[i]
    BY DEF Relevant
  <2>2. i \in 1 .. Len(h)
    BY <2>1, LenProperties
  <2>3. h[i] \in Event
    BY <2>2, ElementOfSeq
  <2> QED
    BY <2>1, <2>3 DEF Event
<1>2. ASSUME NEW i \in DOMAIN u PROVE i \in 0 .. b
  <2>1. i \in (a + 1) .. b
    BY DEF Relevant
  <2> QED
    BY <2>1
<1>3. b \in Nat
  BY LenProperties
<1> HIDE DEF u
<1>4. ASSUME NEW s \in Source PROVE Apply(cache, u)[s] \in Item \cup {None}
  <2> DEFINE at == {i \in DOMAIN u : u[i].source = s}
  <2>1. Apply(cache, u)[s] =
          IF at = {} THEN cache[s] ELSE u[CHOOSE i \in at : \A j \in at : j =< i].item
    BY DEF Apply
  <2>2. CASE at = {}
    BY <2>1, <2>2
  <2>3. CASE at # {}
    <3>1. at \in SUBSET (0 .. b) /\ at \subseteq DOMAIN u
      BY <1>2
    <3> HIDE DEF at
    <3>2. \E i \in at : \A j \in at : j =< i
      BY <1>3, <2>3, <3>1, Greatest
    <3>3. (CHOOSE i \in at : \A j \in at : j =< i) \in DOMAIN u
      BY <3>1, <3>2
    <3> QED
      BY <1>1, <2>1, <2>3, <3>3
  <2> QED
    BY <2>2, <2>3
<1>5. Apply(cache, u) \in [Source -> Item \cup {None}]
  BY <1>4 DEF Apply
<1> QED
  BY <1>5 DEF u

(* A frame that continues what the browser has brings it to a later moment. *)
LEMMA ReceiveKeeps ==
  ASSUME DeliveryInv, NEW c \in Client, Receive(c)
  PROVE  DeliveryInv'
<1> DEFINE q == down[c]
           f == q[1]
           k == client[c]
<1>1. /\ TypeOK /\ Paged(c) /\ \A r \in calls : Replying(r)
      /\ k \in Browser /\ k.phase \in {"subscribing", "live"} /\ q # <<>> /\ q \in Seq(Frame)
      /\ item' = item /\ epoch' = epoch /\ log' = log /\ floor' = floor
      /\ failed' = failed /\ changes' = changes
  BY DEF DeliveryInv, TypeOK, Receive
<1>2. /\ Tail(q) \in Seq(Frame) /\ Len(q) \in Nat \ {0} /\ DOMAIN q = 1 .. Len(q)
      /\ Head(q) = f /\ f \in Frame
  <2> HIDE DEF q
  <2> QED
    BY <1>1, TailIs
<1>3. k.cursor \in Cursor /\ k.cursor # None
  BY <1>1 DEF Paged, Phases, Browser
<1>4. session[c] # None => session[c].subscribed
  BY <1>1 DEF Paged, Asked
<1>5. Told(c) /\ Asked(c) /\ Cached(c) /\ seen[c] <= Len(log)
  BY <1>1 DEF Paged
<1>6. log' \in Seq(Event) /\ Extends(log, log')
  BY <1>1, SameExtends DEF TypeOK
<1>7. \A r \in calls : r.client \in Client /\ (r.current => r.client # c)
  <2>1. \A r \in calls : r.client \in Client
    BY <1>1 DEF TypeOK, Call
  <2>2. \A r \in calls : r.current => client[r.client].phase = "snapshot"
    BY <1>1 DEF Replying
  <2> QED
    BY <1>1, <2>1, <2>2
<1>8. CASE f.type = "subscribed" /\ client' = [client EXCEPT ![c].phase = "live"]
           /\ down' = [down EXCEPT ![c] = Tail(q)]
           /\ UNCHANGED <<session, up, watch, calls, seen>>
  <2> DEFINE e == [k EXCEPT !.phase = "live"]
  <2>1. /\ e \in Browser /\ e.phase = "live" /\ e.cursor = k.cursor /\ e.cache = k.cache
        /\ e.ack = k.ack
    BY <1>1, BrowserPhase
  <2>2. client' = [client EXCEPT ![c] = e]
    BY <1>8
  <2> HIDE DEF e
  <2>3. /\ client'[c] = e /\ client' \in [Client -> Browser]
        /\ down'[c] = Tail(q) /\ down' \in [Client -> Seq(Frame)]
        /\ \A d \in Client \ {c} : client'[d] = client[d] /\ down'[d] = down[d]
    BY <1>1, <1>2, <1>8, <2>1, <2>2 DEF TypeOK
  <2>4. /\ WatchedIsPublished' /\ LeasesHeld'
    BY <1>1, <1>8, QuietKeeps DEF broker
  <2>5. Told(c)'
    <3>1. Reached(c, 2) = f.to /\ f.to = k.cursor.seq
      BY <1>2, <1>5, <1>8 DEF Reached, Told
    <3> QED
      BY <1>1, <1>5, <1>8, <2>1, <2>3, <3>1, ToldTail
  <2>6. Asked(c)'
    BY <1>4, <1>5, <1>8, <2>1, <2>3 DEF Asked
  <2>7. Phases(c)'
    BY <1>3, <2>1, <2>3 DEF Phases
  <2>8. Cached(c)' /\ seen'[c] <= Len(log')
    BY <1>1, <1>5, <1>8, <2>1, <2>3 DEF Cached
  <2>9. Paged(c)'
    BY <2>5, <2>6, <2>7, <2>8 DEF Paged
  <2>10. \A d \in Client : Paged(d)'
    BY <1>1, <1>6, <1>8, <2>3, <2>9, ActorKeeps
  <2>11. \A r \in calls' : Replying(r)'
    BY <1>1, <1>6, <1>7, <1>8, <2>3, RepliesKeep
  <2>12. TypeOK'
    BY <1>1, <1>8, <2>3 DEF TypeOK
  <2> QED
    BY <2>4, <2>10, <2>11, <2>12 DEF DeliveryInv
<1>9. CASE f.type = "range" /\ Continues(k, f)
           /\ client' = [client EXCEPT ![c] = [k EXCEPT !.cursor.seq = f.to, !.ack = TRUE,
                                                        !.cache = Apply(k.cache, f.updates)]]
           /\ down' = [down EXCEPT ![c] = Tail(q)]
           /\ seen' = [seen EXCEPT ![c] = f.to]
           /\ UNCHANGED <<session, up, watch, calls>>
  <2> DEFINE cache == Apply(k.cache, f.updates)
             e == [k EXCEPT !.cursor.seq = f.to, !.ack = TRUE, !.cache = cache]
  <2>1. /\ k.cursor.epoch = epoch /\ f.from \in Nat /\ f.to \in Nat /\ f.from = k.cursor.seq
        /\ f.from < f.to /\ f.to <= Len(log)
        /\ f.updates = Relevant(log, f.from, f.to, Selection[c])
        /\ session[c] # None => f.to \in session[c].boundaries
    <3>1. 1 \in DOMAIN q
      BY <1>2
    <3>2. f.from \in Nat /\ f.to \in Nat
      BY <1>2, <1>9, FrameType
    <3>3. f.from = k.cursor.seq
      BY <1>9 DEF Continues
    <3> QED
      BY <1>5, <1>9, <3>1, <3>2, <3>3 DEF Told
  <2>2. k.cursor.seq = seen[c] /\ Moment(log, Selection[c], seen[c], k.cache)
    BY <1>3, <1>5, <2>1 DEF Cached
  <2>3. /\ log \in Seq(Event) /\ Len(log) \in Nat /\ f.to \in 0 .. Len(log) /\ f.from <= f.to
        /\ k.cache \in [Source -> Item \cup {None}] /\ Selection[c] \in SUBSET Source
    <3>1. log \in Seq(Event) /\ Len(log) \in Nat
      BY <1>1, LenProperties DEF TypeOK
    <3>2. f.to \in 0 .. Len(log) /\ f.from <= f.to
      BY <2>1, <3>1
    <3> QED
      BY <1>1, <3>1, <3>2, DeliveryAssumption DEF Browser
  <2>4. Moment(log, Selection[c], f.to, cache) /\ cache \in [Source -> Item \cup {None}]
    BY <2>1, <2>2, <2>3, ApplyIs, ApplyType
  <2> HIDE DEF cache
  <2>5. /\ e \in Browser /\ e.phase = k.phase /\ e.cursor \in Cursor
        /\ e.cursor.epoch = epoch /\ e.cursor.seq = f.to
        /\ e.cache = cache
    <3> DEFINE p == [k.cursor EXCEPT !.seq = f.to]
    <3>1. p \in Cursor /\ p.epoch = epoch /\ p.seq = f.to
      BY <1>3, <2>1 DEF Cursor
    <3>2. e = [k EXCEPT !.cursor = p, !.ack = TRUE, !.cache = cache]
      OBVIOUS
    <3> HIDE DEF p, e
    <3>3. e \in Browser
      BY <1>1, <2>4, <3>1, <3>2 DEF Browser
    <3>4. e.phase = k.phase /\ e.cursor = p /\ e.cache = cache
      BY <1>1, <3>2 DEF Browser
    <3> QED
      BY <3>1, <3>3, <3>4
  <2>6. client' = [client EXCEPT ![c] = e]
    BY <1>9 DEF cache
  <2> HIDE DEF e
  <2>7. /\ client'[c] = e /\ client' \in [Client -> Browser]
        /\ down'[c] = Tail(q) /\ down' \in [Client -> Seq(Frame)]
        /\ seen'[c] = f.to /\ seen' \in [Client -> Nat]
        /\ \A d \in Client \ {c} : client'[d] = client[d] /\ down'[d] = down[d] /\ seen'[d] = seen[d]
    BY <1>1, <1>2, <1>9, <2>1, <2>5, <2>6 DEF TypeOK
  <2>8. /\ WatchedIsPublished' /\ LeasesHeld'
    BY <1>1, <1>9, QuietKeeps DEF broker
  <2>9. Told(c)'
    <3>1. Reached(c, 2) = f.to
      BY DEF Reached
    <3> QED
      BY <1>1, <1>5, <1>9, <2>1, <2>5, <2>7, <3>1, ToldTail
  <2>10. Asked(c)'
    <3>1. CASE session[c] = None
      BY <1>5, <1>9, <3>1 DEF Asked
    <3>2. CASE session[c] # None
      <4>1. \A i \in DOMAIN up[c] : up[c][i].cursor.seq <= f.to
        <5>1. \A i \in DOMAIN up[c] : up[c][i].cursor.seq <= k.cursor.seq
          BY <1>4, <1>5, <3>2 DEF Asked
        <5>2. \A i \in DOMAIN up[c] : up[c][i].cursor.seq \in Nat
          <6>1. up[c] \in Seq(Control)
            BY <1>1 DEF TypeOK
          <6>2. \A i \in DOMAIN up[c] : up[c][i] \in Control
            BY <6>1, ElementOfSeq, LenProperties
          <6> QED
            BY <6>2 DEF Control, Cursor
        <5> QED
          BY <2>1, <5>1, <5>2
      <4> QED
        BY <1>4, <1>5, <1>9, <2>1, <2>5, <2>7, <3>2, <4>1 DEF Asked
    <3> QED
      BY <3>1, <3>2
  <2>11. Phases(c)'
    BY <1>1, <2>5, <2>7, NoneAssumption DEF Phases
  <2>12. Cached(c)' /\ seen'[c] <= Len(log')
    <3>1. epoch <= epoch
      BY <1>1 DEF TypeOK
    <3> QED
      BY <1>1, <2>1, <2>4, <2>5, <2>7, <3>1 DEF Cached
  <2>13. Paged(c)'
    BY <2>9, <2>10, <2>11, <2>12 DEF Paged
  <2>14. \A d \in Client : Paged(d)'
    BY <1>1, <1>6, <1>9, <2>7, <2>13, ActorKeeps
  <2>15. \A r \in calls' : Replying(r)'
    BY <1>1, <1>6, <1>7, <1>9, <2>7, RepliesKeep
  <2>16. TypeOK'
    BY <1>1, <1>9, <2>7 DEF TypeOK
  <2> QED
    BY <2>8, <2>14, <2>15, <2>16 DEF DeliveryInv
<1>10. CASE Recover(c, TRUE) /\ UNCHANGED seen
  BY <1>1, <1>10, RecoverKeeps
<1>11. \/ f.type = "subscribed" /\ client' = [client EXCEPT ![c].phase = "live"]
          /\ down' = [down EXCEPT ![c] = Tail(q)]
          /\ UNCHANGED <<session, up, watch, calls, seen>>
       \/ f.type = "range" /\ Continues(k, f)
          /\ client' = [client EXCEPT ![c] = [k EXCEPT !.cursor.seq = f.to, !.ack = TRUE,
                                                       !.cache = Apply(k.cache, f.updates)]]
          /\ down' = [down EXCEPT ![c] = Tail(q)]
          /\ seen' = [seen EXCEPT ![c] = f.to]
          /\ UNCHANGED <<session, up, watch, calls>>
       \/ Recover(c, TRUE) /\ UNCHANGED seen
  <2>1. Head(q) = f
    BY <1>2
  <2> HIDE DEF f
  <2> QED
    BY <2>1, Zenon DEF Receive
<1> QED
  BY <1>8, <1>9, <1>10, <1>11

(* No frame begins before what the browser has: the first that did would    *)
(* continue one that does not.                                              *)
LEMMA Ahead ==
  ASSUME TypeOK, NEW c \in Client, Told(c), client[c].cursor \in Cursor
  PROVE  \A i \in DOMAIN down[c] : down[c][i].type = "range" =>
           /\ down[c][i].from \in Nat /\ down[c][i].to \in Nat
           /\ client[c].cursor.seq <= down[c][i].from /\ down[c][i].from < down[c][i].to
<1> DEFINE q == down[c]
           n == client[c].cursor.seq
           N == Len(q)
           bad == {i \in 1 .. N : q[i].type = "range" /\ q[i].from < n}
           S == {N - i : i \in bad}
<1>1. /\ q \in Seq(Frame) /\ N \in Nat /\ DOMAIN q = 1 .. N /\ n \in Nat
      /\ \A i \in 1 .. N : q[i] \in Frame
  <2>1. q \in Seq(Frame)
    BY DEF TypeOK
  <2> HIDE DEF q
  <2>2. N \in Nat /\ DOMAIN q = 1 .. N /\ \A i \in 1 .. N : q[i] \in Frame
    BY <2>1, ElementOfSeq, LenProperties
  <2> QED
    BY <2>1, <2>2 DEF Cursor
<1>2. \A i \in 1 .. N :
        /\ q[i].type \in {"resync", "subscribed", "range"}
        /\ q[i].type = "resync" => i = N
        /\ q[i].type = "subscribed" => q[i].to = n
        /\ q[i].type = "range" => /\ q[i].from \in Nat /\ q[i].to \in Nat
                                  /\ q[i].from < q[i].to
                                  /\ q[i].from = IF i = 1 THEN n ELSE q[i - 1].to
  BY <1>1, FrameType DEF Told, Reached
<1> HIDE DEF q, n, N
<1>3. bad = {}
  <2> SUFFICES ASSUME bad # {} PROVE FALSE
    OBVIOUS
  <2>1. S \in SUBSET (0 .. N) /\ S # {}
    <3>1. \A i \in bad : i \in 1 .. N
      OBVIOUS
    <3>2. \A i \in 1 .. N : N - i \in 0 .. N
      BY <1>1
    <3> HIDE DEF bad
    <3> QED
      BY <3>1, <3>2
  <2>2. \E x \in S : \A y \in S : y <= x
    <3> HIDE DEF S
    <3> QED
      BY <1>1, <2>1, Greatest
  <2>3. PICK i \in bad : \A j \in bad : N - j <= N - i
    <3> HIDE DEF bad
    <3> QED
      BY <2>2
  <2>4. i \in 1 .. N /\ q[i].type = "range" /\ q[i].from < n /\ q[i].from \in Nat
    BY <1>2, <2>3
  <2>5. i # 1
    BY <1>1, <1>2, <2>4
  <2> DEFINE p == i - 1
  <2>6. p \in 1 .. N /\ p # N /\ p < i /\ q[i].from = q[p].to
    BY <1>1, <1>2, <2>4, <2>5
  <2>7. p \notin bad
    <3>1. \A j \in bad : j \in Nat /\ N - j <= N - i
      BY <2>3
    <3>2. ~ (N - p <= N - i)
      BY <1>1, <2>4, <2>6
    <3> HIDE DEF bad, p
    <3> QED
      BY <3>1, <3>2
  <2> HIDE DEF p
  <2>8. CASE q[p].type = "subscribed"
    BY <1>1, <1>2, <2>4, <2>6, <2>8
  <2>9. CASE q[p].type = "range"
    <3>1. ~ (q[p].from < n)
      BY <2>6, <2>7, <2>9
    <3>2. q[p].from \in Nat /\ q[p].to \in Nat /\ q[p].from < q[p].to
      BY <1>2, <2>6, <2>9
    <3> QED
      BY <1>1, <2>4, <2>6, <3>1, <3>2
  <2> QED
    BY <1>2, <2>6, <2>8, <2>9
<1>4. \A i \in 1 .. N : q[i].type = "range" => ~ (q[i].from < n)
  BY <1>3
<1>5. \A i \in 1 .. N : q[i].type = "range" =>
        q[i].from \in Nat /\ q[i].to \in Nat /\ n <= q[i].from /\ q[i].from < q[i].to
  <2> SUFFICES ASSUME NEW i \in 1 .. N, q[i].type = "range"
               PROVE  q[i].from \in Nat /\ q[i].to \in Nat /\ n <= q[i].from /\ q[i].from < q[i].to
    OBVIOUS
  <2>1. q[i].from \in Nat /\ q[i].to \in Nat /\ q[i].from < q[i].to /\ ~ (q[i].from < n)
    BY <1>2, <1>4
  <2> QED
    BY <1>1, <2>1
<1> QED
  BY <1>1, <1>5 DEF q, n

(* A frame of the next events continues the frames before it.               *)
LEMMA TickKeeps ==
  ASSUME DeliveryInv, NEW c \in Client, Tick(c)
  PROVE  DeliveryInv'
<1> DEFINE z == session[c]
           q == down[c]
<1>1. /\ TypeOK /\ Paged(c) /\ \A r \in calls : Replying(r)
      /\ WatchedIsPublished /\ LeasesHeld
      /\ z # None /\ z.subscribed /\ z.after < Len(log)
      /\ item' = item /\ epoch' = epoch /\ log' = log /\ floor' = floor /\ watch' = watch
      /\ failed' = failed /\ changes' = changes
      /\ up' = up /\ client' = client /\ calls' = calls /\ seen' = seen
  BY DEF DeliveryInv, Tick, broker
<1>2. PICK to \in (z.after + 1) .. Len(log) :
        /\ down' = [down EXCEPT ![c] = Append(@, [type |-> "range", from |-> z.after, to |-> to,
                      updates |-> Relevant(log, z.after, to, Selection[c])])]
        /\ session' = [session EXCEPT ![c].after = to, ![c].boundaries = @ \cup {to}]
  BY DEF Tick
<1> DEFINE f == [type |-> "range", from |-> z.after, to |-> to,
                 updates |-> Relevant(log, z.after, to, Selection[c])]
           y == [z EXCEPT !.after = to, !.boundaries = @ \cup {to}]
<1>3. /\ z \in Session /\ z.after \in Nat /\ z.acked \in Nat /\ z.boundaries \in SUBSET Nat
      /\ log \in Seq(Event) /\ Len(log) \in Nat /\ to \in Nat /\ z.after < to /\ to <= Len(log)
  <2>1. z \in Session
    BY <1>1 DEF TypeOK
  <2>2. z.after \in Nat /\ z.acked \in Nat /\ z.boundaries \in SUBSET Nat
    BY <2>1 DEF Session
  <2>3. log \in Seq(Event) /\ Len(log) \in Nat
    BY <1>1, LenProperties DEF TypeOK
  <2> QED
    BY <2>1, <2>2, <2>3
<1>4. f \in Frame /\ f.type = "range" /\ f.from = z.after /\ f.to = to
      /\ f.updates = Relevant(log, z.after, to, Selection[c])
  <2> DEFINE R == Relevant(log, z.after, to, Selection[c])
             D == {m \in (z.after + 1) .. to : log[m].source \in Selection[c]}
  <2>1. R \in Updates
    <3>1. R = [m \in D |-> log[m]]
      BY DEF Relevant
    <3>2. \A m \in D : log[m] \in Event /\ m \in Nat
      <4> SUFFICES ASSUME NEW m \in D PROVE log[m] \in Event /\ m \in Nat
        OBVIOUS
      <4>1. m \in (z.after + 1) .. to
        OBVIOUS
      <4>2. m \in 1 .. Len(log)
        BY <1>3, <4>1
      <4> QED
        BY <1>3, <4>2, ElementOfSeq
    <3> HIDE DEF R, D
    <3>3. R \in [D -> Event] /\ D \in SUBSET Nat
      BY <3>1, <3>2
    <3> QED
      BY <3>3 DEF Updates
  <2> HIDE DEF R
  <2>2. [type |-> "range", from |-> z.after, to |-> to, updates |-> R] \in
          [type : {"range"}, from : Nat, to : Nat, updates : Updates]
    BY <1>3, <2>1
  <2> QED
    BY <2>2 DEF Frame, R
<1>5. /\ y \in Session /\ y # None /\ y.subscribed /\ y.after = to /\ y.acked = z.acked
      /\ y.boundaries = z.boundaries \cup {to}
  <2>1. /\ y \in Session /\ y.subscribed = z.subscribed /\ y.after = to /\ y.acked = z.acked
        /\ y.boundaries = z.boundaries \cup {to}
    BY <1>3 DEF Session
  <2> QED
    BY <1>1, <2>1, NoneAssumption
<1>6. session' = [session EXCEPT ![c] = y] /\ down' = [down EXCEPT ![c] = Append(@, f)]
  BY <1>2
<1> HIDE DEF f, y
<1>7. /\ q \in Seq(Frame) /\ Len(q) \in Nat /\ DOMAIN q = 1 .. Len(q)
      /\ Append(q, f) \in Seq(Frame) /\ Len(Append(q, f)) = Len(q) + 1
      /\ DOMAIN Append(q, f) = 1 .. Len(q) + 1
      /\ \A i \in 1 .. Len(q) : Append(q, f)[i] = q[i]
      /\ Append(q, f)[Len(q) + 1] = f
  <2>1. q \in Seq(Frame)
    BY <1>1 DEF TypeOK
  <2> HIDE DEF q
  <2>2. DOMAIN q = 1 .. Len(q) /\ Append(q, f) \in Seq(Frame) /\ Len(Append(q, f)) = Len(q) + 1
    BY <1>4, <2>1, AppendIs, LenProperties
  <2>3. DOMAIN Append(q, f) = 1 .. Len(q) + 1
    BY <2>2, LenProperties
  <2> QED
    BY <1>4, <2>1, <2>2, <2>3, AppendIs
<1>8. /\ session'[c] = y /\ session' \in [Client -> Session \cup {None}]
      /\ down'[c] = Append(q, f) /\ down' \in [Client -> Seq(Frame)]
      /\ \A d \in Client \ {c} : session'[d] = session[d] /\ down'[d] = down[d]
  BY <1>1, <1>5, <1>6, <1>7 DEF TypeOK
<1>9. WatchedIsPublished'
  BY <1>1, WatchKept
<1>10. LeasesHeld'
  <2>1. \A d \in Client : /\ session'[d] = None <=> session[d] = None
                          /\ session[d] # None => /\ session'[d].subscribed <=> session[d].subscribed
                                                  /\ session'[d].acked = session[d].acked
    BY <1>1, <1>5, <1>8
  <2>2. \A s \in Source : Subscribers(s)' = Subscribers(s)
    BY <2>1 DEF Subscribers
  <2> QED
    BY <1>1, <2>1, <2>2 DEF LeasesHeld, Watched, Subscribers
<1>11. Asked(c)'
  <2>1. Asked(c)
    BY <1>1 DEF Paged
  <2>2. z.acked <= z.after /\ \A b \in z.boundaries : z.acked < b /\ b <= z.after
    BY <1>1, <2>1 DEF Asked
  <2>3. z.acked <= to /\ \A b \in z.boundaries \cup {to} : z.acked < b /\ b <= to
    BY <1>3, <2>2
  <2> QED
    BY <1>1, <1>5, <1>8, <2>1, <2>3 DEF Asked
<1>12. Told(c)'
  <2>1. Told(c)
    BY <1>1 DEF Paged
  <2>2. ASSUME NEW i \in 1 .. Len(q)
        PROVE  /\ q[i].type # "resync"
               /\ q[i].type = "subscribed" => i = 1 /\ q[i].to = client[c].cursor.seq
               /\ q[i].type = "range" =>
                    /\ client[c].cursor.epoch = epoch
                    /\ q[i].from = Reached(c, i)
                    /\ q[i].from < q[i].to /\ q[i].to <= Len(log)
                    /\ q[i].updates = Relevant(log, q[i].from, q[i].to, Selection[c])
                    /\ q[i].to \in z.boundaries
    BY <1>1, <1>7, <2>1 DEF Told
  <2>3. client[c].cursor.epoch = epoch /\ z.after = Reached(c, Len(q) + 1)
    BY <1>1, <2>1 DEF Told
  <2> DEFINE g == down'[c]
             before(i) == IF i = 1 THEN client[c].cursor.seq ELSE q[i - 1].to
             after(i) == IF i = 1 THEN client'[c].cursor.seq ELSE g[i - 1].to
  <2>4. \A i : Reached(c, i) = before(i) /\ Reached(c, i)' = after(i)
    BY DEF Reached
  <2> HIDE DEF g, q
  <2>5. ASSUME NEW i \in 1 .. Len(q) + 1 PROVE after(i) = before(i)
    <3>1. CASE i = 1
      BY <1>1, <3>1
    <3>2. CASE i # 1
      <4>1. i - 1 \in 1 .. Len(q)
        BY <1>7, <3>2
      <4>2. g[i - 1] = q[i - 1]
        BY <1>7, <1>8, <4>1 DEF g, q
      <4> QED
        BY <3>2, <4>2
    <3> QED
      BY <3>1, <3>2
  <2> HIDE DEF after, before
  <2>6. ASSUME NEW i \in DOMAIN g
        PROVE  /\ g[i].type # "resync"
               /\ g[i].type = "subscribed" => i = 1 /\ g[i].to = client[c].cursor.seq
               /\ g[i].type = "range" =>
                    /\ client[c].cursor.epoch = epoch
                    /\ g[i].from = after(i)
                    /\ g[i].from < g[i].to /\ g[i].to <= Len(log)
                    /\ g[i].updates = Relevant(log, g[i].from, g[i].to, Selection[c])
                    /\ g[i].to \in z.boundaries \cup {to}
    <3>1. i \in 1 .. Len(q) + 1
      BY <1>7, <1>8 DEF g, q
    <3>2. CASE i \in 1 .. Len(q)
      <4>1. g[i] = q[i] /\ Reached(c, i) = after(i)
        BY <1>7, <1>8, <2>4, <2>5, <3>1, <3>2 DEF g, q
      <4> QED
        BY <2>2, <3>2, <4>1
    <3>3. CASE i = Len(q) + 1
      <4>1. g[i] = f
        BY <1>7, <1>8, <3>3 DEF g, q
      <4>2. after(i) = z.after
        BY <2>3, <2>4, <2>5, <3>1, <3>3
      <4> QED
        BY <1>3, <1>4, <2>3, <4>1, <4>2
    <3> QED
      BY <1>7, <3>1, <3>2, <3>3
  <2>7. after(Len(g) + 1) = to
    <3>1. Len(g) = Len(q) + 1 /\ g[Len(q) + 1] = f
      BY <1>7, <1>8 DEF g, q
    <3>2. Len(g) + 1 # 1 /\ (Len(g) + 1) - 1 = Len(q) + 1
      BY <1>7, <3>1
    <3> QED
      BY <1>4, <3>1, <3>2 DEF after
  <2>8. Reached(c, Len(down[c]) + 1)' = after(Len(g) + 1)
    BY <2>4 DEF g, Reached, after
  <2>9. \A i \in DOMAIN g : Reached(c, i)' = after(i)
    BY <2>4
  <2> QED
    BY <1>1, <1>3, <1>5, <1>8, <2>3, <2>6, <2>7, <2>8, <2>9 DEF Told, g
<1>13. Paged(c)'
  <2>1. Phases(c)'
    BY <1>1 DEF Paged, Phases
  <2>2. Cached(c)' /\ seen'[c] <= Len(log')
    BY <1>1 DEF Paged, Cached
  <2> QED
    BY <1>11, <1>12, <2>1, <2>2 DEF Paged
<1>14. log' \in Seq(Event) /\ Extends(log, log')
  BY <1>1, SameExtends DEF TypeOK
<1>15. \A d \in Client : Paged(d)'
  BY <1>1, <1>8, <1>13, <1>14, ActorKeeps
<1>16. \A r \in calls' : Replying(r)'
  <2>1. \A r \in calls : r.client \in Client
    BY <1>1 DEF TypeOK, Call
  <2> QED
    BY <1>1, <1>14, <2>1, RepliesKeep
<1>17. TypeOK'
  BY <1>1, <1>8 DEF TypeOK
<1> QED
  BY <1>9, <1>10, <1>15, <1>16, <1>17 DEF DeliveryInv

(* A settled boundary: those after it are left, and so are the frames and   *)
(* the acknowledgements that are on their way.                              *)
LEMMA AcknowledgeKeeps ==
  ASSUME DeliveryInv, NEW c \in Client, Acknowledge(c)
  PROVE  DeliveryInv'
<1> DEFINE z == session[c]
           u == up[c]
           n == u[1].cursor.seq
           y == [z EXCEPT !.acked = n, !.boundaries = {b \in @ : b > n}]
<1>1. /\ TypeOK /\ Paged(c) /\ WatchedIsPublished /\ LeasesHeld
      /\ z # None /\ u # <<>> /\ Head(u).type = "ack"
      /\ UNCHANGED <<item, epoch, log, floor, failed, client, calls, seen, changes>>
  BY DEF DeliveryInv, Acknowledge
<1>2. /\ Tail(u) \in Seq(Control) /\ Len(u) \in Nat \ {0} /\ Len(Tail(u)) = Len(u) - 1
      /\ DOMAIN Tail(u) = 1 .. Len(u) - 1 /\ DOMAIN u = 1 .. Len(u)
      /\ Head(u) = u[1] /\ u[1] \in Control
      /\ \A i \in 1 .. Len(u) - 1 : Tail(u)[i] = u[i + 1]
  <2>1. u \in Seq(Control)
    BY <1>1 DEF TypeOK
  <2> HIDE DEF u
  <2> QED
    BY <1>1, <2>1, TailIs
<1>3. \/ Abort(c)
      \/ /\ n = z.acked \/ n \in z.boundaries
         /\ session' = [session EXCEPT ![c] = y] /\ up' = [up EXCEPT ![c] = Tail(u)]
         /\ watch' = watch /\ down' = down
  BY <1>2 DEF Acknowledge
<1>4. CASE Abort(c)
  BY <1>1, <1>4, AbortKeeps
<1>5. CASE /\ n = z.acked \/ n \in z.boundaries
           /\ session' = [session EXCEPT ![c] = y] /\ up' = [up EXCEPT ![c] = Tail(u)]
           /\ watch' = watch /\ down' = down
  <2>1. z.subscribed
    <3>1. ~ z.subscribed => u = <<[type |-> "subscribe", cursor |-> client[c].cursor]>>
      BY <1>1 DEF Paged, Asked
    <3>2. ~ z.subscribed => u[1].type = "subscribe"
      BY <3>1
    <3> QED
      BY <1>1, <1>2, <3>2
  <2>2. /\ z \in Session /\ z.after \in Nat /\ z.acked \in Nat /\ z.boundaries \in SUBSET Nat
        /\ n \in Nat
    <3>1. z \in Session
      BY <1>1 DEF TypeOK
    <3>2. n \in Nat
      BY <1>2 DEF Control, Cursor
    <3> QED
      BY <3>1, <3>2 DEF Session
  <2>3. client[c].cursor \in Cursor /\ client[c].cursor.seq \in Nat
    <3>1. client[c].cursor # None /\ client[c] \in Browser
      BY <1>1, Zenon DEF TypeOK, Paged, Phases
    <3> QED
      BY <3>1 DEF Browser, Cursor
  <2> DEFINE m == client[c].cursor.seq
  <2>4. /\ \A i \in 1 .. Len(u) :
             /\ u[i].type = "ack" /\ u[i].cursor.seq <= m /\ n <= u[i].cursor.seq
             /\ u[i].cursor.seq \in {z.acked} \cup z.boundaries
             /\ \A j \in 1 .. Len(u) : i < j => u[i].cursor.seq <= u[j].cursor.seq
        /\ m \in {z.acked} \cup z.boundaries /\ n <= m
        /\ z.acked <= z.after
        /\ \A b \in z.boundaries : z.acked < b /\ b <= z.after
    <3>1. /\ \A i \in 1 .. Len(u) :
               /\ u[i].type = "ack" /\ u[i].cursor.seq <= m
               /\ u[i].cursor.seq \in {z.acked} \cup z.boundaries
               /\ \A j \in 1 .. Len(u) : i < j => u[i].cursor.seq <= u[j].cursor.seq
          /\ m \in {z.acked} \cup z.boundaries
          /\ z.acked <= z.after
          /\ \A b \in z.boundaries : z.acked < b /\ b <= z.after
      BY <1>1, <1>2, <2>1 DEF Paged, Asked
    <3>2. 1 \in 1 .. Len(u)
      BY <1>2
    <3>3. \A i \in 1 .. Len(u) : n <= u[i].cursor.seq
      <4> SUFFICES ASSUME NEW i \in 1 .. Len(u) PROVE n <= u[i].cursor.seq
        OBVIOUS
      <4>1. CASE i = 1
        BY <2>2, <4>1
      <4>2. CASE i # 1
        <5>1. 1 < i
          BY <1>2, <4>2
        <5> QED
          BY <3>1, <3>2, <5>1
      <4> QED
        BY <4>1, <4>2
    <3>4. n <= m
      BY <3>1, <3>2
    <3> QED
      BY <3>1, <3>3, <3>4
  <2> HIDE DEF m, n, u
  <2> DEFINE left == {b \in z.boundaries : b > n}
  <2>5. /\ y \in Session /\ y.subscribed = z.subscribed /\ y.after = z.after /\ y.acked = n
        /\ y.boundaries = left
    <3>1. left \in SUBSET Nat
      BY <2>2
    <3>2. y = [z EXCEPT !.acked = n, !.boundaries = left]
      OBVIOUS
    <3> HIDE DEF left, y
    <3> QED
      BY <2>2, <3>1, <3>2 DEF Session
  <2>6. y # None
    BY <2>5, NoneAssumption
  <2>7. /\ session'[c] = y /\ session' \in [Client -> Session \cup {None}]
        /\ up'[c] = Tail(u) /\ up' \in [Client -> Seq(Control)]
        /\ \A d \in Client \ {c} : session'[d] = session[d] /\ up'[d] = up[d]
    BY <1>1, <1>2, <1>5, <2>5 DEF TypeOK
  <2> HIDE DEF y
  <2>8. z.acked <= n /\ \A x \in {z.acked} \cup z.boundaries : x \in Nat /\ (n <= x => x \in {n} \cup left)
    <3>1. z.acked <= n /\ n <= z.after
      BY <1>5, <2>2, <2>4
    <3>2. ASSUME NEW x \in {z.acked} \cup z.boundaries, n <= x PROVE x \in {n} \cup left
      <4>1. x \in Nat
        BY <2>2
      <4>2. CASE x = n
        BY <4>2
      <4>3. CASE x # n
        <5>1. x > n
          BY <2>2, <3>2, <4>1, <4>3
        <5>2. x # z.acked
          BY <2>2, <3>1, <5>1
        <5> QED
          BY <5>1, <5>2
      <4> QED
        BY <4>2, <4>3
    <3> QED
      BY <2>2, <3>1, <3>2
  <2>9. n <= z.after
    BY <1>5, <2>2, <2>4
  <2>10. WatchedIsPublished'
    BY <1>1, <1>5, WatchKept
  <2>11. LeasesHeld'
    <3>1. \A d \in Client : /\ session'[d] = None <=> session[d] = None
                            /\ session[d] # None =>
                                 session'[d].subscribed <=> session[d].subscribed
      BY <1>1, <2>5, <2>6, <2>7
    <3>2. \A s \in Source : Subscribers(s)' = Subscribers(s)
      BY <3>1 DEF Subscribers
    <3>3. ASSUME NEW d \in Client, session'[d] # None, session'[d].subscribed, NEW s \in Selection[d]
          PROVE  watch'[s] # None /\ watch'[s].since =< session'[d].acked
      <4>1. s \in Source /\ watch[s] # None /\ watch[s].since =< session[d].acked
        <5>1. session[d] # None /\ session[d].subscribed
          BY <3>1, <3>3
        <5> QED
          BY <1>1, <5>1, DeliveryAssumption DEF LeasesHeld, Watched
      <4>2. CASE d = c
        <5>1. watch[s].since \in Nat
          BY <1>1, <4>1 DEF TypeOK, Watch
        <5>2. watch[s].since =< z.acked
          BY <4>1, <4>2
        <5> QED
          BY <1>5, <2>2, <2>5, <2>7, <2>8, <4>1, <4>2, <5>1, <5>2
      <4>3. CASE d # c
        BY <1>5, <2>7, <4>1, <4>3
      <4> QED
        BY <4>2, <4>3
    <3>4. ASSUME NEW s \in Source, watch'[s] # None
          PROVE  watch'[s].refs = Cardinality(Subscribers(s)')
      <4>1. watch[s].refs = Cardinality(Subscribers(s))
        BY <1>1, <1>5, <3>4 DEF LeasesHeld, Watched, Subscribers
      <4> QED
        BY <1>5, <3>2, <4>1
    <3> QED
      BY <3>3, <3>4, DeliveryAssumption DEF LeasesHeld, Watched, Subscribers
  <2>12. Asked(c)'
    <3>1. ASSUME NEW i \in DOMAIN up'[c]
          PROVE  /\ up'[c][i].type = "ack" /\ up'[c][i].cursor.seq <= m
                 /\ up'[c][i].cursor.seq \in {n} \cup left
                 /\ \A j \in DOMAIN up'[c] : i < j => up'[c][i].cursor.seq <= up'[c][j].cursor.seq
      <4>1. DOMAIN up'[c] = 1 .. Len(u) - 1 /\ \A j \in 1 .. Len(u) - 1 : up'[c][j] = u[j + 1]
        BY <1>2, <2>7
      <4>2. i + 1 \in 1 .. Len(u) /\ up'[c][i] = u[i + 1]
        BY <1>2, <4>1
      <4>3. /\ u[i + 1].type = "ack" /\ u[i + 1].cursor.seq <= m /\ n <= u[i + 1].cursor.seq
            /\ u[i + 1].cursor.seq \in {z.acked} \cup z.boundaries
        BY <2>4, <4>2
      <4>4. ASSUME NEW j \in DOMAIN up'[c], i < j
            PROVE  up'[c][i].cursor.seq <= up'[c][j].cursor.seq
        <5>1. j + 1 \in 1 .. Len(u) /\ up'[c][j] = u[j + 1] /\ i + 1 < j + 1
          BY <1>2, <4>1, <4>4
        <5> QED
          BY <2>4, <4>2, <5>1
      <4> QED
        BY <2>8, <4>2, <4>3, <4>4
    <3>2. m \in {n} \cup left
      BY <2>4, <2>8
    <3>3. \A b \in left : n < b /\ b <= z.after
      BY <2>2, <2>4
    <3>4. client'[c].cursor.seq = m
      BY <1>1 DEF m
    <3> QED
      BY <2>1, <2>5, <2>6, <2>7, <2>9, <3>1, <3>2, <3>3, <3>4 DEF Asked
  <2>13. Told(c)'
    <3>1. Told(c)
      BY <1>1 DEF Paged
    <3>2. \A i : Reached(c, i)' = Reached(c, i)
      BY <1>1, <1>5 DEF Reached
    <3>3. ASSUME NEW i \in DOMAIN down[c], down[c][i].type = "range" PROVE down[c][i].to \in left
      <4>1. /\ down[c][i].from \in Nat /\ down[c][i].to \in Nat
            /\ m <= down[c][i].from /\ down[c][i].from < down[c][i].to
        BY <1>1, <2>3, <3>1, <3>3, Ahead DEF m
      <4>2. down[c][i].to \in z.boundaries
        BY <1>1, <3>1, <3>3 DEF Told
      <4>3. down[c][i].to > n
        <5>1. m \in Nat
          BY <2>3 DEF m
        <5> QED
          BY <2>2, <2>4, <4>1, <5>1
      <4> QED
        BY <4>2, <4>3
    <3> QED
      BY <1>1, <1>5, <2>1, <2>5, <2>6, <2>7, <3>1, <3>2, <3>3 DEF Told
  <2>14. Paged(c)'
    <3>1. Phases(c)'
      BY <1>1, <1>5, <2>7 DEF Paged, Phases
    <3>2. Cached(c)' /\ seen'[c] <= Len(log')
      BY <1>1 DEF Paged, Cached
    <3> QED
      BY <2>12, <2>13, <3>1, <3>2 DEF Paged
  <2>15. log' \in Seq(Event) /\ Extends(log, log')
    BY <1>1, SameExtends DEF TypeOK
  <2>16. \A d \in Client : Paged(d)'
    BY <1>1, <1>5, <2>7, <2>14, <2>15, ActorKeeps
  <2>17. \A r \in calls' : Replying(r)'
    <3>1. \A r \in calls : r.client \in Client
      BY <1>1 DEF TypeOK, Call
    <3> QED
      BY <1>1, <2>15, <3>1, RepliesKeep
  <2>18. TypeOK'
    BY <1>1, <1>5, <2>7 DEF TypeOK
  <2> QED
    BY <2>10, <2>11, <2>16, <2>17, <2>18 DEF DeliveryInv
<1> QED
  BY <1>3, <1>4, <1>5

(* A subscription takes its leases, or the session ends; what it begins     *)
(* with is the cursor its browser asked with.                               *)
LEMMA SubscribeKeeps ==
  ASSUME DeliveryInv, NEW c \in Client, Subscribe(c)
  PROVE  DeliveryInv'
<1> DEFINE u == up[c]
           cur == client[c].cursor
           w == Invalidated
           n == cur.seq
           y == [subscribed |-> TRUE, after |-> n, acked |-> n, boundaries |-> {}]
           f == [type |-> "subscribed", to |-> n]
           g == [type |-> "resync"]
           leased == [s \in Source |-> IF s \in Selection[c] THEN [w[s] EXCEPT !.refs = @ + 1] ELSE w[s]]
           ss == SetToSeq(Dirty)
<1>1. /\ TypeOK /\ Paged(c) /\ WatchedIsPublished /\ LeasesHeld /\ ~ failed
      /\ session[c] # None /\ u # <<>> /\ Head(u).type = "subscribe" /\ Publishes(ss)
      /\ item' = item /\ epoch' = epoch /\ failed' = failed /\ client' = client
      /\ calls' = calls /\ seen' = seen /\ changes' = changes
  BY DEF DeliveryInv, Subscribe
<1>2. ~ session[c].subscribed
  <2>1. Head(u) = u[1] /\ 1 \in DOMAIN u
    <3>1. u \in Seq(Control)
      BY <1>1 DEF TypeOK
    <3> HIDE DEF u
    <3> QED
      BY <1>1, <3>1, TailIs
  <2>2. session[c].subscribed => u[1].type = "ack"
    BY <1>1, <2>1 DEF Paged, Asked
  <2> QED
    BY <1>1, <2>1, <2>2
<1>3. u = <<[type |-> "subscribe", cursor |-> cur]>> /\ down[c] = <<>> /\ ~ client[c].ack
  BY <1>1, <1>2 DEF Paged, Asked
<1>4. cur \in Cursor /\ cur # None /\ n \in Nat
  <2>1. client[c].cursor # None /\ client[c] \in Browser
    BY <1>1, Zenon DEF TypeOK, Paged, Phases
  <2> QED
    BY <2>1 DEF Browser, Cursor
<1>5. Head(u).cursor = cur /\ Tail(u) = <<>>
  BY <1>3
<1>6. \/ /\ Acquires(c, cur, w)
         /\ session' = [session EXCEPT ![c] = y] /\ watch' = leased
         /\ up' = [up EXCEPT ![c] = <<>>] /\ down' = [down EXCEPT ![c] = <<f>>]
      \/ /\ session' = [session EXCEPT ![c] = None] /\ watch' = w
         /\ up' = [up EXCEPT ![c] = <<>>] /\ down' = [down EXCEPT ![c] = <<g>>]
  <2>1. down[c] = <<>> => Append(down[c], f) = <<f>> /\ Append(down[c], g) = <<g>>
    OBVIOUS
  <2> HIDE DEF f, g, y, leased
  <2>2. CASE Acquires(c, cur, w)
    BY <1>3, <1>5, <2>1, <2>2 DEF Subscribe, f, g, y, leased
  <2>3. CASE ~ Acquires(c, cur, w)
    BY <1>3, <1>5, <2>1, <2>3 DEF Subscribe, f, g, y, leased
  <2> QED
    BY <2>2, <2>3
<1>7. /\ ss \in Seq(Source) /\ \A i, j \in 1 .. Len(ss) : ss[i] = ss[j] => i = j
      /\ \A s : s \in Dirty <=> \E k \in 1 .. Len(ss) : ss[k] = s
  BY <1>1, InvalidatedIs, RowOf
<1>8. /\ log' \in Seq(Event) /\ floor' \in Nat /\ Extends(log, log')
      /\ Len(log) \in Nat /\ Len(ss) \in Nat /\ Len(log') \in Nat /\ Len(log) <= Len(log')
  <2> HIDE DEF ss
  <2>1. /\ log' \in Seq(Event) /\ floor' \in Nat /\ Extends(log, log')
        /\ Len(log) \in Nat /\ Len(ss) \in Nat
    BY <1>1, <1>7, PublishesIs DEF TypeOK
  <2> QED
    BY <2>1, LenProperties DEF Extends
<1>9. ASSUME NEW s \in Source
      PROVE  /\ w[s] \in Watch \cup {None} /\ (w[s] = None <=> watch[s] = None)
             /\ w[s] # None => w[s].refs = watch[s].refs /\ w[s].since = watch[s].since
  BY <1>1, InvalidatedIs
<1>10. ASSUME \A s \in Source : /\ watch'[s] = None <=> w[s] = None
                                /\ w[s] # None => /\ watch'[s].sig = w[s].sig
                                                  /\ watch'[s].since = w[s].since
       PROVE  WatchedIsPublished'
  <2> HIDE DEF ss
  <2>1. ASSUME NEW s \in Source, watch'[s] # None
        PROVE  \/ \E k \in 1 .. Len(ss) :
                    /\ ss[k] = s /\ watch'[s].sig = item[s] /\ watch'[s].since <= Len(log) + k
               \/ /\ \A k \in 1 .. Len(ss) : ss[k] # s
                  /\ watch[s] # None
                  /\ watch'[s].sig = watch[s].sig /\ watch'[s].since = watch[s].since
    <3>1. w[s] # None /\ watch'[s].sig = w[s].sig /\ watch'[s].since = w[s].since
      BY <1>10, <2>1
    <3>2. /\ w[s].since <= Len(log) /\ w[s].since \in Nat
          /\ s \in Dirty => w[s].sig = item[s]
          /\ s \notin Dirty => watch[s] # None /\ w[s].sig = watch[s].sig /\ w[s].since = watch[s].since
      BY <1>1, <3>1, InvalidatedPlace
    <3> HIDE DEF w
    <3>3. CASE s \in Dirty
      <4>1. PICK k \in 1 .. Len(ss) : ss[k] = s
        BY <1>7, <3>3
      <4>2. watch'[s].since <= Len(log) + k
        BY <1>8, <3>1, <3>2
      <4> QED
        BY <3>1, <3>2, <3>3, <4>1, <4>2
    <3>4. CASE s \notin Dirty
      BY <1>7, <3>1, <3>2, <3>4
    <3> QED
      BY <3>3, <3>4
  <2> QED
    BY <1>1, <1>7, <2>1, PublishedKeeps
<1>11. up'[c] = <<>> /\ up' \in [Client -> Seq(Control)]
       /\ \A d \in Client \ {c} : /\ session'[d] = session[d] /\ up'[d] = up[d]
                                  /\ down'[d] = down[d]
  <2> HIDE DEF w, ss, y, f, g, leased
  <2>1. /\ up' = [up EXCEPT ![c] = <<>>]
        /\ \E a : session' = [session EXCEPT ![c] = a]
        /\ \E a : down' = [down EXCEPT ![c] = a]
    BY <1>6
  <2>2. /\ up \in [Client -> Seq(Control)] /\ session \in [Client -> Session \cup {None}]
        /\ down \in [Client -> Seq(Frame)]
    BY <1>1 DEF TypeOK
  <2>3. \A d \in Client \ {c} : session'[d] = session[d] /\ down'[d] = down[d]
    BY <2>1, <2>2
  <2>4. <<>> \in Seq(Control)
    OBVIOUS
  <2> QED
    BY <2>1, <2>2, <2>3, <2>4
<1> HIDE DEF w, ss
<1>12. ASSUME session' \in [Client -> Session \cup {None}], down' \in [Client -> Seq(Frame)],
              watch' \in [Source -> Watch \cup {None}],
              WatchedIsPublished', LeasesHeld', Asked(c)', Told(c)'
       PROVE  DeliveryInv'
  <2>1. Phases(c)'
    <3>1. client[c].phase \in {"subscribing", "live"}
      BY <1>1 DEF Paged, Phases
    <3> QED
      BY <1>1, <3>1 DEF Paged, Phases
  <2>2. Cached(c)' /\ seen'[c] <= Len(log')
    <3>1. seen[c] \in Nat /\ seen[c] <= Len(log) /\ log \in Seq(Event)
      BY <1>1 DEF Paged, TypeOK
    <3>2. seen[c] \in 0 .. Len(log) /\ seen[c] <= Len(log')
      BY <1>8, <3>1
    <3>3. Cached(c)
      BY <1>1 DEF Paged
    <3> QED
      BY <1>1, <1>8, <3>1, <3>2, <3>3, MomentLater DEF Cached
  <2>3. Paged(c)'
    BY <1>12, <2>1, <2>2 DEF Paged
  <2>4. \A d \in Client : Paged(d)'
    BY <1>1, <1>8, <1>11, <2>3, ActorKeeps
  <2>5. \A r \in calls' : Replying(r)'
    <3>1. \A r \in calls : r.client \in Client
      BY <1>1 DEF TypeOK, Call
    <3> QED
      BY <1>1, <1>8, <3>1, RepliesKeep
  <2>6. TypeOK'
    BY <1>1, <1>8, <1>11, <1>12 DEF TypeOK
  <2> QED
    BY <1>12, <2>4, <2>5, <2>6 DEF DeliveryInv
<1>13. \A s \in Source : IsFiniteSet(Subscribers(s)) /\ c \notin Subscribers(s)
  <2>1. \A s \in Source : Subscribers(s) \in SUBSET Client
    BY DEF Subscribers
  <2>2. \A s \in Source : c \notin Subscribers(s)
    BY <1>2 DEF Subscribers
  <2> QED
    BY <2>1, <2>2, FS_Subset, DeliveryAssumption
<1>14. \A s \in Source : w[s] # None => w[s].refs = Cardinality(Subscribers(s))
  <2>1. \A s \in Source : watch[s] # None => watch[s].refs = Cardinality(Subscribers(s))
    BY <1>1 DEF LeasesHeld, Watched, Subscribers
  <2> QED
    BY <1>9, <2>1
<1>15. ASSUME NEW d \in Client \ {c}, session[d] # None, session[d].subscribed,
              NEW s \in Selection[d]
       PROVE  s \in Source /\ w[s] # None /\ w[s].since =< session[d].acked
  <2>1. s \in Source /\ watch[s] # None /\ watch[s].since =< session[d].acked
    BY <1>1, <1>15, DeliveryAssumption DEF LeasesHeld, Watched
  <2> QED
    BY <1>9, <2>1
<1>16. CASE /\ Acquires(c, cur, w)
            /\ session' = [session EXCEPT ![c] = y] /\ watch' = leased
            /\ up' = [up EXCEPT ![c] = <<>>] /\ down' = [down EXCEPT ![c] = <<f>>]
  <2>1. /\ cur.epoch = epoch
        /\ \A s \in Selection[c] : s \in Source /\ w[s] # None /\ w[s].since =< n
    BY <1>16, DeliveryAssumption DEF Acquires
  <2>2. /\ y \in Session /\ y # None /\ y.subscribed /\ y.after = n /\ y.acked = n
        /\ y.boundaries = {}
    <3>1. y \in Session
      BY <1>4 DEF Session
    <3> QED
      BY <3>1, NoneAssumption
  <2>3. f \in Frame /\ <<f>> \in Seq(Frame) /\ Len(<<f>>) = 1 /\ DOMAIN <<f>> = {1}
        /\ <<f>>[1] = f /\ f.type = "subscribed" /\ f.to = n
    <3>1. f \in Frame /\ f.type = "subscribed" /\ f.to = n
      BY <1>4 DEF Frame
    <3> HIDE DEF f
    <3> QED
      BY <3>1
  <2> HIDE DEF y, f, n
  <2>4. /\ session'[c] = y /\ session' \in [Client -> Session \cup {None}]
        /\ down'[c] = <<f>> /\ down' \in [Client -> Seq(Frame)]
    BY <1>1, <1>16, <2>2, <2>3 DEF TypeOK
  <2>5. \A s \in Source : Subscribers(s)' = IF s \in Selection[c] THEN Subscribers(s) \cup {c}
                                                                  ELSE Subscribers(s)
    <3>1. \A d \in Client \ {c} : session'[d] = session[d]
      BY <1>11
    <3> QED
      BY <1>2, <2>2, <2>4, <3>1 DEF Subscribers
  <2>6. ASSUME NEW s \in Source
        PROVE  /\ watch'[s] \in Watch \cup {None} /\ (watch'[s] = None <=> w[s] = None)
               /\ w[s] # None =>
                    /\ watch'[s].sig = w[s].sig /\ watch'[s].since = w[s].since
                    /\ watch'[s].refs = Cardinality(Subscribers(s)')
    <3>1. watch'[s] = IF s \in Selection[c] THEN [w[s] EXCEPT !.refs = @ + 1] ELSE w[s]
      BY <1>16
    <3>2. CASE s \in Selection[c]
      <4> DEFINE N == Cardinality(Subscribers(s) \cup {c})
      <4>1. w[s] # None /\ w[s] \in Watch
        BY <1>9, <2>1, <3>2
      <4>2. N \in Nat /\ w[s].refs + 1 = N
        <5>1. IsFiniteSet(Subscribers(s)) /\ c \notin Subscribers(s)
          BY <1>13
        <5>2. IsFiniteSet(Subscribers(s) \cup {c}) /\ N = Cardinality(Subscribers(s)) + 1
          BY <5>1, FS_AddElement
        <5> QED
          BY <1>14, <4>1, <5>2, FS_CardinalityType
      <4> HIDE DEF N
      <4>3. watch'[s] = [sig |-> w[s].sig, refs |-> N, since |-> w[s].since]
        BY <3>1, <3>2, <4>1, <4>2 DEF Watch
      <4>4. [sig |-> w[s].sig, refs |-> N, since |-> w[s].since] \in Watch
        BY <4>1, <4>2 DEF Watch
      <4>5. watch'[s] # None /\ watch'[s] \in Watch
        BY <4>3, <4>4, NoneAssumption
      <4>6. watch'[s].sig = w[s].sig /\ watch'[s].since = w[s].since /\ watch'[s].refs = N
        BY <4>3
      <4> QED
        BY <2>5, <3>2, <4>1, <4>5, <4>6 DEF N
    <3>3. CASE s \notin Selection[c]
      BY <1>9, <1>14, <2>5, <3>1, <3>3
    <3> QED
      BY <3>2, <3>3
  <2>7. watch' \in [Source -> Watch \cup {None}]
    BY <1>16, <2>6
  <2>8. WatchedIsPublished'
    BY <1>10, <2>6
  <2>9. LeasesHeld'
    <3>1. ASSUME NEW d \in Client, session'[d] # None, session'[d].subscribed, NEW s \in Selection[d]
          PROVE  watch'[s] # None /\ watch'[s].since =< session'[d].acked
      <4>1. CASE d = c
        BY <2>1, <2>2, <2>4, <2>6, <3>1, <4>1
      <4>2. CASE d # c
        <5>1. session'[d] = session[d]
          BY <1>11, <4>2
        <5>2. s \in Source /\ w[s] # None /\ w[s].since =< session[d].acked
          BY <1>15, <3>1, <4>2, <5>1
        <5> QED
          BY <2>6, <5>1, <5>2
      <4> QED
        BY <4>1, <4>2
    <3>2. ASSUME NEW s \in Source, watch'[s] # None
          PROVE  watch'[s].refs = Cardinality(Subscribers(s)')
      BY <2>6, <3>2
    <3> QED
      BY <3>1, <3>2, DeliveryAssumption DEF LeasesHeld, Watched, Subscribers
  <2>10. Asked(c)'
    <3>1. n <= n /\ client'[c].cursor.seq = n
      BY <1>1, <1>4 DEF n
    <3>2. DOMAIN up'[c] = {}
      BY <1>11
    <3> QED
      BY <2>2, <2>4, <3>1, <3>2 DEF Asked
  <2>11. Told(c)'
    <3>1. client'[c].cursor.seq = n /\ client'[c].cursor.epoch = epoch
      BY <1>1, <2>1 DEF n
    <3>2. n <= Len(log')
      <4>1. n = seen[c] /\ seen[c] \in Nat /\ seen[c] <= Len(log)
        BY <1>1, <1>4, <2>1 DEF Paged, Cached, TypeOK, n
      <4> QED
        BY <1>8, <4>1
    <3>3. Reached(c, Len(down[c]) + 1)' = n
      <4>1. Len(down'[c]) = 1 /\ down'[c][1].to = n
        BY <2>3, <2>4
      <4>2. Reached(c, Len(down[c]) + 1)' =
              IF Len(down'[c]) + 1 = 1 THEN client'[c].cursor.seq ELSE down'[c][(Len(down'[c]) + 1) - 1].to
        BY DEF Reached
      <4>3. (Len(down'[c]) + 1) - 1 = 1 /\ Len(down'[c]) + 1 # 1
        BY <4>1
      <4> QED
        BY <4>1, <4>2, <4>3
    <3>4. \A i \in DOMAIN down'[c] : i = 1 /\ down'[c][i].type = "subscribed" /\ down'[c][i].to = n
      BY <2>3, <2>4
    <3> QED
      BY <1>1, <2>2, <2>4, <3>1, <3>2, <3>3, <3>4 DEF Told
  <2> QED
    BY <1>12, <2>4, <2>7, <2>8, <2>9, <2>10, <2>11
<1>17. CASE /\ session' = [session EXCEPT ![c] = None] /\ watch' = w
            /\ up' = [up EXCEPT ![c] = <<>>] /\ down' = [down EXCEPT ![c] = <<g>>]
  <2>1. g \in Frame /\ <<g>> \in Seq(Frame) /\ Len(<<g>>) = 1 /\ DOMAIN <<g>> = {1}
        /\ <<g>>[1] = g /\ g.type = "resync"
    <3>1. g \in Frame /\ g.type = "resync"
      BY DEF Frame
    <3> HIDE DEF g
    <3> QED
      BY <3>1
  <2> HIDE DEF g
  <2>2. /\ session'[c] = None /\ session' \in [Client -> Session \cup {None}]
        /\ down'[c] = <<g>> /\ down' \in [Client -> Seq(Frame)]
    BY <1>1, <1>17, <2>1 DEF TypeOK
  <2>3. watch' \in [Source -> Watch \cup {None}]
    BY <1>1, <1>17, InvalidatedIs DEF w
  <2>4. WatchedIsPublished'
    BY <1>10, <1>17
  <2>5. \A s \in Source : Subscribers(s)' = Subscribers(s)
    <3>1. \A d \in Client \ {c} : session'[d] = session[d]
      BY <1>11
    <3> QED
      BY <1>2, <2>2, <3>1 DEF Subscribers
  <2>6. LeasesHeld'
    <3>1. ASSUME NEW d \in Client, session'[d] # None, session'[d].subscribed, NEW s \in Selection[d]
          PROVE  watch'[s] # None /\ watch'[s].since =< session'[d].acked
      <4>1. d # c
        BY <2>2, <3>1
      <4>2. session'[d] = session[d]
        BY <1>11, <4>1
      <4> QED
        BY <1>15, <1>17, <3>1, <4>1, <4>2
    <3>2. ASSUME NEW s \in Source, watch'[s] # None
          PROVE  watch'[s].refs = Cardinality(Subscribers(s)')
      BY <1>14, <1>17, <2>5, <3>2
    <3> QED
      BY <3>1, <3>2, DeliveryAssumption DEF LeasesHeld, Watched, Subscribers
  <2>7. Asked(c)' /\ Told(c)'
    <3>1. \A i \in DOMAIN down'[c] : i = Len(down'[c]) /\ down'[c][i].type = "resync"
      BY <2>1, <2>2
    <3> QED
      BY <1>11, <2>2, <3>1 DEF Asked, Told
  <2> QED
    BY <1>12, <2>2, <2>3, <2>4, <2>6, <2>7
<1> QED
  BY <1>6, <1>16, <1>17

-----------------------------------------------------------------------------
(* The requests for snapshots, and the restarts.                            *)

(* What a reply carries is the moment its cursor names.                     *)
LEMMA ServeKeeps ==
  ASSUME DeliveryInv, NEW r \in calls, Serve(r)
  PROVE  DeliveryInv'
<1> DEFINE c == r.client
           sel == Selection[c]
           items == [s \in Source |-> IF s \in sel THEN item[s] ELSE None]
           cursor == [epoch |-> epoch, seq |-> Boundary(sel)]
           reply == [cursor |-> cursor, items |-> items]
           served == [r EXCEPT !.reply = reply]
<1>1. /\ TypeOK /\ WatchedIsPublished /\ LeasesHeld /\ ~ failed /\ r.reply = None
      /\ (\A d \in Client : Paged(d)) /\ (\A q \in calls : Replying(q))
      /\ Snapshot(sel) /\ calls' = (calls \ {r}) \cup {served}
      /\ item' = item /\ epoch' = epoch /\ failed' = failed /\ changes' = changes
      /\ session' = session /\ client' = client /\ seen' = seen /\ up' = up /\ down' = down
  BY DEF DeliveryInv, Serve, sockets
<1>2. r \in Call /\ c \in Client /\ sel \in SUBSET Source
  BY <1>1, DeliveryAssumption DEF TypeOK, Call
<1>3. /\ log' \in Seq(Event) /\ Extends(log, log') /\ floor' \in Nat
      /\ watch' \in [Source -> Watch \cup {None}]
      /\ Len(log') = Boundary(sel) /\ Len(log') \in Nat
      /\ WatchedIsPublished' /\ LeasesHeld'
      /\ \A s \in sel : Stood(log', s, Len(log'), item[s])
  BY <1>1, <1>2, SnapshotIs
<1>4. /\ reply \in Reply /\ reply.cursor.epoch = epoch /\ reply.cursor.seq = Len(log')
      /\ \A s \in sel : reply.items[s] = item[s]
  <2>1. items \in [Source -> Item \cup {None}]
    BY <1>1 DEF TypeOK
  <2>2. cursor \in Cursor /\ cursor.epoch = epoch /\ cursor.seq = Len(log')
    BY <1>1, <1>3 DEF TypeOK, Cursor
  <2>3. \A s \in sel : items[s] = item[s]
    BY <1>2
  <2> HIDE DEF items, cursor
  <2> QED
    BY <2>1, <2>2, <2>3 DEF Reply
<1> HIDE DEF reply
<1>5. /\ served \in Call /\ served.client = c /\ served.current = r.current /\ served.reply = reply
  BY <1>2, <1>4 DEF Call
<1> HIDE DEF served, sel
<1>11. PICK v \in Call : /\ v.client = c /\ v.current = r.current /\ v.reply = reply
                         /\ calls' = (calls \ {r}) \cup {v}
  BY <1>1, <1>5
<1>6. \A d \in Client : Paged(d)'
  BY <1>1, <1>3, PagedLater
<1>7. Replying(v)'
  <2>1. ASSUME r.current
        PROVE  /\ client[c].phase = "snapshot"
               /\ \A q \in calls' : q.current /\ q.client = c => q = v
    BY <1>1, <1>11, <2>1 DEF Replying
  <2>2. epoch <= epoch /\ seen[c] <= Len(log') /\ Len(log') <= Len(log')
    <3>1. epoch \in Nat /\ seen[c] \in Nat /\ log \in Seq(Event) /\ seen[c] <= Len(log)
      BY <1>1, <1>2 DEF TypeOK, Paged
    <3>2. Len(log) \in Nat /\ Len(log) <= Len(log')
      BY <1>3, <3>1, LenProperties DEF Extends
    <3> QED
      BY <1>3, <3>1, <3>2
  <2>3. Moment(log', Selection[c], Len(log'), reply.items)
    BY <1>3, <1>4 DEF Moment, sel
  <2> QED
    BY <1>1, <1>4, <1>11, <2>1, <2>2, <2>3 DEF Replying
<1>8. ASSUME NEW q \in calls \ {r} PROVE Replying(q)'
  <2>1. Replying(q) /\ Replying(r)
    BY <1>1
  <2>2. q.current => \A p \in calls' : p.current /\ p.client = q.client => p = q
    BY <1>1, <1>11, <2>1 DEF Replying
  <2> QED
    BY <1>1, <1>3, <2>1, <2>2, ReplyLater
<1>9. \A q \in calls' : Replying(q)'
  BY <1>7, <1>8, <1>11
<1>10. TypeOK'
  <2>1. calls' \subseteq Call
    BY <1>1, <1>11 DEF TypeOK
  <2> QED
    BY <1>1, <1>3, <2>1 DEF TypeOK
<1> QED
  BY <1>3, <1>6, <1>9, <1>10 DEF DeliveryInv

LEMMA RepliedKeeps ==
  ASSUME DeliveryInv, NEW r \in calls, Replied(r)
  PROVE  DeliveryInv'
<1> DEFINE c == r.client
           k == client[c]
           e == [k EXCEPT !.phase = "opening", !.cursor = r.reply.cursor, !.cache = r.reply.items]
<1>1. /\ TypeOK /\ WatchedIsPublished /\ LeasesHeld /\ r.reply # None
      /\ (\A d \in Client : Paged(d)) /\ (\A q \in calls : Replying(q))
      /\ calls' = calls \ {r}
      /\ UNCHANGED <<item, broker, sockets, changes>>
  BY DEF DeliveryInv, Replied
<1>2. /\ r \in Call /\ c \in Client /\ r.reply \in Reply /\ r.reply.cursor \in Cursor
      /\ r.reply.items \in [Source -> Item \cup {None}]
  BY <1>1 DEF TypeOK, Call, Reply
<1>3. /\ session' = session /\ up' = up /\ down' = down
  BY <1>1 DEF sockets
<1>4. /\ WatchedIsPublished' /\ LeasesHeld' /\ log' \in Seq(Event) /\ Extends(log, log')
      /\ epoch' = epoch /\ log' = log /\ item' = item /\ watch' = watch /\ floor' = floor
      /\ failed' = failed /\ changes' = changes
  BY <1>1, <1>3, QuietKeeps
<1>5. \A q \in calls : q.client \in Client
  BY <1>1 DEF TypeOK, Call
<1>6. CASE ~ r.current
  <2>1. client' = client /\ seen' = seen
    BY <1>6 DEF Replied
  <2>2. \A d \in Client : Paged(d)'
    BY <1>1, <1>3, <1>4, <2>1, PagedLater
  <2>3. \A q \in calls' : Replying(q)'
    BY <1>1, <1>2, <1>4, <1>5, <2>1, RepliesKeep
  <2>4. TypeOK'
    BY <1>1, <1>3, <1>4, <2>1 DEF TypeOK
  <2> QED
    BY <1>4, <2>2, <2>3, <2>4 DEF DeliveryInv
<1>7. CASE r.current
  <2> DEFINE cur == r.reply.cursor
  <2>1. /\ client' = [client EXCEPT ![c] = e]
        /\ seen' = [seen EXCEPT ![c] = IF cur.epoch = epoch THEN cur.seq ELSE @]
    BY <1>7 DEF Replied
  <2>2. /\ k.phase = "snapshot" /\ \A q \in calls' : q.current => q.client # c
    BY <1>1, <1>7 DEF Replying
  <2>3. session[c] = None /\ down[c] = <<>> /\ up[c] = <<>> /\ ~ k.ack
    BY <1>1, <1>2, <2>2 DEF Paged, Phases, Asked
  <2>4. /\ cur # None /\ cur.seq \in Nat
        /\ cur.epoch <= epoch
        /\ cur.epoch = epoch =>
             /\ seen[c] <= cur.seq /\ cur.seq <= Len(log)
             /\ Moment(log, Selection[c], cur.seq, r.reply.items)
    <3>1. cur # None /\ cur.seq \in Nat
      BY <1>2, NoneAssumption DEF Cursor
    <3>2. Replying(r)
      BY <1>1
    <3> QED
      BY <1>1, <1>7, <3>1, <3>2 DEF Replying
  <2>5. /\ e \in Browser /\ e.phase = "opening" /\ e.cursor = cur /\ e.cache = r.reply.items
        /\ e.ack = k.ack
    <3>1. k \in Browser
      BY <1>1, <1>2 DEF TypeOK
    <3> HIDE DEF k
    <3> QED
      BY <1>2, <3>1 DEF Browser
  <2> HIDE DEF e, cur
  <2>6. /\ client'[c] = e /\ client' \in [Client -> Browser]
        /\ seen'[c] = (IF cur.epoch = epoch THEN cur.seq ELSE seen[c]) /\ seen' \in [Client -> Nat]
        /\ \A d \in Client \ {c} : client'[d] = client[d] /\ seen'[d] = seen[d]
    BY <1>1, <1>2, <2>1, <2>4, <2>5 DEF TypeOK
  <2>7. Paged(c)'
    <3>1. Phases(c)'
      BY <1>3, <2>3, <2>4, <2>5, <2>6 DEF Phases
    <3>2. Asked(c)' /\ Told(c)'
      BY <1>3, <2>3 DEF Asked, Told
    <3>3. Cached(c)' /\ seen'[c] <= Len(log')
      <4>1. seen[c] <= Len(log)
        BY <1>1, <1>2 DEF Paged
      <4> QED
        BY <1>4, <2>4, <2>5, <2>6, <4>1 DEF Cached
    <3> QED
      BY <3>1, <3>2, <3>3 DEF Paged
  <2>8. \A d \in Client : Paged(d)'
    BY <1>2, <1>3, <1>4, <2>6, <2>7, ActorKeeps
  <2>9. \A q \in calls' : Replying(q)'
    BY <1>1, <1>2, <1>4, <1>5, <2>2, <2>6, RepliesKeep
  <2>10. TypeOK'
    BY <1>1, <1>3, <1>4, <2>6 DEF TypeOK
  <2> QED
    BY <1>4, <2>8, <2>9, <2>10 DEF DeliveryInv
<1> QED
  BY <1>6, <1>7

(* After a restart every cursor is of an earlier epoch.                     *)
LEMMA RestartKeeps ==
  ASSUME DeliveryInv, Restart
  PROVE  DeliveryInv'
<1>1. /\ TypeOK /\ (\A d \in Client : Paged(d)) /\ (\A q \in calls : Replying(q))
      /\ epoch' = epoch + 1 /\ log' = <<>> /\ floor' = 0 /\ failed' = FALSE
      /\ watch' = [s \in Source |-> None]
      /\ item' = [s \in Source |-> [item[s] EXCEPT !.sample = 0]]
      /\ session' = [c \in Client |-> None]
      /\ up' = [c \in Client |-> <<>>] /\ down' = [c \in Client |-> <<>>]
      /\ calls' = {r \in calls : r.reply # None}
      /\ seen' = [c \in Client |-> 0] /\ client' = client /\ changes' = changes
  BY DEF DeliveryInv, Restart
<1>2. epoch \in Nat /\ epoch' \in Nat /\ epoch < epoch'
  BY <1>1 DEF TypeOK
<1>3. Len(log') = 0 /\ log' \in Seq(Event)
  BY <1>1
<1>4. ASSUME NEW c \in Client PROVE Paged(c)'
  <2>1. session'[c] = None /\ up'[c] = <<>> /\ down'[c] = <<>> /\ seen'[c] = 0
    BY <1>1
  <2>2. Phases(c)'
    BY <1>1, <2>1 DEF Paged, Phases
  <2>3. Asked(c)' /\ Told(c)'
    BY <2>1 DEF Asked, Told
  <2>4. Cached(c)'
    <3>1. ASSUME client[c].cursor # None
          PROVE  client[c].cursor.epoch \in Nat /\ client[c].cursor.epoch <= epoch
      <4>1. client[c].cursor \in Cursor
        BY <1>1, <3>1 DEF TypeOK, Browser
      <4> QED
        BY <1>1, <3>1, <4>1 DEF Paged, Cached, Cursor
    <3>2. client[c].cursor # None =>
            client[c].cursor.epoch <= epoch' /\ client[c].cursor.epoch # epoch'
      BY <1>2, <3>1
    <3> QED
      BY <1>1, <3>2 DEF Cached
  <2>5. seen'[c] <= Len(log')
    BY <1>3, <2>1
  <2> QED
    BY <2>2, <2>3, <2>4, <2>5 DEF Paged
<1>5. ASSUME NEW r \in calls' PROVE Replying(r)'
  <2>1. r \in calls /\ r \in Call /\ r.reply # None
    BY <1>1 DEF TypeOK
  <2>2. r.reply.cursor.epoch \in Nat
    BY <2>1 DEF Call, Reply, Cursor
  <2>3. r.reply.cursor.epoch <= epoch
    BY <1>1, <2>1 DEF Replying
  <2>4. r.reply.cursor.epoch <= epoch' /\ r.reply.cursor.epoch # epoch'
    BY <1>2, <2>2, <2>3
  <2> QED
    BY <1>1, <2>1, <2>4 DEF Replying
<1>6. LeasesHeld' /\ WatchedIsPublished'
  BY <1>1 DEF LeasesHeld, WatchedIsPublished, Watched
<1>7. TypeOK'
  <2>1. \A s \in Source : [item[s] EXCEPT !.sample = 0] \in Item
    BY <1>1 DEF TypeOK, Item
  <2>2. item' \in [Source -> Item]
    BY <1>1, <2>1
  <2>3. up' \in [Client -> Seq(Control)] /\ down' \in [Client -> Seq(Frame)]
    BY <1>1
  <2>4. /\ watch' \in [Source -> Watch \cup {None}] /\ session' \in [Client -> Session \cup {None}]
        /\ seen' \in [Client -> Nat] /\ calls' \subseteq Call
    BY <1>1 DEF TypeOK
  <2> QED
    BY <1>1, <1>2, <1>3, <2>2, <2>3, <2>4 DEF TypeOK
<1> QED
  BY <1>4, <1>5, <1>6, <1>7 DEF DeliveryInv

LEMMA InitHolds ==
  ASSUME Init
  PROVE  DeliveryInv
<1>1. Len(log) = 0 /\ log \in Seq(Event)
  BY DEF Init
<1>2. ASSUME NEW c \in Client PROVE Paged(c)
  <2>1. /\ session[c] = None /\ up[c] = <<>> /\ down[c] = <<>> /\ seen[c] = 0
        /\ client[c].phase = "idle" /\ client[c].cursor = None /\ ~ client[c].ack
    BY DEF Init
  <2> QED
    BY <1>1, <2>1 DEF Paged, Phases, Cached, Asked, Told
<1>3. LeasesHeld /\ WatchedIsPublished
  BY DEF Init, LeasesHeld, WatchedIsPublished, Watched
<1>4. TypeOK
  <2>1. [phase |-> "idle", cursor |-> None, cache |-> NoCache, ack |-> FALSE,
         attempts |-> 0, starts |-> 0] \in Browser
    BY NoCacheType DEF Browser
  <2>2. client \in [Client -> Browser]
    BY <2>1 DEF Init
  <2>3. item \in [Source -> Item]
    BY DEF Init, Item
  <2>4. up \in [Client -> Seq(Control)] /\ down \in [Client -> Seq(Frame)]
    BY DEF Init
  <2> QED
    BY <1>1, <2>2, <2>3, <2>4 DEF Init, TypeOK
<1>5. \A r \in calls : Replying(r)
  BY DEF Init
<1> QED
  BY <1>2, <1>3, <1>4, <1>5 DEF DeliveryInv

LEMMA PageKeeps ==
  ASSUME DeliveryInv, NEW c \in Client, Page(c)
  PROVE  DeliveryInv'
BY ConnectKeeps, StopKeeps, FaultsKeep, OpenedKeeps, ReceiveKeeps, SendAckKeeps, Zenon DEF Page

LEMMA NextKeeps ==
  ASSUME DeliveryInv, [Next]_vars
  PROVE  DeliveryInv'
<1>1. CASE World
  <2>1. ASSUME NEW s \in Source, Sample(s) \/ Silent(s) \/ PruneWatch(s) PROVE DeliveryInv'
    BY <2>1, SampleKeeps, SilentKeeps, PruneKeeps
  <2>2. ASSUME NEW sel \in Others, OtherSnapshot(sel) PROVE DeliveryInv'
    BY <2>2, OtherSnapshotKeeps
  <2> QED
    BY <1>1, <2>1, <2>2, InvalidateKeeps, PruneKeeps, RestartKeeps, Zenon DEF World
<1>2. ASSUME NEW c \in Client, Server(c) PROVE DeliveryInv'
  BY <1>2, SubscribeKeeps, AcknowledgeKeeps, TickKeeps, EndSessionKeeps, Zenon DEF Server
<1>3. ASSUME NEW c \in Client, Page(c) PROVE DeliveryInv'
  BY <1>3, PageKeeps
<1>4. ASSUME NEW r \in calls, Serve(r) \/ Replied(r) PROVE DeliveryInv'
  BY <1>4, ServeKeeps, RepliedKeeps
<1>5. CASE UNCHANGED vars
  <2>1. /\ item' = item /\ epoch' = epoch /\ log' = log /\ floor' = floor /\ watch' = watch
        /\ failed' = failed /\ session' = session /\ up' = up /\ down' = down
        /\ client' = client /\ calls' = calls /\ seen' = seen /\ changes' = changes
    BY <1>5 DEF vars
  <2>2. TypeOK' /\ LeasesHeld' /\ WatchedIsPublished'
    BY <2>1 DEF DeliveryInv, TypeOK, LeasesHeld, WatchedIsPublished, Watched, LastEvent
  <2>3. log' \in Seq(Event) /\ Extends(log, log')
    BY <2>1, SameExtends DEF DeliveryInv, TypeOK
  <2>4. (\A c \in Client : Paged(c)') /\ (\A r \in calls' : Replying(r)')
    BY <2>1, <2>3, ApartKeeps DEF Apart, sockets
  <2> QED
    BY <2>2, <2>4 DEF DeliveryInv
<1> QED
  BY <1>1, <1>2, <1>3, <1>4, <1>5, Zenon DEF Next

-----------------------------------------------------------------------------
(* What is proved of every behaviour.                                       *)

(* The invariant above holds, whatever the order of changes, prunings,      *)
(* frames, replies, recoveries and restarts.                                *)
THEOREM DeliveryInvariant == Spec => []DeliveryInv
<1>1. Init => DeliveryInv
  BY InitHolds
<1>2. DeliveryInv /\ [Next]_vars => DeliveryInv'
  BY NextKeeps
<1> QED
  BY <1>1, <1>2, PTL DEF Spec

(* Every reachable state has its type.                                      *)
THEOREM TypeCorrect == Spec => []TypeOK
<1>1. DeliveryInv => TypeOK
  BY DEF DeliveryInv
<1> QED
  BY <1>1, DeliveryInvariant, PTL

(* While the broker works, the signature of every watch is that of the last *)
(* event of its source, published since the watch began, and no sample has  *)
(* changed without an event (tagDeliveryBroker.ts 79 and 121-124).          *)
THEOREM PublishedCorrect == Spec => []WatchedIsPublished
<1>1. DeliveryInv => WatchedIsPublished
  BY DEF DeliveryInv
<1> QED
  BY <1>1, DeliveryInvariant, PTL

(* Every subscription holds the watches of its sources from before its      *)
(* cursor on, and a watch counts the subscriptions on it (acquire, lease    *)
(* and release of tagDeliveryBroker.ts).                                    *)
THEOREM LeasesCorrect == Spec => []LeasesHeld
<1>1. DeliveryInv => LeasesHeld
  BY DEF DeliveryInv
<1> QED
  BY <1>1, DeliveryInvariant, PTL

(* The frames on their way continue the cursor of the browser one after the *)
(* other, up to where its session is, and what it acknowledges was sent and *)
(* is not settled (tagDeliverySocket.ts, tick and acknowledge).             *)
THEOREM ContinuousCorrect == Spec => []Continuous
<1>1. DeliveryInv => Continuous
  BY DEF DeliveryInv, Paged, Told, Asked, Continuous
<1> QED
  BY <1>1, DeliveryInvariant, PTL

-----------------------------------------------------------------------------
(* A browser is fed as TagFeed promises: what it shows is a moment of the   *)
(* published history, and never an earlier one.                             *)

Shows(c) == IF ShownNow(c) THEN [s \in Selection[c] |-> client[c].cache[s]] ELSE None
Shown == [c \in Client |-> Shows(c)]

LEMMA StoodIs ==
  ASSUME NEW h \in Seq(Event), NEW n \in 0 .. Len(h), NEW s, NEW it, Stood(h, s, n, it)
  PROVE  Feed!ItemAt(h, s, n) = it
<1> DEFINE at == {i \in 1 .. n : h[i].source = s}
<1>1. PICK i \in 1 .. n : h[i].source = s /\ h[i].item = it
                          /\ \A j \in (i + 1) .. n : h[j].source # s
  BY DEF Stood
<1>2. i \in at /\ \A j \in at : j =< i
  <2>1. n \in Nat
    BY LenProperties
  <2>2. ASSUME NEW j \in 1 .. n, j > i PROVE h[j].source # s
    BY <1>1, <2>1, <2>2
  <2>3. ASSUME NEW j \in at PROVE j =< i
    <3>1. j \in 1 .. n /\ h[j].source = s
      OBVIOUS
    <3> QED
      BY <1>1, <2>1, <2>2, <3>1
  <2> QED
    BY <1>1, <2>3
<1>3. (CHOOSE m \in at : \A j \in at : j =< m) = i
  <2>1. \A j \in at : j \in Nat
    OBVIOUS
  <2> HIDE DEF at
  <2>2. ASSUME NEW m \in at, \A j \in at : j =< m PROVE m = i
    <3>1. m \in Nat /\ i \in Nat /\ m =< i /\ i =< m
      BY <1>2, <2>1, <2>2
    <3> QED
      BY <3>1
  <2> QED
    BY <1>2, <2>2
<1>4. Feed!ItemAt(h, s, n) =
        IF at = {} THEN None ELSE h[CHOOSE m \in at : \A j \in at : j =< m].item
  BY DEF Feed!ItemAt
<1> QED
  BY <1>1, <1>2, <1>3, <1>4

ShowsMoments ==
  \A c \in Client : ShownNow(c) =>
    Shows(c) = Feed!Moment(log, c, seen[c]) /\ seen[c] \in 0 .. Len(log)

LEMMA ShownIsMoment == DeliveryInv => ShowsMoments
<1> SUFFICES ASSUME DeliveryInv, NEW c \in Client, ShownNow(c)
             PROVE  Shows(c) = Feed!Moment(log, c, seen[c]) /\ seen[c] \in 0 .. Len(log)
  BY DEF ShowsMoments
<1>1. log \in Seq(Event) /\ seen[c] \in Nat /\ Paged(c)
  BY DEF DeliveryInv, TypeOK
<1>2. seen[c] \in 0 .. Len(log)
  BY <1>1, LenProperties DEF Paged
<1>3. \A s \in Selection[c] : Stood(log, s, seen[c], client[c].cache[s])
  BY <1>1 DEF Paged, Cached, ShownNow, Moment
<1>4. \A s \in Selection[c] : Feed!ItemAt(log, s, seen[c]) = client[c].cache[s]
  BY <1>1, <1>2, <1>3, StoodIs
<1> QED
  BY <1>2, <1>4 DEF Feed!Moment, Shows

LEMMA ShownIsMomentNext == DeliveryInv' => ShowsMoments'
BY ShownIsMoment, PTL

(* The feed does not change with the history, the epoch, the cursors and    *)
(* the caches.                                                              *)
LEMMA SameShows ==
  ASSUME NEW c \in Client, epoch' = epoch,
         client'[c].cursor = client[c].cursor, client'[c].cache = client[c].cache
  PROVE  Shows(c)' = Shows(c)
BY DEF Shows, ShownNow

LEMMA StepsPublish ==
  ASSUME log \in Seq(Event), log' \in Seq(Event), Extends(log, log'), seen' = seen,
         \A c \in Client : Shows(c)' = Shows(c)
  PROVE  Feed!Publish
<1>1. Shown' = Shown
  BY DEF Shown
<1>2. Len(log) \in Nat /\ Len(log') \in Nat /\ Len(log) <= Len(log')
  BY LenProperties DEF Extends
<1>3. SubSeq(log', 1, Len(log)) = log
  <2> DEFINE a == SubSeq(log', 1, Len(log))
  <2>1. \A i \in 1 .. Len(log) : log'[i] \in Event
    BY <1>2, ElementOfSeq
  <2>2. a \in Seq(Event) /\ Len(a) = Len(log) /\ \A i \in 1 .. Len(log) : a[i] = log'[i]
    BY <1>2, <2>1, SubSeqProperties
  <2> HIDE DEF a
  <2>3. \A i \in 1 .. Len(log) : a[i] = log[i]
    BY <2>2 DEF Extends
  <2> QED
    BY <2>2, <2>3, SeqEqual DEF a
<1> QED
  BY <1>1, <1>2, <1>3 DEF Feed!Publish, Shown, Shows

LEMMA StepsShow ==
  ASSUME DeliveryInv', NEW c \in Client, log' = log, seen \in [Client -> Nat],
         NEW n \in Nat, seen' = [seen EXCEPT ![c] = n], seen[c] <= n, ShownNow(c)',
         \A d \in Client \ {c} : Shows(d)' = Shows(d)
  PROVE  Feed!Show(c)
<1>1. seen'[c] = n
  OBVIOUS
<1>2. Shows(c)' = Feed!Moment(log, c, n) /\ n \in 0 .. Len(log)
  <2>1. Shows(c)' = Feed!Moment(log', c, seen'[c]) /\ seen'[c] \in 0 .. Len(log')
    BY ShownIsMomentNext DEF ShowsMoments, Feed!Moment
  <2> QED
    BY <1>1, <2>1
<1>3. n \in seen[c] .. Len(log)
  BY <1>2
<1>4. Shown' = [Shown EXCEPT ![c] = Feed!Moment(log, c, n)]
  BY <1>2 DEF Shown
<1> QED
  BY <1>3, <1>4 DEF Feed!Show, Shown, Shows

LEMMA StepsBlank ==
  ASSUME NEW c \in Client, log' = log, seen' = seen, ~ ShownNow(c)',
         \A d \in Client \ {c} : Shows(d)' = Shows(d)
  PROVE  Feed!Blank(c)
<1>1. Shown' = [Shown EXCEPT ![c] = None]
  <2>1. Shows(c)' = None
    BY DEF Shows
  <2> QED
    BY <2>1 DEF Shown
<1> QED
  BY <1>1 DEF Feed!Blank, Shown, Shows

LEMMA StepsStay ==
  ASSUME log' = log, seen' = seen, \A d \in Client : Shows(d)' = Shows(d)
  PROVE  UNCHANGED Feed!feed
<1>1. Shown' = Shown
  BY DEF Shown
<1> QED
  BY <1>1 DEF Feed!feed, Shown, Shows

(* The steps of the broker publish, and show nothing.                       *)
LEMMA PublishExtends ==
  ASSUME DeliveryInv, Publishes(SetToSeq(Dirty))
  PROVE  log' \in Seq(Event) /\ Extends(log, log')
<1> DEFINE ss == SetToSeq(Dirty)
<1>1. TypeOK /\ ss \in Seq(Source)
  BY InvalidatedIs, RowOf DEF DeliveryInv
<1> HIDE DEF ss
<1>2. Publishes(ss)
  BY DEF ss
<1> QED
  BY <1>1, <1>2, PublishesIs DEF TypeOK

LEMMA WorldExtends ==
  ASSUME DeliveryInv, World, ~ Restart
  PROVE  epoch' = epoch /\ client' = client /\ seen' = seen
         /\ log' \in Seq(Event) /\ Extends(log, log')
<1>1. TypeOK /\ WatchedIsPublished /\ LeasesHeld
  BY DEF DeliveryInv
<1>2. log' = log => log' \in Seq(Event) /\ Extends(log, log')
  BY <1>1, SameExtends DEF TypeOK
<1>3. ASSUME NEW s \in Source, Sample(s)
      PROVE  epoch' = epoch /\ client' = client /\ seen' = seen
             /\ log' \in Seq(Event) /\ Extends(log, log')
  <2> DEFINE now == [item[s] EXCEPT !.sample = @ + 1]
             e == [source |-> s, item |-> now]
  <2>1. epoch' = epoch /\ client' = client /\ seen' = seen /\ (log' = log \/ log' = Append(log, e))
    BY <1>3 DEF Sample
  <2>2. now \in Item
    <3>1. item[s] \in Item /\ item[s].sample + 1 \in Nat
      BY <1>1 DEF TypeOK, Item
    <3> QED
      BY <3>1 DEF Item
  <2> HIDE DEF now
  <2>3. e \in Event /\ log \in Seq(Event)
    BY <1>1, <2>2 DEF Event, TypeOK
  <2> HIDE DEF e
  <2>4. CASE log' = Append(log, e)
    <3>1. log' \in Seq(Event) /\ Len(log') = Len(log) + 1 /\ Len(log) \in Nat
          /\ \A i \in 1 .. Len(log) : log'[i] = log[i]
      BY <2>3, <2>4, AppendIs
    <3> QED
      BY <2>1, <3>1 DEF Extends
  <2> QED
    BY <1>2, <2>1, <2>4
<1>4. ASSUME NEW s \in Source, Silent(s) \/ PruneWatch(s)
      PROVE  epoch' = epoch /\ client' = client /\ seen' = seen /\ log' = log
  BY <1>4 DEF Silent, PruneWatch, broker
<1>5. ASSUME PruneJournal
      PROVE  epoch' = epoch /\ client' = client /\ seen' = seen /\ log' = log
  BY <1>5 DEF PruneJournal
<1>6. ASSUME Invalidate
      PROVE  epoch' = epoch /\ client' = client /\ seen' = seen
             /\ log' \in Seq(Event) /\ Extends(log, log')
  BY <1>6, PublishExtends DEF Invalidate
<1>7. ASSUME NEW sel \in Others, OtherSnapshot(sel)
      PROVE  epoch' = epoch /\ client' = client /\ seen' = seen
             /\ log' \in Seq(Event) /\ Extends(log, log')
  <2>1. /\ ~ failed /\ Snapshot(sel) /\ item' = item /\ session' = session
        /\ epoch' = epoch /\ client' = client /\ seen' = seen
    BY <1>7 DEF OtherSnapshot, sockets
  <2>2. sel \in SUBSET Source
    BY DeliveryAssumption
  <2> QED
    BY <1>1, <2>1, <2>2, SnapshotIs
<1> QED
  BY <1>2, <1>3, <1>4, <1>5, <1>6, <1>7, Zenon DEF World

LEMMA ServeExtends ==
  ASSUME DeliveryInv, NEW r \in calls, Serve(r)
  PROVE  epoch' = epoch /\ client' = client /\ seen' = seen
         /\ log' \in Seq(Event) /\ Extends(log, log')
<1>1. /\ TypeOK /\ WatchedIsPublished /\ LeasesHeld /\ ~ failed
      /\ Snapshot(Selection[r.client]) /\ item' = item /\ session' = session
      /\ epoch' = epoch /\ client' = client /\ seen' = seen
  BY DEF DeliveryInv, Serve, sockets
<1>2. Selection[r.client] \in SUBSET Source
  BY <1>1, DeliveryAssumption DEF TypeOK, Call
<1> QED
  BY <1>1, <1>2, SnapshotIs

LEMMA RestartFeeds ==
  ASSUME DeliveryInv, Restart
  PROVE  Feed!Restart
<1>1. log' = <<>> /\ seen' = [c \in Client |-> 0] /\ client' = client /\ epoch' = epoch + 1
  BY DEF Restart
<1>2. ASSUME NEW c \in Client PROVE ~ ShownNow(c)'
  <2>1. epoch \in Nat /\ client[c].cursor \in Cursor \cup {None}
    BY DEF DeliveryInv, TypeOK, Browser
  <2>2. CASE client[c].cursor = None
    BY <1>1, <2>2 DEF ShownNow
  <2>3. CASE client[c].cursor # None
    <3>1. client[c].cursor.epoch \in Nat
      BY <2>1, <2>3 DEF Cursor
    <3>2. client[c].cursor.epoch <= epoch
      BY <2>3 DEF DeliveryInv, Paged, Cached
    <3>3. client[c].cursor.epoch # epoch + 1
      BY <2>1, <3>1, <3>2
    <3> QED
      BY <1>1, <3>3 DEF ShownNow
  <2> QED
    BY <2>2, <2>3
<1>3. Shown' = [c \in Client |-> None]
  BY <1>2 DEF Shown, Shows
<1> QED
  BY <1>1, <1>3 DEF Feed!Restart, Shown, Shows

(* A browser that recovers or stops keeps what it shows, or shows nothing.  *)
LEMMA EndFeeds ==
  ASSUME DeliveryInv, NEW c \in Client,
         Stop(c) \/ \E resnapshot \in BOOLEAN : Recovered(c, resnapshot),
         log' = log, seen' = seen, epoch' = epoch
  PROVE  Feed!Blank(c) \/ UNCHANGED Feed!feed
<1>1. client \in [Client -> Browser] /\ client[c] \in Browser
  BY DEF DeliveryInv, TypeOK
<1>2. log' = log /\ seen' = seen /\ epoch' = epoch
  OBVIOUS
<1>3. /\ \A d \in Client \ {c} : client'[d] = client[d]
      /\ \/ client'[c].cursor = None
         \/ client'[c].cursor = client[c].cursor /\ client'[c].cache = client[c].cache
  <2>1. CASE Stop(c)
    <3> DEFINE e == [client[c] EXCEPT !.phase = "idle", !.ack = FALSE, !.cursor = None,
                                      !.cache = NoCache]
    <3>1. client' = [client EXCEPT ![c] = e]
      BY <2>1 DEF Stop
    <3>2. e.cursor = None
      BY <1>1 DEF Browser
    <3> HIDE DEF e
    <3> QED
      BY <1>1, <3>1, <3>2
  <2>2. CASE \E resnapshot \in BOOLEAN : Recovered(c, resnapshot)
    <3>1. PICK resnapshot \in BOOLEAN : Recovered(c, resnapshot)
      BY <2>2
    <3> DEFINE spent == client[c].attempts >= RecoveryLimit
               drop == resnapshot \/ spent
               b == client[c]
               e == [b EXCEPT !.phase = IF spent THEN "halted" ELSE "waiting", !.ack = FALSE,
                              !.attempts = IF spent THEN @ ELSE @ + 1,
                              !.cursor = IF drop THEN None ELSE @,
                              !.cache = IF drop THEN NoCache ELSE @]
    <3>2. client' = [client EXCEPT ![c] = e]
      BY <3>1, Zenon DEF Recovered
    <3>3. /\ e.cursor = IF drop THEN None ELSE client[c].cursor
          /\ e.cache = IF drop THEN NoCache ELSE client[c].cache
      BY <1>1 DEF Browser
    <3> HIDE DEF e, drop
    <3> QED
      BY <1>1, <3>2, <3>3
  <2> QED
    BY <2>1, <2>2
<1>4. \A d \in Client \ {c} : Shows(d)' = Shows(d)
  BY <1>2, <1>3, SameShows
<1>5. CASE client'[c].cursor = None
  BY <1>2, <1>4, <1>5, StepsBlank DEF ShownNow
<1>6. CASE client'[c].cursor = client[c].cursor /\ client'[c].cache = client[c].cache
  <2>1. Shows(c)' = Shows(c)
    BY <1>2, <1>6, SameShows
  <2> QED
    BY <1>2, <1>4, <2>1, StepsStay
<1> QED
  BY <1>3, <1>5, <1>6

(* A browser that connects, subscribes or acknowledges shows what it did.   *)
LEMMA OthersFeed ==
  ASSUME DeliveryInv, NEW c \in Client,
         Start(c) \/ Reconnect(c) \/ Opened(c) \/ SendAck(c)
  PROVE  UNCHANGED Feed!feed
<1>1. client \in [Client -> Browser] /\ client[c] \in Browser
  BY DEF DeliveryInv, TypeOK
<1>2. log' = log /\ seen' = seen /\ epoch' = epoch
  BY DEF Start, Reconnect, Opened, SendAck, broker
<1>3. \A d \in Client : client'[d].cursor = client[d].cursor /\ client'[d].cache = client[d].cache
  <2>1. CASE Start(c)
    <3> DEFINE b == [client[c] EXCEPT !.starts = @ + 1]
               e == [b EXCEPT !.phase = IF b.cursor = None THEN "snapshot" ELSE "opening"]
    <3>1. client' = [client EXCEPT ![c] = e]
      BY <2>1 DEF Start, Connecting
    <3>2. e.cursor = client[c].cursor /\ e.cache = client[c].cache
      BY <1>1 DEF Browser
    <3> HIDE DEF e
    <3> QED
      BY <1>1, <3>1, <3>2
  <2>2. CASE Reconnect(c)
    <3> DEFINE b == client[c]
               e == [b EXCEPT !.phase = IF b.cursor = None THEN "snapshot" ELSE "opening"]
    <3>1. client' = [client EXCEPT ![c] = e]
      BY <2>2 DEF Reconnect, Connecting
    <3>2. e.cursor = client[c].cursor /\ e.cache = client[c].cache
      BY <1>1 DEF Browser
    <3> HIDE DEF e
    <3> QED
      BY <1>1, <3>1, <3>2
  <2>3. CASE Opened(c)
    <3> DEFINE e == [client[c] EXCEPT !.phase = "subscribing"]
    <3>1. client' = [client EXCEPT ![c] = e]
      BY <2>3 DEF Opened
    <3>2. e.cursor = client[c].cursor /\ e.cache = client[c].cache
      BY <1>1 DEF Browser
    <3> HIDE DEF e
    <3> QED
      BY <1>1, <3>1, <3>2
  <2>4. CASE SendAck(c)
    <3> DEFINE e == [client[c] EXCEPT !.ack = FALSE]
    <3>1. client' = [client EXCEPT ![c] = e]
      BY <2>4 DEF SendAck
    <3>2. e.cursor = client[c].cursor /\ e.cache = client[c].cache
      BY <1>1 DEF Browser
    <3> HIDE DEF e
    <3> QED
      BY <1>1, <3>1, <3>2
  <2> QED
    BY <2>1, <2>2, <2>3, <2>4
<1>4. \A d \in Client : Shows(d)' = Shows(d)
  BY <1>2, <1>3, SameShows
<1> QED
  BY <1>2, <1>4, StepsStay

(* The frame that comes next, and the reply of the current operation, bring *)
(* a browser to a later moment.                                             *)
LEMMA ReceiveFeeds ==
  ASSUME DeliveryInv, DeliveryInv', NEW c \in Client, Receive(c)
  PROVE  Feed!Show(c) \/ Feed!Blank(c) \/ UNCHANGED Feed!feed
<1> DEFINE q == down[c]
           f == q[1]
           k == client[c]
<1>1. /\ TypeOK /\ Paged(c) /\ client \in [Client -> Browser] /\ seen \in [Client -> Nat]
      /\ k \in Browser /\ k.phase \in {"subscribing", "live"} /\ q # <<>> /\ q \in Seq(Frame)
      /\ epoch' = epoch /\ log' = log
  BY DEF DeliveryInv, TypeOK, Receive
<1>2. Len(q) \in Nat \ {0} /\ DOMAIN q = 1 .. Len(q) /\ Head(q) = f /\ f \in Frame
  <2> HIDE DEF q
  <2> QED
    BY <1>1, TailIs
<1>3. k.cursor \in Cursor /\ k.cursor # None
  BY <1>1 DEF Paged, Phases, Browser
<1>4. CASE f.type = "subscribed" /\ client' = [client EXCEPT ![c].phase = "live"] /\ seen' = seen
  <2> DEFINE e == [k EXCEPT !.phase = "live"]
  <2>1. e.cursor = k.cursor /\ e.cache = k.cache
    BY <1>1, BrowserPhase
  <2>2. client' = [client EXCEPT ![c] = e]
    BY <1>4
  <2> HIDE DEF e
  <2>3. \A d \in Client : client'[d].cursor = client[d].cursor /\ client'[d].cache = client[d].cache
    BY <1>1, <2>1, <2>2
  <2>4. \A d \in Client : Shows(d)' = Shows(d)
    BY <1>1, <2>3, SameShows
  <2> QED
    BY <1>1, <1>4, <2>4, StepsStay
<1>5. CASE f.type = "range" /\ Continues(k, f)
           /\ client' = [client EXCEPT ![c] = [k EXCEPT !.cursor.seq = f.to, !.ack = TRUE,
                                                        !.cache = Apply(k.cache, f.updates)]]
           /\ seen' = [seen EXCEPT ![c] = f.to]
  <2> DEFINE p == [k.cursor EXCEPT !.seq = f.to]
             e == [k EXCEPT !.cursor = p, !.ack = TRUE, !.cache = Apply(k.cache, f.updates)]
  <2>1. /\ k.cursor.epoch = epoch /\ f.from \in Nat /\ f.to \in Nat /\ f.from = k.cursor.seq
        /\ f.from < f.to
    <3>1. 1 \in DOMAIN q
      BY <1>2
    <3>2. f.from \in Nat /\ f.to \in Nat
      BY <1>2, <1>5, FrameType
    <3>3. f.from = k.cursor.seq
      BY <1>5 DEF Continues
    <3> QED
      BY <1>1, <1>5, <3>1, <3>2, <3>3 DEF Paged, Told
  <2>2. k.cursor.seq = seen[c]
    BY <1>1, <1>3, <2>1 DEF Paged, Cached
  <2>3. client' = [client EXCEPT ![c] = e]
    BY <1>5
  <2>4. p \in Cursor /\ p.epoch = epoch
    BY <1>3, <2>1 DEF Cursor
  <2> HIDE DEF p
  <2>5. e.cursor = p
    BY <1>1 DEF Browser
  <2> HIDE DEF e
  <2>6. client'[c] = e /\ \A d \in Client \ {c} : client'[d] = client[d]
    BY <1>1, <2>3
  <2>7. ShownNow(c)'
    BY <1>1, <2>4, <2>5, <2>6, NoneAssumption DEF ShownNow
  <2>8. \A d \in Client \ {c} : Shows(d)' = Shows(d)
    BY <1>1, <2>6, SameShows
  <2>9. seen[c] <= f.to
    BY <2>1, <2>2
  <2>10. PICK n \in Nat : n = f.to
    BY <2>1
  <2> HIDE DEF f
  <2>11. seen' = [seen EXCEPT ![c] = n] /\ seen[c] <= n
    BY <1>5, <2>9, <2>10
  <2>12. Feed!Show(c)
    BY <1>1, <2>7, <2>8, <2>11, StepsShow
  <2> QED
    BY <2>12
<1>6. CASE Recover(c, TRUE) /\ UNCHANGED seen
  <2>1. Recovered(c, TRUE)
    BY <1>6 DEF Recover
  <2>2. Feed!Blank(c) \/ UNCHANGED Feed!feed
    BY <1>1, <1>6, <2>1, EndFeeds
  <2> QED
    BY <2>2
<1>7. \/ f.type = "subscribed" /\ client' = [client EXCEPT ![c].phase = "live"] /\ seen' = seen
      \/ f.type = "range" /\ Continues(k, f)
         /\ client' = [client EXCEPT ![c] = [k EXCEPT !.cursor.seq = f.to, !.ack = TRUE,
                                                      !.cache = Apply(k.cache, f.updates)]]
         /\ seen' = [seen EXCEPT ![c] = f.to]
      \/ Recover(c, TRUE) /\ UNCHANGED seen
  <2>1. Head(q) = f
    BY <1>2
  <2> HIDE DEF f
  <2>2. UNCHANGED <<session, up, watch, calls, seen>> => seen' = seen
    OBVIOUS
  <2> QED
    BY <2>1, <2>2, Zenon DEF Receive
<1> QED
  BY <1>4, <1>5, <1>6, <1>7

LEMMA RepliedFeeds ==
  ASSUME DeliveryInv, DeliveryInv', NEW r \in calls, Replied(r)
  PROVE  Feed!Show(r.client) \/ UNCHANGED Feed!feed
<1> DEFINE c == r.client
           k == client[c]
           cur == r.reply.cursor
           e == [k EXCEPT !.phase = "opening", !.cursor = cur, !.cache = r.reply.items]
<1>1. /\ TypeOK /\ r.reply # None /\ epoch' = epoch /\ log' = log
      /\ client \in [Client -> Browser] /\ seen \in [Client -> Nat] /\ Replying(r)
  BY DEF DeliveryInv, TypeOK, Replied, broker
<1>2. r \in Call /\ c \in Client /\ cur \in Cursor
  BY <1>1 DEF TypeOK, Call, Reply
<1>3. CASE ~ r.current
  <2>1. client' = client /\ seen' = seen
    BY <1>3 DEF Replied
  <2>2. \A d \in Client : Shows(d)' = Shows(d)
    BY <1>1, <2>1, SameShows
  <2> QED
    BY <1>1, <2>1, <2>2, StepsStay
<1>4. CASE r.current
  <2>1. /\ client' = [client EXCEPT ![c] = e]
        /\ seen' = [seen EXCEPT ![c] = IF cur.epoch = epoch THEN cur.seq ELSE @]
    BY <1>4 DEF Replied
  <2>2. e.cursor = cur
    <3>1. k \in Browser
      BY <1>1, <1>2
    <3> HIDE DEF k
    <3> QED
      BY <3>1 DEF Browser
  <2>3. cur # None /\ cur.seq \in Nat
    BY <1>2, NoneAssumption DEF Cursor
  <2>4. k.cursor = None
    <3>1. k.phase = "snapshot"
      BY <1>1, <1>4 DEF Replying
    <3> QED
      BY <1>2, <3>1 DEF DeliveryInv, Paged, Phases
  <2>5. cur.epoch = epoch => seen[c] <= cur.seq
    BY <1>1, <1>4 DEF Replying
  <2> HIDE DEF e, cur
  <2>6. client'[c] = e /\ \A d \in Client \ {c} : client'[d] = client[d]
    BY <1>1, <1>2, <2>1
  <2>7. \A d \in Client \ {c} : Shows(d)' = Shows(d)
    BY <1>1, <2>6, SameShows
  <2>8. CASE cur.epoch = epoch
    <3>1. ShownNow(c)'
      BY <1>1, <2>2, <2>3, <2>6, <2>8 DEF ShownNow
    <3>2. PICK n \in Nat : n = cur.seq
      BY <2>3
    <3>3. seen' = [seen EXCEPT ![c] = n] /\ seen[c] <= n
      BY <2>1, <2>5, <2>8, <3>2
    <3>4. PICK b \in Client : b = c
      BY <1>2
    <3>5. ShownNow(b)' /\ (\A d \in Client \ {b} : Shows(d)' = Shows(d))
          /\ seen' = [seen EXCEPT ![b] = n] /\ seen[b] <= n
      BY <2>7, <3>1, <3>3, <3>4
    <3>6. Feed!Show(b)
      BY <1>1, <3>5, StepsShow
    <3> QED
      BY <3>4, <3>6
  <2>9. CASE cur.epoch # epoch
    <3>1. seen' = seen
      BY <1>1, <2>1, <2>9
    <3>2. Shows(c) = None /\ Shows(c)' = None
      BY <1>1, <2>2, <2>4, <2>6, <2>9 DEF Shows, ShownNow
    <3>3. \A d \in Client : Shows(d)' = Shows(d)
      BY <2>7, <3>2
    <3> QED
      BY <1>1, <3>1, <3>3, StepsStay
  <2> QED
    BY <2>8, <2>9
<1> QED
  BY <1>3, <1>4

LEMMA NextFeeds ==
  ASSUME DeliveryInv, DeliveryInv', [Next]_vars
  PROVE  [Feed!FeedNext]_(Feed!feed)
<1>1. log \in Seq(Event)
  BY DEF DeliveryInv, TypeOK
<1>2. ASSUME epoch' = epoch, client' = client, seen' = seen, log' \in Seq(Event), Extends(log, log')
      PROVE  Feed!Publish
  <2>1. \A c \in Client : Shows(c)' = Shows(c)
    BY <1>2, SameShows
  <2> QED
    BY <1>1, <1>2, <2>1, StepsPublish
<1>3. CASE World
  BY <1>2, <1>3, WorldExtends, RestartFeeds DEF Feed!FeedNext
<1>4. ASSUME NEW c \in Client, Server(c) PROVE Feed!Publish
  <2>1. epoch' = epoch /\ client' = client /\ seen' = seen
    BY <1>4 DEF Server, Subscribe, Acknowledge, Tick, EndSession, broker
  <2>2. CASE Subscribe(c)
    BY <1>2, <2>1, <2>2, PublishExtends DEF Subscribe
  <2>3. CASE Acknowledge(c) \/ Tick(c) \/ EndSession(c)
    <3>1. log' = log
      BY <2>3 DEF Acknowledge, Tick, EndSession, broker
    <3> QED
      BY <1>1, <1>2, <2>1, <3>1, SameExtends
  <2> QED
    BY <1>4, <2>2, <2>3 DEF Server
<1>5. ASSUME NEW c \in Client, Page(c)
      PROVE  Feed!Show(c) \/ Feed!Blank(c) \/ UNCHANGED Feed!feed
  <2>1. CASE Stop(c) \/ SnapshotFails(c) \/ Closed(c) \/ Broken(c)
    <3>1. Stop(c) \/ \E resnapshot \in BOOLEAN : Recovered(c, resnapshot)
      BY <2>1 DEF SnapshotFails, Closed, Broken, Recover
    <3>2. log' = log /\ seen' = seen /\ epoch' = epoch
      BY <2>1 DEF Stop, SnapshotFails, Closed, Broken
    <3> QED
      BY <3>1, <3>2, EndFeeds
  <2> QED
    BY <1>5, <2>1, OthersFeed, ReceiveFeeds, Zenon DEF Page
<1>6. ASSUME NEW r \in calls, Serve(r) PROVE Feed!Publish
  BY <1>2, <1>6, ServeExtends
<1>7. ASSUME NEW r \in calls, Replied(r)
      PROVE  r.client \in Client /\ (Feed!Show(r.client) \/ UNCHANGED Feed!feed)
  <2>1. r.client \in Client
    BY DEF DeliveryInv, TypeOK, Call
  <2> QED
    BY <1>7, <2>1, RepliedFeeds
<1>8. CASE UNCHANGED vars
  <2>1. log' = log /\ seen' = seen /\ epoch' = epoch /\ client' = client
    BY <1>8 DEF vars
  <2>2. \A c \in Client : Shows(c)' = Shows(c)
    BY <2>1, SameShows
  <2> QED
    BY <2>1, <2>2, StepsStay
<1>9. CASE \E c \in Client : Server(c) \/ Page(c)
  BY <1>4, <1>5, <1>9 DEF Feed!FeedNext
<1>10. CASE \E r \in calls : Serve(r) \/ Replied(r)
  BY <1>6, <1>7, <1>10 DEF Feed!FeedNext
<1> QED
  BY <1>3, <1>8, <1>9, <1>10 DEF Next

(* What every browser shows is a moment of the published history, and never *)
(* goes back while the server lives, whatever is lost, late or of another   *)
(* operation (tagRuntimeClient.ts 57 and 92-102): TagDelivery implements    *)
(* TagFeed.                                                                 *)
THEOREM FeedImplemented == Spec => ImplementsFeed
<1>1. Init => Feed!FeedInit
  <2> SUFFICES ASSUME Init PROVE Feed!FeedInit
    OBVIOUS
  <2>1. \A c \in Client : ~ ShownNow(c)
    BY DEF Init, ShownNow
  <2>2. Shown = [c \in Client |-> None]
    BY <2>1 DEF Shown, Shows
  <2> QED
    BY <2>2 DEF Init, Feed!FeedInit, Shown, Shows
<1>2. DeliveryInv /\ DeliveryInv' /\ [Next]_vars => [Feed!FeedNext]_(Feed!feed)
  BY NextFeeds
<1> QED
  BY <1>1, <1>2, DeliveryInvariant, PTL DEF Spec, ImplementsFeed, Feed!FeedSpec

=============================================================================
