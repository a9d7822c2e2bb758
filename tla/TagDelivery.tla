----------------------------- MODULE TagDelivery ----------------------------
(***************************************************************************)
(* How a browser follows Shared Tags: server/src/tagDeliveryBroker.ts (a   *)
(* journal of numbered events, watches on the sources somebody shows),     *)
(* tagDeliverySocket.ts (one subscription fed from the journal), and       *)
(* client/src/lib/tagRuntimeClient.ts under overviewTagClientAdapter.ts    *)
(* (snapshot, subscribe with its cursor, apply, acknowledge, recover).     *)
(*                                                                         *)
(* An item is a sample and an availability.  Samples change with an event  *)
(* in the same turn; availabilities change silently, and are looked at by  *)
(* invalidate().  The journal keeps the part of log after its floor; log   *)
(* itself is history.  A cursor is the epoch of the server and a number;   *)
(* its signature and selection key are those of its own browser.           *)
(*                                                                         *)
(* Time: a watch may lapse whenever it has no subscription, the journal    *)
(* may be pruned at any moment, a reply or a frame may come at any moment  *)
(* or be too late.                                                         *)
(***************************************************************************)
EXTENDS Naturals, Sequences, FiniteSets, SequencesExt

CONSTANTS
  Source,         \* SHARED_TAG identities
  Client,         \* browsers, each with one page
  Selection,      \* the sources of each page
  Others,         \* selections of browsers that only ask for snapshots
  None,
  Unacked,        \* boundaries a subscription may have outstanding (queueCount)
  JournalCount,   \* journalCount
  RecoveryLimit,  \* recoveryAttempts of the adapter
  MaxChanges,     \* bound: changes of items and lapses of watches
  MaxRestarts,    \* bound: restarts of the server
  MaxStarts       \* bound: starts of a page's session

ASSUME DeliveryAssumption ==
  /\ IsFiniteSet(Source) /\ IsFiniteSet(Client)
  /\ Selection \in [Client -> SUBSET Source] /\ Others \subseteq SUBSET Source
  /\ Unacked \in Nat \ {0} /\ JournalCount \in Nat \ {0}
  /\ RecoveryLimit \in Nat /\ MaxChanges \in Nat /\ MaxRestarts \in Nat /\ MaxStarts \in Nat

VARIABLES
  item,      \* what availabilityReader() would return now
  epoch,     \* serverEpoch
  log,       \* history: every event of this epoch
  floor,     \* TagJournal.floor
  watch,     \* watches of the broker
  failed,    \* the broker failed closed
  session,   \* TagSocketSession of each browser's current socket
  up,        \* controls on their way to the session
  down,      \* frames on their way to the browser
  client,    \* TagRuntimeClient and the adapter's budget
  calls,     \* snapshot requests: not served, or with a reply on its way;
             \* current while the operation that made them is
  seen,      \* history: the last number a browser applied in this epoch
  changes    \* bound: changes made so far

broker == <<epoch, log, floor, watch, failed>>
sockets == <<session, up, down>>
vars == <<item, epoch, log, floor, watch, failed, session, up, down, client, calls, seen, changes>>

Item == [av : BOOLEAN, sample : Nat]
Event == [source : Source, item : Item]
Cursor == [epoch : Nat, seq : Nat]
Watch == [sig : Item, refs : Nat, since : Nat]
Session == [subscribed : BOOLEAN, after : Nat, acked : Nat, boundaries : SUBSET Nat]
Browser ==
  [phase : {"idle", "snapshot", "opening", "subscribing", "live", "waiting", "halted"},
   cursor : Cursor \cup {None},                   \* None: not valid
   cache : [Source -> Item \cup {None}],
   ack : BOOLEAN,                                 \* ackTimer runs
   attempts : Nat, starts : Nat]

Control == [type : {"subscribe", "ack"}, cursor : Cursor]
Updates == UNION {[numbers -> Event] : numbers \in SUBSET Nat}
Frame == [type : {"resync"}] \cup [type : {"subscribed"}, to : Nat]
         \cup [type : {"range"}, from : Nat, to : Nat, updates : Updates]
Reply == [cursor : Cursor, items : [Source -> Item \cup {None}]]
Call == [client : Client, current : BOOLEAN, reply : Reply \cup {None}]
ASSUME NoneAssumption == None \notin Item \cup Watch \cup Session \cup Cursor \cup Reply

TypeOK ==
  /\ item \in [Source -> Item]
  /\ epoch \in Nat /\ log \in Seq(Event) /\ floor \in Nat /\ failed \in BOOLEAN
  /\ watch \in [Source -> Watch \cup {None}]
  /\ session \in [Client -> Session \cup {None}]
  /\ up \in [Client -> Seq(Control)] /\ down \in [Client -> Seq(Frame)]
  /\ client \in [Client -> Browser] /\ calls \subseteq Call
  /\ seen \in [Client -> Nat] /\ changes \in Nat

NoCache == [s \in Source |-> None]

Init ==
  /\ item = [s \in Source |-> [av |-> TRUE, sample |-> 0]]
  /\ epoch = 0 /\ log = <<>> /\ floor = 0 /\ failed = FALSE
  /\ watch = [s \in Source |-> None]
  /\ session = [c \in Client |-> None]
  /\ up = [c \in Client |-> <<>>]
  /\ down = [c \in Client |-> <<>>]
  /\ client = [c \in Client |-> [phase |-> "idle", cursor |-> None, cache |-> NoCache,
                                 ack |-> FALSE, attempts |-> 0, starts |-> 0]]
  /\ calls = {}
  /\ seen = [c \in Client |-> 0]
  /\ changes = 0

-----------------------------------------------------------------------------
(* The broker.                                                             *)

Max2(a, b) == IF a >= b THEN a ELSE b

(* publish() of some sources in a row: the log and the floor after it.     *)
Appended(ss) == log \o [i \in 1..Len(ss) |-> [source |-> ss[i], item |-> item[ss[i]]]]
Floor(n) == IF n > JournalCount THEN Max2(floor, n - JournalCount) ELSE floor

Watched == {s \in Source : watch[s] # None}
(* signature() of what a watch last published against what is read now.    *)
(* Mutant: an availability is not part of the signature. *)
DirtySamples == {s \in Watched : watch[s].sig.sample # item[s].sample}

Dirty == {s \in Watched : watch[s].sig # item[s]}

Publishes(ss) ==
  /\ log' = Appended(ss)
  /\ floor' = Floor(Len(log'))

(* invalidate() and what it leaves of the watches.                         *)
(* Mutant: what was published is not remembered. *)
InvalidatedSilently == watch

Invalidated == [s \in Source |-> IF s \in Dirty THEN [watch[s] EXCEPT !.sig = item[s]] ELSE watch[s]]

Change == changes < MaxChanges /\ changes' = changes + 1

(* A sample changes: the observer of the store publishes, watched or not,  *)
(* or something throws and the broker fails closed.                        *)
Sample(s) ==
  LET now == [item[s] EXCEPT !.sample = @ + 1]
  IN /\ ~failed /\ Change
     /\ item' = [item EXCEPT ![s] = now]
     /\ \/ /\ log' = Append(log, [source |-> s, item |-> now])
           /\ floor' = Floor(Len(log'))
           /\ watch' = IF s \in Watched THEN [watch EXCEPT ![s].sig = now] ELSE watch
           /\ UNCHANGED failed
        \/ /\ failed' = TRUE
           /\ UNCHANGED <<log, floor, watch>>
     /\ UNCHANGED <<epoch, sockets, client, calls, seen>>

(* A definition, mapping or device changes what is read: no event yet.     *)
Silent(s) ==
  /\ Change
  /\ item' = [item EXCEPT ![s].av = ~@]
  /\ UNCHANGED <<broker, sockets, client, calls, seen>>

(* notifyInvalidation(), by the hook or the observer of the configuration. *)
Invalidate ==
  /\ ~failed /\ Dirty # {}
  /\ Publishes(SetToSeq(Dirty))
  /\ watch' = Invalidated
  /\ UNCHANGED <<item, epoch, failed, sockets, client, calls, seen, changes>>

(* prune(): of the journal by age (all of it: the limit of its count cuts  *)
(* parts of it), and of the watches nobody holds.                          *)
PruneJournal ==
  /\ floor < Len(log)
  /\ floor' = Len(log)
  /\ UNCHANGED <<item, epoch, log, watch, failed, sockets, client, calls, seen, changes>>
PruneWatch(s) ==
  /\ Change /\ s \in Watched /\ watch[s].refs = 0
  /\ watch' = [watch EXCEPT ![s] = None]
  /\ UNCHANGED <<item, epoch, log, floor, failed, sockets, client, calls, seen>>

(* snapshot(): invalidate, capture, then publish each source that was not  *)
(* watched; the cursor counts those events beforehand.                     *)
Snapshot(sel) ==
  LET changed == SetToSeq(Dirty)
      added == SetToSeq(sel \ Watched)
  IN /\ Publishes(changed \o added)
     /\ watch' = [s \in Source |->
                    IF s \in sel /\ s \notin Watched
                    THEN [sig |-> item[s], refs |-> 0,
                          since |-> Len(log) + Len(changed) + (CHOOSE i \in DOMAIN added : added[i] = s)]
                    ELSE Invalidated[s]]

(* Mutant: the cursor is taken before the events of the snapshot. *)
BoundaryBefore(sel) == Len(log)

Boundary(sel) == Len(log) + Cardinality(Dirty) + Cardinality(sel \ Watched)

(* Another browser's snapshot.                                             *)
OtherSnapshot(sel) ==
  /\ ~failed
  /\ sel \cap Watched # sel \/ Dirty # {}
  /\ Snapshot(sel)
  /\ UNCHANGED <<item, epoch, failed, sockets, client, calls, seen, changes>>

(* A crash of the server: sockets break, cursors of it are worth nothing.  *)
Restart ==
  /\ epoch < MaxRestarts
  /\ epoch' = epoch + 1
  /\ log' = <<>> /\ floor' = 0 /\ failed' = FALSE
  /\ watch' = [s \in Source |-> None]
  /\ item' = [s \in Source |-> [item[s] EXCEPT !.sample = 0]]
  /\ session' = [c \in Client |-> None]
  /\ up' = [c \in Client |-> <<>>] /\ down' = [c \in Client |-> <<>>]
  /\ calls' = {r \in calls : r.reply # None}
  /\ seen' = [c \in Client |-> 0]
  /\ UNCHANGED <<client, changes>>

-----------------------------------------------------------------------------
(* The session of a socket.                                                *)

Released(c) ==
  [s \in Source |-> IF session[c] # None /\ session[c].subscribed /\ s \in Selection[c]
                    THEN [watch[s] EXCEPT !.refs = @ - 1] ELSE watch[s]]

(* abort(): the queue goes, the lease goes, the browser is told if it can. *)
Abort(c) ==
  /\ session' = [session EXCEPT ![c] = None]
  /\ up' = [up EXCEPT ![c] = <<>>]
  /\ watch' = Released(c)
  /\ \E cut \in 0..Len(down[c]), told \in BOOLEAN :
       down' = [down EXCEPT ![c] = SubSeq(@, 1, cut) \o (IF told THEN <<[type |-> "resync"]>> ELSE <<>>)]

(* acquire(): the cursor is of this server, the journal still has what     *)
(* comes after it, every source is watched since before it.                *)
Acquires(c, cur, w) ==
  /\ cur.epoch = epoch /\ cur.seq >= floor'
  /\ \A s \in Selection[c] : w[s] # None /\ cur.seq >= w[s].since

Subscribe(c) ==
  /\ session[c] # None /\ up[c] # <<>> /\ Head(up[c]).type = "subscribe" /\ ~failed
  /\ Publishes(SetToSeq(Dirty))
  /\ LET cur == Head(up[c]).cursor
         w == Invalidated
     IN IF Acquires(c, cur, w)
        THEN /\ session' = [session EXCEPT ![c] = [subscribed |-> TRUE, after |-> cur.seq,
                                                   acked |-> cur.seq, boundaries |-> {}]]
             /\ watch' = [s \in Source |-> IF s \in Selection[c]
                                           THEN [w[s] EXCEPT !.refs = @ + 1] ELSE w[s]]
             /\ up' = [up EXCEPT ![c] = Tail(@)]
             /\ down' = [down EXCEPT ![c] = Append(@, [type |-> "subscribed", to |-> cur.seq])]
        ELSE /\ session' = [session EXCEPT ![c] = None]
             /\ up' = [up EXCEPT ![c] = <<>>]
             /\ watch' = w
             /\ down' = [down EXCEPT ![c] = Append(@, [type |-> "resync"])]
  /\ UNCHANGED <<item, epoch, failed, client, calls, seen, changes>>

(* An acknowledgement: of the last one, ignored; of a boundary, those up   *)
(* to it are settled; of anything else, the session ends.                  *)
Acknowledge(c) ==
  /\ session[c] # None /\ up[c] # <<>> /\ Head(up[c]).type = "ack" /\ ~failed
  /\ LET n == Head(up[c]).cursor.seq
         z == session[c]
     IN \/ /\ n = z.acked \/ n \in z.boundaries
           /\ session' = [session EXCEPT ![c] = [z EXCEPT !.acked = n,
                                                          !.boundaries = {b \in @ : b > n}]]
           /\ up' = [up EXCEPT ![c] = Tail(@)]
           /\ UNCHANGED <<watch, down>>
        \/ /\ n # z.acked /\ n \notin z.boundaries
           /\ Abort(c)
  /\ UNCHANGED <<item, epoch, log, floor, failed, client, calls, seen, changes>>

(* The events after one number up to another that a page shows, each under *)
(* its deliverySequence.                                                   *)
Relevant(history, after, to, sel) ==
  [n \in {m \in (after + 1)..to : history[m].source \in sel} |-> history[n]]

(* Mutant: the session goes on from the end of the journal.                *)
TickToEnd(c) ==
  LET z == session[c]
  IN /\ z # None /\ z.subscribed /\ ~failed
     /\ z.after < Len(log) /\ z.after >= floor
     /\ Cardinality(z.boundaries) < Unacked
     /\ \E to \in (z.after + 1)..Len(log) :
          /\ down' = [down EXCEPT ![c] = Append(@, [type |-> "range", from |-> z.after, to |-> to,
                        updates |-> Relevant(log, z.after, to, Selection[c])])]
          /\ session' = [session EXCEPT ![c].after = Len(log), ![c].boundaries = @ \cup {to}]
     /\ UNCHANGED <<item, broker, up, client, calls, seen, changes>>

(* tick(): a frame of the next events, as many as fit, the ones of this    *)
(* page in it; without any, a checkpoint now and then.                     *)
Tick(c) ==
  LET z == session[c]
  IN /\ z # None /\ z.subscribed /\ ~failed
     /\ z.after < Len(log) /\ z.after >= floor
     /\ Cardinality(z.boundaries) < Unacked
     /\ \E to \in (z.after + 1)..Len(log) :
          /\ down' = [down EXCEPT ![c] = Append(@, [type |-> "range", from |-> z.after, to |-> to,
                        updates |-> Relevant(log, z.after, to, Selection[c])])]
          /\ session' = [session EXCEPT ![c].after = to, ![c].boundaries = @ \cup {to}]
     /\ UNCHANGED <<item, broker, up, client, calls, seen, changes>>

(* The session ends itself: the journal no longer has what comes next, the *)
(* browser does not acknowledge in time or at all, its socket is full, or  *)
(* the broker failed.                                                      *)
EndSession(c) ==
  /\ session[c] # None
  /\ \/ failed
     \/ session[c].subscribed /\ session[c].after < floor
     \/ session[c].boundaries # {}
     \/ down[c] # <<>>
  /\ Abort(c)
  /\ UNCHANGED <<item, epoch, log, floor, failed, client, calls, seen, changes>>

-----------------------------------------------------------------------------
(* The browser.                                                            *)

(* detach(): what the old operation still receives is not current; the     *)
(* session sees its socket close.                                          *)
Detached(c) ==
  /\ session' = [session EXCEPT ![c] = None]
  /\ watch' = Released(c)
  /\ up' = [up EXCEPT ![c] = <<>>]
  /\ down' = [down EXCEPT ![c] = <<>>]

Abandoned(c) == {IF r.client = c THEN [r EXCEPT !.current = FALSE] ELSE r : r \in calls}

(* recover(): the cache goes when what comes next is unknown.  The adapter *)
(* halts when its budget is spent, and clears what it shows.               *)
Recovered(c, resnapshot) ==
  LET k == client[c]
      spent == k.attempts >= RecoveryLimit
      drop == resnapshot \/ spent
  IN client' = [client EXCEPT ![c] =
       [k EXCEPT !.phase = IF spent THEN "halted" ELSE "waiting", !.ack = FALSE,
                 !.attempts = IF spent THEN @ ELSE @ + 1,
                 !.cursor = IF drop THEN None ELSE @,
                 !.cache = IF drop THEN NoCache ELSE @]]

Recover(c, resnapshot) == Recovered(c, resnapshot) /\ Detached(c) /\ calls' = Abandoned(c)

(* connect(): a snapshot unless the cursor is still good, then a socket.   *)
Connecting(k) ==
  [k EXCEPT !.phase = IF k.cursor = None THEN "snapshot" ELSE "opening"]
Called(c, k) == IF k.phase = "snapshot" THEN {[client |-> c, current |-> TRUE, reply |-> None]} ELSE {}

(* activate(), resume() and retry() begin with a new TagRuntimeClient.     *)
Start(c) ==
  /\ client[c].phase \in {"idle", "halted"} /\ client[c].starts < MaxStarts
  /\ LET k == Connecting([client[c] EXCEPT !.starts = @ + 1])
     IN client' = [client EXCEPT ![c] = k] /\ calls' = calls \cup Called(c, k)
  /\ UNCHANGED <<item, broker, sockets, seen, changes>>

Reconnect(c) ==
  /\ client[c].phase = "waiting"
  /\ LET k == Connecting(client[c])
     IN client' = [client EXCEPT ![c] = k] /\ calls' = calls \cup Called(c, k)
  /\ UNCHANGED <<item, broker, sockets, seen, changes>>

(* stop() and pause(): unsubscribe() and dispose() in one turn.            *)
Stop(c) ==
  /\ client[c].phase # "idle"
  /\ client' = [client EXCEPT ![c] = [@ EXCEPT !.phase = "idle", !.ack = FALSE,
                                               !.cursor = None, !.cache = NoCache]]
  /\ Detached(c) /\ calls' = Abandoned(c)
  /\ UNCHANGED <<item, epoch, log, floor, failed, seen, changes>>

(* POST /api/tag-runtime/snapshot.                                         *)
Serve(r) ==
  /\ r \in calls /\ r.reply = None /\ ~failed
  /\ Snapshot(Selection[r.client])
  /\ calls' = (calls \ {r}) \cup
       {[r EXCEPT !.reply = [cursor |-> [epoch |-> epoch, seq |-> Boundary(Selection[r.client])],
                             items |-> [s \in Source |-> IF s \in Selection[r.client] THEN item[s] ELSE None]]]}
  /\ UNCHANGED <<item, epoch, failed, sockets, client, seen, changes>>

(* The reply reaches the browser: of another operation, it is dropped.     *)
Replied(r) ==
  LET c == r.client
      k == client[c]
  IN /\ r \in calls /\ r.reply # None
     /\ calls' = calls \ {r}
     /\ IF r.current
        THEN /\ client' = [client EXCEPT ![c] = [k EXCEPT !.phase = "opening", !.cursor = r.reply.cursor,
                                                          !.cache = r.reply.items]]
             /\ seen' = [seen EXCEPT ![c] = IF r.reply.cursor.epoch = epoch THEN r.reply.cursor.seq ELSE @]
        ELSE UNCHANGED <<client, seen>>
     /\ UNCHANGED <<item, broker, sockets, changes>>

(* The request fails, is refused or takes more than 10 s.                  *)
SnapshotFails(c) ==
  /\ client[c].phase = "snapshot"
  /\ Recover(c, TRUE)
  /\ UNCHANGED <<item, epoch, log, floor, failed, seen, changes>>

(* The socket opens and the subscription is asked for.                     *)
Opened(c) ==
  /\ client[c].phase = "opening"
  /\ client' = [client EXCEPT ![c].phase = "subscribing"]
  /\ session' = [session EXCEPT ![c] = [subscribed |-> FALSE, after |-> 0, acked |-> 0, boundaries |-> {}]]
  /\ up' = [up EXCEPT ![c] = <<[type |-> "subscribe", cursor |-> client[c].cursor]>>]
  /\ down' = [down EXCEPT ![c] = <<>>]
  /\ UNCHANGED <<item, broker, calls, seen, changes>>

(* drain(): a frame must continue where the cache is.                      *)
Apply(cache, updates) ==
  [s \in Source |->
     LET at == {i \in DOMAIN updates : updates[i].source = s}
     IN IF at = {} THEN cache[s] ELSE updates[CHOOSE i \in at : \A j \in at : j =< i].item]
Continues(k, f) == f.from = k.cursor.seq /\ f.to # k.cursor.seq

Receive(c) ==
  LET k == client[c]
      f == Head(down[c])
      next == [down EXCEPT ![c] = Tail(@)]
  IN /\ k.phase \in {"subscribing", "live"} /\ down[c] # <<>>
     /\ \/ /\ f.type = "subscribed"
           /\ client' = [client EXCEPT ![c].phase = "live"]
           /\ down' = next
           /\ UNCHANGED <<session, up, watch, calls, seen>>
        \/ /\ f.type = "range" /\ Continues(k, f)
           /\ client' = [client EXCEPT ![c] = [k EXCEPT !.cursor.seq = f.to, !.ack = TRUE,
                                                        !.cache = Apply(k.cache, f.updates)]]
           /\ down' = next
           /\ seen' = [seen EXCEPT ![c] = f.to]
           /\ UNCHANGED <<session, up, watch, calls>>
        \/ /\ f.type = "resync" \/ (f.type = "range" /\ ~Continues(k, f))
           /\ Recover(c, TRUE)
           /\ UNCHANGED seen
     /\ UNCHANGED <<item, epoch, log, floor, failed, changes>>

(* The acknowledgement that the timer has waited 100 ms with.              *)
SendAck(c) ==
  /\ client[c].ack
  /\ client' = [client EXCEPT ![c].ack = FALSE]
  /\ up' = IF session[c] = None THEN up
           ELSE [up EXCEPT ![c] = Append(@, [type |-> "ack", cursor |-> client[c].cursor])]
  /\ UNCHANGED <<item, broker, session, down, calls, seen, changes>>

(* The socket closes, breaks, or does not subscribe within 10 s: the cache *)
(* stays.  Too many frames at once: it goes.                               *)
Closed(c) ==
  /\ client[c].phase \in {"subscribing", "live"} /\ session[c] = None /\ down[c] = <<>>
  /\ Recover(c, FALSE)
  /\ UNCHANGED <<item, epoch, log, floor, failed, seen, changes>>
Broken(c) ==
  /\ client[c].phase \in {"opening", "subscribing", "live"}
  /\ Recover(c, FALSE) \/ (down[c] # <<>> /\ Recover(c, TRUE))
  /\ UNCHANGED <<item, epoch, log, floor, failed, seen, changes>>

World ==
  \/ \E s \in Source : Sample(s) \/ Silent(s) \/ PruneWatch(s)
  \/ Invalidate \/ PruneJournal \/ Restart
  \/ \E sel \in Others : OtherSnapshot(sel)

Server(c) == Subscribe(c) \/ Acknowledge(c) \/ Tick(c) \/ EndSession(c)
Page(c) ==
  \/ Start(c) \/ Reconnect(c) \/ Stop(c) \/ SnapshotFails(c) \/ Opened(c)
  \/ Receive(c) \/ SendAck(c) \/ Closed(c) \/ Broken(c)

Next ==
  \/ World
  \/ \E c \in Client : Server(c) \/ Page(c)
  \/ \E r \in calls : Serve(r) \/ Replied(r)

Spec == Init /\ [][Next]_vars

-----------------------------------------------------------------------------
(* Fairness: the timer of the sessions runs every 50 ms, invalidations are *)
(* called after every change, replies, frames, controls and closes arrive, *)
(* and timers of the browser run.  Nothing makes a fault stop.             *)

Serves(c) == \E r \in calls : r.client = c /\ Serve(r)
Replies(c) == \E r \in calls : r.client = c /\ Replied(r)
MustFail(c) == SnapshotFails(c) /\ (failed \/ ~\E r \in calls : r.client = c /\ r.current)
MustEnd(c) == EndSession(c) /\ (failed \/ session[c].after < floor)

FairSpec ==
  /\ Spec
  /\ WF_vars(Invalidate)
  /\ \A c \in Client :
       /\ WF_vars(Subscribe(c)) /\ WF_vars(Acknowledge(c)) /\ WF_vars(Tick(c)) /\ WF_vars(MustEnd(c))
       /\ WF_vars(Serves(c)) /\ WF_vars(Replies(c))
       /\ WF_vars(Reconnect(c)) /\ WF_vars(Opened(c)) /\ WF_vars(Receive(c))
       /\ WF_vars(SendAck(c)) /\ WF_vars(Closed(c))
       /\ WF_vars(MustFail(c))

-----------------------------------------------------------------------------
(* Properties.                                                             *)

(* A lease is held as long as a subscription needs it: the watch of each   *)
(* source of a live subscription exists, was there before its cursor, and  *)
(* counts exactly the subscriptions on it, so that no change of what they  *)
(* show goes unpublished (tagDeliveryBroker.ts:79, 121-124).               *)
LeasesHeld ==
  /\ \A c \in Client : session[c] # None /\ session[c].subscribed =>
       \A s \in Selection[c] : s \in Watched /\ watch[s].since =< session[c].acked
  /\ \A s \in Watched :
       watch[s].refs = Cardinality({c \in Client : /\ session[c] # None /\ session[c].subscribed
                                                   /\ s \in Selection[c]})

(* What the journal says of a watched source is what is read of it, but    *)
(* for an availability nobody has looked at since: the signature is that   *)
(* of the last event.                                                      *)
LastEvent(s) == {i \in 1..Len(log) : log[i].source = s /\ \A j \in (i + 1)..Len(log) : log[j].source # s}
WatchedIsPublished ==
  ~failed => \A s \in Watched :
    /\ watch[s].sig.sample = item[s].sample
    /\ \E i \in LastEvent(s) : log[i].item = watch[s].sig /\ watch[s].since =< i

(* Nothing is skipped or sent twice on the way: the frames continue the    *)
(* cursor of the browser, one after the other, up to where the session is, *)
(* and what is acknowledged is what was sent and not yet settled.          *)
Reached(c, i) == IF i = 1 THEN client[c].cursor.seq ELSE down[c][i - 1].to
Continuous ==
  \A c \in Client : client[c].phase \in {"subscribing", "live"} =>
    /\ \A i \in DOMAIN down[c] : down[c][i].type = "range" => down[c][i].from = Reached(c, i)
    /\ session[c] # None /\ session[c].subscribed =>
         /\ session[c].after = Reached(c, Len(down[c]) + 1)
         /\ \A i \in DOMAIN up[c] : up[c][i].cursor.seq \in {session[c].acked} \cup session[c].boundaries

(* What a browser shows is a moment of the published history and never an  *)
(* earlier one than it has shown (tagRuntimeClient.ts:57, 92-102): a reply *)
(* or frame of an operation that ended, a gap, or a cursor over changes    *)
(* nobody watched would break it.                                          *)
ShownNow(c) == client[c].cursor # None /\ client[c].cursor.epoch = epoch
Feed == INSTANCE TagFeed WITH
  shown <- [c \in Client |-> IF ShownNow(c) THEN [s \in Selection[c] |-> client[c].cache[s]] ELSE None]
ImplementsFeed == Feed!FeedSpec

(* When items and connections rest, a page that runs shows what is read    *)
(* now, unless its budget of recoveries is spent or the server failed.     *)
Settled(c) ==
  \/ failed
  \/ client[c].phase \in {"idle", "halted"}
  \/ client[c].phase = "live" /\ \A s \in Selection[c] : client[c].cache[s] = item[s]
EventuallyCurrent == \A c \in Client : <>[]Settled(c)

=============================================================================
