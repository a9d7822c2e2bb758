---------------------------- MODULE MonitorLists ----------------------------
(***************************************************************************)
(* server/src/monitor.ts: monitor lists that scan one device, one request  *)
(* per item, one scan at a time.  A scan that is under way admits one      *)
(* pending scan; stop() takes a new generation, so that what is still      *)
(* under way is neither continued nor published.                           *)
(*                                                                         *)
(* The connection (DeviceConnection) is what a list sees of it: its job    *)
(* waits in the queue, is sent, and is refused while another job of the    *)
(* list is queued or active.  An aborted job stays active until the        *)
(* continuation of pump() has run; it then runs before that of a scan, and *)
(* both before the next route, timer or socket event.                      *)
(*                                                                         *)
(* Enabled items are a number, at least one in a list that has a device.   *)
(* What is read is a version: that of the list the scan began with.        *)
(***************************************************************************)
EXTENDS Naturals, Sequences, FiniteSets, SequencesExt

CONSTANTS
  List,          \* monitor lists ever created
  None,          \* no pending scan, nothing published
  Items,         \* numbers of enabled items an update may give a list
  MonitorLimit,  \* monitorQueueLimit of the device
  MaxStops,      \* bound: generations of a list
  MaxUpdates     \* bound: versions of a list

ASSUME MonitorAssumption ==
  /\ Items \subseteq Nat \ {0}
  /\ MonitorLimit \in Nat \ {0}
  /\ MaxStops \in Nat /\ MaxUpdates \in Nat

VARIABLES
  connected,  \* the device is connected
  list        \* each list with its RunState, its job and its scans

vars == <<connected, list>>

(* asked: its request is with the connection; rejected: the device was     *)
(* away; the others say how the request ended, and the scan is to go on.   *)
Status == {"asked", "answered", "failed", "coalesced", "cancelled", "rejected"}
Scan == [gen : Nat, version : Nat, since : Nat, left : Nat, status : Status, reader : BOOLEAN]
Pending == [gen : Nat, reader : BOOLEAN]
(* Published values: the version of the list their scan began with, and    *)
(* whether the list was stopped between the scan's beginning and its end.  *)
Shown == [version : Nat, overtaken : BOOLEAN]
Monitor ==
  [life : {"new", "exists", "deleted"},
   bound : BOOLEAN,                                 \* it has a deviceId
   items : Nat,
   version : Nat,                                   \* history: updates
   stops : Nat,                                     \* history: stops
   timer : BOOLEAN,
   gen : Nat,                                       \* generation
   active : BOOLEAN,                                \* active is set
   pending : Pending \cup {None},
   scans : Seq(Scan),                               \* executeRun() calls in progress
   job : {"none", "waiting", "sent", "aborted", "broken"},    \* its monitor request
   shown : Shown \cup {None}]                       \* the values it published last

TypeOK == connected \in BOOLEAN /\ list \in [List -> Monitor]

Init ==
  /\ connected = FALSE
  /\ list = [l \in List |->
       [life |-> "new", bound |-> FALSE, items |-> 0, version |-> 0, stops |-> 0,
        timer |-> FALSE, gen |-> 0, active |-> FALSE, pending |-> None, scans |-> <<>>, job |-> "none",
        shown |-> None]]

-----------------------------------------------------------------------------
(* The connection, as a list m sees it.                                    *)

Waiting == {l \in List : list[l].job = "waiting"}

(* request(): what becomes of the request of an item.                      *)
Admission(m) ==
  IF m.job # "none" THEN "coalesced"
  ELSE IF ~ connected \/ Cardinality(Waiting) >= MonitorLimit THEN "failed"
  ELSE "asked"

WithJob(m, status) == IF status = "asked" THEN [m EXCEPT !.job = "waiting"] ELSE m

Ended(scans, status) ==
  [i \in DOMAIN scans |-> IF scans[i].status = "asked" THEN [scans[i] EXCEPT !.status = status]
                          ELSE scans[i]]

(* cancelMonitorRequests(): a waiting job is rejected, an active aborted.  *)
Cancel(m) ==
  CASE m.job = "waiting" -> [m EXCEPT !.job = "none", !.scans = Ended(@, "cancelled")]
    [] m.job = "sent" -> [m EXCEPT !.job = "aborted"]
    [] OTHER -> m

(* clearQueue(), for the jobs of a list: both fail.                        *)
Cleared(m) ==
  CASE m.job = "waiting" -> [m EXCEPT !.job = "none", !.scans = Ended(@, "failed")]
    [] m.job = "sent" -> [m EXCEPT !.job = "broken"]
    [] OTHER -> m

-----------------------------------------------------------------------------
(* ModbusMonitorManager, as functions of a list.                           *)

Begin(m, reader) ==
  LET status == IF m.bound /\ connected THEN Admission(m) ELSE "rejected"
  IN  [WithJob(m, status) EXCEPT
         !.active = TRUE,
         !.scans = Append(@, [gen |-> m.gen, version |-> m.version, since |-> m.stops,
                              left |-> m.items, status |-> status, reader |-> reader])]

(* read(): a scan, the pending scan, or a share in the pending scan.       *)
Read(m, reader) ==
  IF ~ m.active THEN Begin(m, reader)
  ELSE IF m.pending = None THEN [m EXCEPT !.pending = [gen |-> m.gen, reader |-> reader]]
  ELSE [m EXCEPT !.pending.reader = @ \/ reader]

Started(m) == IF m.timer THEN m ELSE [Read(m, FALSE) EXCEPT !.timer = TRUE]

(* Mutant: stop() leaves the generation as it is.                          *)
StoppedAlike(m) ==
  [Cancel(m) EXCEPT !.timer = FALSE, !.stops = @ + 1, !.active = FALSE, !.pending = None]
(* stop()                                                                  *)
Stopped(m) ==
  [Cancel(m) EXCEPT !.timer = FALSE, !.gen = @ + 1, !.stops = @ + 1, !.active = FALSE,
                    !.pending = None]

FinishOnly(m) == [m EXCEPT !.active = FALSE]    \* Mutant: the pending scan is left.

(* finishRun(): the pending scan begins, if it is of this generation.      *)
Finish(m) ==
  LET done == [m EXCEPT !.active = FALSE, !.pending = None]
  IN  IF m.pending = None \/ m.pending.gen # m.gen THEN done ELSE Begin(done, m.pending.reader)

-----------------------------------------------------------------------------
(* No continuation is due: a route, timer or socket event may run.         *)
Ready(l) == {i \in DOMAIN list[l].scans : list[l].scans[i].status # "asked"}
Turn == \A l \in List : list[l].job \notin {"aborted", "broken"} /\ Ready(l) = {}

Becomes(l, m) == list' = [list EXCEPT ![l] = m] /\ UNCHANGED connected

Exists(l) == Turn /\ list[l].life = "exists"

Create(l) ==
  /\ Turn /\ list[l].life = "new"
  /\ Becomes(l, [list[l] EXCEPT !.life = "exists"])

Reading(l) ==
  (list[l].pending # None /\ list[l].pending.reader) \/ \E i \in DOMAIN list[l].scans : list[l].scans[i].reader

(* The read route; one reader is followed at a time.                       *)
ReadNow(l) == Exists(l) /\ ~ Reading(l) /\ Becomes(l, Read(list[l], TRUE))

Tick(l) == Exists(l) /\ list[l].timer /\ Becomes(l, Read(list[l], FALSE))

Start(l) == Exists(l) /\ ~ list[l].timer /\ Becomes(l, Started(list[l]))

Stop(l) == Exists(l) /\ list[l].stops < MaxStops /\ Becomes(l, Stopped(list[l]))

(* update(): what runs is stopped, and started again if its timer was on.  *)
Busy(m) == m.timer \/ m.active \/ m.pending # None

Update(l, bound, items) ==
  LET m == list[l]
      stopped == IF Busy(m) THEN Stopped(m) ELSE m
      next == [stopped EXCEPT !.bound = bound, !.items = items, !.version = @ + 1]
  IN  /\ Exists(l) /\ m.stops < MaxStops /\ m.version < MaxUpdates
      /\ Becomes(l, IF m.timer THEN Started(next) ELSE next)

Delete(l) ==
  /\ Exists(l) /\ list[l].stops < MaxStops
  /\ Becomes(l, [Stopped(list[l]) EXCEPT !.life = "deleted", !.shown = None])

-----------------------------------------------------------------------------
(* The device                                                              *)

Connect == Turn /\ ~ connected /\ connected' = TRUE /\ UNCHANGED list

(* disconnect(): everything fails; the state event then stops the lists of *)
(* the device.                                                             *)
Disconnect ==
  LET S == {l \in List : list[l].life = "exists" /\ list[l].bound}
  IN  /\ Turn /\ connected /\ \A l \in S : list[l].stops < MaxStops
      /\ connected' = FALSE
      /\ list' = [l \in List |-> IF l \in S THEN Stopped(Cleared(list[l])) ELSE Cleared(list[l])]

Send(l) ==
  /\ Turn /\ list[l].job = "waiting" /\ \A k \in List : list[k].job # "sent"
  /\ Becomes(l, [list[l] EXCEPT !.job = "sent"])

Answer(l) ==
  /\ Turn /\ list[l].job = "sent"
  /\ \E status \in {"answered", "failed"} :
       Becomes(l, [list[l] EXCEPT !.job = "none", !.scans = Ended(@, status)])

(* The continuation of pump() of an aborted job.                           *)
Aborted(l) ==
  \E end \in {<<"aborted", "cancelled">>, <<"broken", "failed">>} :
    /\ list[l].job = end[1]
    /\ Becomes(l, [list[l] EXCEPT !.job = "none", !.scans = Ended(@, end[2])])

-----------------------------------------------------------------------------
(* executeRun() after its await, up to the next request or the end, and    *)
(* finishRun().  A stale scan is cancelled wherever it is.                 *)

Stale(m, s) == m.life = "deleted" \/ s.gen # m.gen

More(s) == s.status \notin {"cancelled", "rejected"} /\ s.left > 1

NextItem(m, i) ==
  LET status == Admission(m)
  IN  [WithJob(m, status) EXCEPT !.scans[i].left = @ - 1, !.scans[i].status = status]

Resume(l, i) ==
  LET m == list[l]
      s == m.scans[i]
      over == [m EXCEPT !.scans = RemoveAt(@, i)]
      published == [version |-> s.version, overtaken |-> s.since # m.stops]
  IN  /\ \A k \in List : list[k].job \notin {"aborted", "broken"}
      /\ i \in Ready(l)
      /\ \/ Stale(m, s) /\ Becomes(l, over)
         \/ ~ Stale(m, s) /\ More(s) /\ Becomes(l, NextItem(m, i))
         \/ /\ ~ Stale(m, s) /\ ~ More(s)
            /\ Becomes(l, IF s.status \in {"cancelled", "rejected"} THEN Finish(over)
                          ELSE Finish([over EXCEPT !.shown = published]))

-----------------------------------------------------------------------------
Routes ==
  \/ \E l \in List : Create(l) \/ ReadNow(l) \/ Start(l) \/ Stop(l) \/ Delete(l)
  \/ \E l \in List, bound \in BOOLEAN, items \in Items : Update(l, bound, items)

Device ==
  \/ Connect \/ Disconnect
  \/ \E l \in List : Send(l) \/ Answer(l)

Continuations == \E l \in List : Aborted(l) \/ \E i \in Ready(l) : Resume(l, i)

Next == Routes \/ (\E l \in List : Tick(l)) \/ Device \/ Continuations

Spec == Init /\ [][Next]_vars

(* Continuations run, a request that was sent ends by its timeout (between *)
(* turns), and the queue, first come first served among monitors, comes to *)
(* every job.                                                              *)
Fairness ==
  /\ WF_vars(Continuations)
  /\ \A l \in List : SF_vars(Send(l)) /\ SF_vars(Answer(l))

FairSpec == Spec /\ Fairness
-----------------------------------------------------------------------------
(* Properties                                                              *)

(* A list has at most one active scan: of the scans in progress, exactly   *)
(* the one `active' stands for is of its generation; the others, which     *)
(* stops left behind, are stale.                                           *)
OneScan ==
  \A l \in List :
    Cardinality({i \in DOMAIN list[l].scans : ~ Stale(list[l], list[l].scans[i])})
      = IF list[l].active THEN 1 ELSE 0

(* A pending scan is followed up: a scan of its generation is in progress  *)
(* whose end will begin it.                                                *)
PendingBacked ==
  \A l \in List : list[l].pending # None =>
    \E i \in DOMAIN list[l].scans : list[l].scans[i].gen = list[l].pending.gen
                                    /\ ~ Stale(list[l], list[l].scans[i])

(* What is published was read with the items the list has now, and for a   *)
(* list that was not stopped since its scan began: no stop, edit, deletion *)
(* or disconnection lies between (monitor.ts:210, 284, 310).               *)
PublishesCurrent ==
  [][\A l \in List : list'[l].shown \notin {list[l].shown, None} =>
       list'[l].shown = [version |-> list'[l].version, overtaken |-> FALSE]]_vars

(* A list that was stopped, updated or deleted sends nothing more for its  *)
(* old scans: each new job is asked by the scan of its generation, for the *)
(* items it has now.                                                       *)
AsksCurrent ==
  [][\A l \in List : list[l].job = "none" /\ list'[l].job = "waiting" =>
       \A i \in DOMAIN list'[l].scans :
         list'[l].scans[i].status = "asked" =>
           /\ list'[l].scans[i].gen = list'[l].gen
           /\ list'[l].scans[i].version = list'[l].version
           /\ list'[l].life = "exists"]_vars

(* Every read is answered or rejected, whatever is stopped, updated,       *)
(* deleted or disconnected while it waits.                                 *)
ReadSettles == \A l \in List : Reading(l) ~> ~ Reading(l)

(* "a restart is free to admit a fresh scan": the scan a restart begins is *)
(* not refused for the job of the scan it replaced.                        *)
RestartAdmitted ==
  \A l \in List : \A i \in DOMAIN list[l].scans : list[l].scans[i].status # "coalesced"

=============================================================================
