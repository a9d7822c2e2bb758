------------------------- MODULE MonitorListsProofs -------------------------
(* Theorems about MonitorLists for any numbers of lists, items, stops,      *)
(* updates and places in the queue of the device.                           *)
EXTENDS MonitorLists, FiniteSetTheorems, SequenceTheorems, TLAPS

-----------------------------------------------------------------------------
(* The inductive invariant.  It is about one list at a time.                *)

(* A scan of the present generation is the one `active' stands for, and     *)
(* began with the list as it is; a generation is the time between stops.    *)
Present(m) == {i \in DOMAIN m.scans : m.scans[i].gen = m.gen}

ListInv(m) ==
  /\ m \in Monitor
  /\ m.stops = m.gen /\ \A i \in DOMAIN m.scans : m.scans[i].since = m.scans[i].gen
  /\ \A i \in DOMAIN m.scans : m.scans[i].gen <= m.gen
  /\ \A i \in Present(m) : m.active /\ m.scans[i].version = m.version
  /\ \A i, j \in Present(m) : i = j
  /\ m.active => m.life = "exists" /\ Present(m) # {}
  /\ m.pending # None => m.active /\ m.pending.gen = m.gen

MonitorInv ==
  /\ TypeOK
  /\ \A l \in List : ListInv(list[l])

-----------------------------------------------------------------------------
(* Sequences of scans.                                                      *)

LEMMA RemoveAtType ==
  ASSUME NEW S, NEW s \in Seq(S), NEW i \in 1 .. Len(s)
  PROVE  /\ RemoveAt(s, i) \in Seq(S)
         /\ Len(RemoveAt(s, i)) = Len(s) - 1
         /\ \A j \in 1 .. Len(s) - 1 :
              RemoveAt(s, i)[j] = IF j < i THEN s[j] ELSE s[j + 1]
<1> DEFINE front == SubSeq(s, 1, i - 1)
           back == SubSeq(s, i + 1, Len(s))
<1>1. Len(s) \in Nat /\ i \in Nat /\ 1 <= i /\ i <= Len(s)
  BY LenProperties
<1>2. /\ front \in Seq(S) /\ Len(front) = i - 1
      /\ \A j \in 1 .. i - 1 : front[j] = s[j]
  <2>1. i - 1 \in 1 - 1 .. Len(s) /\ 1 \in 1 .. Len(s) + 1
    BY <1>1
  <2>2. /\ front \in Seq(S)
        /\ Len(front) = IF 1 <= i - 1 THEN (i - 1) - 1 + 1 ELSE 0
        /\ \A j \in 1 .. (i - 1) - 1 + 1 : front[j] = s[1 + j - 1]
    BY <1>1, <2>1, SubSeqProperties
  <2> QED
    BY <1>1, <2>2
<1>3. /\ back \in Seq(S) /\ Len(back) = Len(s) - i
      /\ \A j \in 1 .. Len(s) - i : back[j] = s[i + j]
  <2>1. i + 1 \in 1 .. Len(s) + 1 /\ Len(s) \in (i + 1) - 1 .. Len(s)
    BY <1>1
  <2>2. /\ back \in Seq(S)
        /\ Len(back) = IF i + 1 <= Len(s) THEN Len(s) - (i + 1) + 1 ELSE 0
        /\ \A j \in 1 .. Len(s) - (i + 1) + 1 : back[j] = s[(i + 1) + j - 1]
    BY <1>1, <2>1, SubSeqProperties
  <2> QED
    BY <1>1, <2>2
<1>4. RemoveAt(s, i) = front \o back
  BY DEF RemoveAt
<1> HIDE DEF front, back
<1>5. /\ front \o back \in Seq(S)
      /\ Len(front \o back) = Len(front) + Len(back)
      /\ \A j \in 1 .. Len(front) + Len(back) :
           (front \o back)[j] = IF j <= Len(front) THEN front[j] ELSE back[j - Len(front)]
  BY <1>2, <1>3, ConcatProperties
<1>6. ASSUME NEW j \in 1 .. Len(s) - 1
      PROVE  (front \o back)[j] = IF j < i THEN s[j] ELSE s[j + 1]
  <2>1. CASE j < i
    BY <1>1, <1>2, <1>3, <1>5, <2>1
  <2>2. CASE i <= j
    <3>1. (front \o back)[j] = back[j - (i - 1)] /\ j - (i - 1) \in 1 .. Len(s) - i
      BY <1>1, <1>2, <1>3, <1>5, <2>2
    <3>2. i + (j - (i - 1)) = j + 1
      BY <1>1
    <3>3. ~ (j < i)
      BY <1>1, <2>2
    <3> QED
      BY <1>1, <1>3, <3>1, <3>2, <3>3
  <2>3. j < i \/ i <= j
    BY <1>1
  <2>4. i <= j => ~ (j < i)
    BY <1>1
  <2> QED
    BY <2>1, <2>2, <2>3, <2>4
<1>7. Len(front) + Len(back) = Len(s) - 1
  BY <1>1, <1>2, <1>3
<1> QED
  BY <1>4, <1>5, <1>6, <1>7

LEMMA EndedType ==
  ASSUME NEW scans \in Seq(Scan), NEW status \in Status
  PROVE  /\ Ended(scans, status) \in Seq(Scan)
         /\ DOMAIN Ended(scans, status) = DOMAIN scans
         /\ \A i \in DOMAIN scans :
              /\ Ended(scans, status)[i].gen = scans[i].gen
              /\ Ended(scans, status)[i].version = scans[i].version
              /\ Ended(scans, status)[i].since = scans[i].since
<1>1. scans \in [1 .. Len(scans) -> Scan] /\ Len(scans) \in Nat
      /\ DOMAIN scans = 1 .. Len(scans)
  BY LenProperties
<1>2. ASSUME NEW i \in 1 .. Len(scans)
      PROVE  /\ Ended(scans, status)[i] \in Scan
             /\ Ended(scans, status)[i].gen = scans[i].gen
             /\ Ended(scans, status)[i].version = scans[i].version
             /\ Ended(scans, status)[i].since = scans[i].since
  <2>1. scans[i] \in Scan
    BY <1>1
  <2>2. Ended(scans, status)[i] = IF scans[i].status = "asked"
          THEN [scans[i] EXCEPT !.status = status] ELSE scans[i]
    BY <1>1 DEF Ended
  <2> QED
    BY <2>1, <2>2 DEF Scan
<1>3. Ended(scans, status) = [i \in 1 .. Len(scans) |-> Ended(scans, status)[i]]
  BY <1>1 DEF Ended
<1>4. Ended(scans, status) \in [1 .. Len(scans) -> Scan]
  BY <1>2, <1>3
<1> QED
  BY <1>1, <1>2, <1>4, IsASeq

-----------------------------------------------------------------------------
(* A list of which only the job and the statuses of its scans change.       *)

Alike(m, n) ==
  /\ n \in Monitor
  /\ n.life = m.life /\ n.version = m.version /\ n.gen = m.gen /\ n.stops = m.stops
  /\ n.active = m.active
  /\ n.pending = m.pending /\ n.shown = m.shown
  /\ DOMAIN n.scans = DOMAIN m.scans
  /\ \A i \in DOMAIN m.scans : /\ n.scans[i].gen = m.scans[i].gen
                               /\ n.scans[i].version = m.scans[i].version
                               /\ n.scans[i].since = m.scans[i].since

LEMMA AlikeInv ==
  ASSUME NEW m, ListInv(m), NEW n, Alike(m, n)
  PROVE  ListInv(n)
<1>1. Present(n) = Present(m)
  BY DEF Present, Alike
<1> QED
  BY <1>1 DEF ListInv, Alike, Present

LEMMA CancelAlike ==
  ASSUME NEW m \in Monitor
  PROVE  Alike(m, Cancel(m))
<1>1. m.scans \in Seq(Scan) /\ "cancelled" \in Status
  BY DEF Monitor, Status
<1> DEFINE e == Ended(m.scans, "cancelled")
<1>2. /\ e \in Seq(Scan) /\ DOMAIN e = DOMAIN m.scans
      /\ \A i \in DOMAIN m.scans : e[i].gen = m.scans[i].gen /\ e[i].version = m.scans[i].version
                                 /\ e[i].since = m.scans[i].since
  BY <1>1, EndedType
<1>3. CASE m.job = "waiting"
  <2>1. Cancel(m) = [m EXCEPT !.job = "none", !.scans = e]
    BY <1>3 DEF Cancel
  <2> HIDE DEF e
  <2> QED
    BY <1>2, <2>1 DEF Alike, Monitor
<1>4. CASE m.job = "sent"
  <2>1. Cancel(m) = [m EXCEPT !.job = "aborted"]
    BY <1>4 DEF Cancel
  <2> QED
    BY <2>1 DEF Alike, Monitor
<1>5. CASE m.job \notin {"waiting", "sent"}
  <2>1. Cancel(m) = m
    BY <1>5 DEF Cancel
  <2> QED
    BY <2>1 DEF Alike
<1> QED
  BY <1>3, <1>4, <1>5

LEMMA EndedAlike ==
  ASSUME NEW m \in Monitor, NEW status \in Status
  PROVE  Alike(m, [m EXCEPT !.job = "none", !.scans = Ended(@, status)])
<1> DEFINE e == Ended(m.scans, status)
<1>1. m.scans \in Seq(Scan)
  BY DEF Monitor
<1>2. /\ e \in Seq(Scan) /\ DOMAIN e = DOMAIN m.scans
      /\ \A i \in DOMAIN m.scans : e[i].gen = m.scans[i].gen /\ e[i].version = m.scans[i].version
                                 /\ e[i].since = m.scans[i].since
  BY <1>1, EndedType
<1> HIDE DEF e
<1>3. Alike(m, [m EXCEPT !.job = "none", !.scans = e])
  BY <1>2 DEF Alike, Monitor
<1> QED
  BY <1>3 DEF e

LEMMA ClearedAlike ==
  ASSUME NEW m \in Monitor
  PROVE  Alike(m, Cleared(m))
<1>1. m.scans \in Seq(Scan) /\ "failed" \in Status
  BY DEF Monitor, Status
<1>2. CASE m.job = "waiting"
  BY <1>1, <1>2, EndedAlike DEF Cleared
<1>3. CASE m.job = "sent"
  BY <1>3 DEF Cleared, Alike, Monitor
<1>4. CASE m.job \notin {"waiting", "sent"}
  BY <1>4 DEF Cleared, Alike, Monitor
<1> QED
  BY <1>2, <1>3, <1>4

LEMMA WithJobAlike ==
  ASSUME NEW m \in Monitor, NEW status
  PROVE  /\ Alike(m, WithJob(m, status))
         /\ WithJob(m, status).scans = m.scans
         /\ WithJob(m, status).items = m.items
BY DEF WithJob, Alike, Monitor

LEMMA AdmissionType == ASSUME NEW m PROVE Admission(m) \in Status
BY DEF Admission, Status

-----------------------------------------------------------------------------
(* ModbusMonitorManager.                                                    *)

LEMMA BeginKeeps ==
  ASSUME NEW m, ListInv(m), ~ m.active, m.life = "exists", NEW reader \in BOOLEAN
  PROVE  /\ ListInv(Begin(m, reader))
         /\ Begin(m, reader).shown = m.shown /\ Begin(m, reader).version = m.version
         /\ Begin(m, reader).life = m.life
<1> DEFINE status == IF m.bound /\ connected THEN Admission(m) ELSE "rejected"
           with == WithJob(m, status)
           scan == [gen |-> m.gen, version |-> m.version, since |-> m.stops,
                    left |-> m.items, status |-> status, reader |-> reader]
           scans == Append(m.scans, scan)
           new == [with EXCEPT !.active = TRUE, !.scans = scans]
<1>1. m \in Monitor /\ Present(m) = {} /\ m.pending = None
  BY DEF ListInv
<1>2. status \in Status
  BY AdmissionType DEF Status
<1>3. Alike(m, with) /\ with.scans = m.scans
  BY <1>1, WithJobAlike
<1>4. Begin(m, reader) = new
  BY <1>3 DEF Begin
<1> HIDE DEF status, with
<1>5. scan \in Scan
  BY <1>1, <1>2 DEF Monitor, Scan
<1>6. /\ m.scans \in Seq(Scan) /\ Len(m.scans) \in Nat /\ DOMAIN m.scans = 1 .. Len(m.scans)
  BY <1>1, LenProperties DEF Monitor
<1>7. scan.gen = m.gen /\ scan.version = m.version /\ scan.since = m.stops
  OBVIOUS
<1> HIDE DEF scan
<1>8. /\ scans \in Seq(Scan) /\ DOMAIN scans = 1 .. Len(m.scans) + 1
      /\ scans[Len(m.scans) + 1] = scan
      /\ \A i \in 1 .. Len(m.scans) : scans[i] = m.scans[i]
  BY <1>5, <1>6, AppendProperties, LenProperties
<1> HIDE DEF scans
<1>9. /\ new \in Monitor /\ new.scans = scans /\ new.active = TRUE
      /\ new.gen = m.gen /\ new.version = m.version /\ new.life = m.life
      /\ new.shown = m.shown /\ new.pending = m.pending /\ new.stops = m.stops
  BY <1>3, <1>8 DEF Alike, Monitor
<1> HIDE DEF new
<1>10. m.gen \in Nat
  BY <1>1 DEF Monitor
<1>11. \A i \in 1 .. Len(m.scans) + 1 : i \in 1 .. Len(m.scans) \/ i = Len(m.scans) + 1
  BY <1>6
<1>12. \A i \in 1 .. Len(m.scans) : m.scans[i].gen <= m.gen /\ m.scans[i].gen # m.gen
  BY <1>1, <1>6 DEF ListInv, Present
<1>13. Present(new) = {Len(m.scans) + 1}
  <2>1. Len(m.scans) + 1 \in DOMAIN scans
    BY <1>6, <1>8
  <2> QED
    BY <1>7, <1>8, <1>9, <1>11, <1>12, <2>1 DEF Present
<1>14. \A i \in DOMAIN new.scans : new.scans[i].gen <= new.gen
  <2>1. m.gen <= m.gen
    BY <1>10
  <2> QED
    BY <1>7, <1>8, <1>9, <1>11, <1>12, <2>1
<1>15. \A i \in DOMAIN new.scans : new.scans[i].since = new.scans[i].gen
  BY <1>1, <1>6, <1>7, <1>8, <1>9, <1>11 DEF ListInv
<1>16. ListInv(new)
  BY <1>1, <1>7, <1>8, <1>9, <1>13, <1>14, <1>15 DEF ListInv
<1> QED
  BY <1>4, <1>9, <1>16

LEMMA ReadKeeps ==
  ASSUME NEW m, ListInv(m), m.life = "exists", NEW reader \in BOOLEAN
  PROVE  /\ ListInv(Read(m, reader))
         /\ Read(m, reader).shown = m.shown /\ Read(m, reader).version = m.version
<1>1. CASE ~ m.active
  <2>1. Read(m, reader) = Begin(m, reader)
    BY <1>1 DEF Read
  <2> QED
    BY <1>1, <2>1, BeginKeeps
<1>2. CASE m.active
  <2> DEFINE p == IF m.pending = None THEN [gen |-> m.gen, reader |-> reader]
                  ELSE [m.pending EXCEPT !.reader = @ \/ reader]
             new == [m EXCEPT !.pending = p]
  <2>1. m \in Monitor
    BY DEF ListInv
  <2>2. Read(m, reader) = new
    <3>1. CASE m.pending = None
      BY <1>2, <3>1 DEF Read
    <3>2. CASE m.pending # None
      BY <1>2, <2>1, <3>2 DEF Read, Monitor, Pending
    <3> QED
      BY <3>1, <3>2
  <2>3. p \in Pending /\ p.gen = m.gen
    <3>1. CASE m.pending = None
      BY <2>1, <3>1 DEF Monitor, Pending
    <3>2. CASE m.pending # None
      BY <2>1, <3>2 DEF Monitor, Pending, ListInv
    <3> QED
      BY <3>1, <3>2
  <2> HIDE DEF p
  <2>4. /\ new \in Monitor /\ new.pending = p
        /\ new.life = m.life /\ new.version = m.version /\ new.gen = m.gen
        /\ new.active = m.active /\ new.shown = m.shown /\ new.scans = m.scans
        /\ new.stops = m.stops
    BY <2>1, <2>3 DEF Monitor
  <2> HIDE DEF new
  <2>5. Present(new) = Present(m)
    BY <2>4 DEF Present
  <2>6. ListInv(new)
    BY <1>2, <2>3, <2>4, <2>5 DEF ListInv
  <2> QED
    BY <2>2, <2>4, <2>6
<1> QED
  BY <1>1, <1>2

LEMMA StartedKeeps ==
  ASSUME NEW m, ListInv(m), m.life = "exists"
  PROVE  /\ ListInv(Started(m))
         /\ Started(m).shown = m.shown /\ Started(m).version = m.version
<1>1. CASE m.timer
  BY <1>1 DEF Started
<1>2. CASE ~ m.timer
  <2> DEFINE r == Read(m, FALSE)
             new == [r EXCEPT !.timer = TRUE]
  <2>1. ListInv(r) /\ r.shown = m.shown /\ r.version = m.version
    BY ReadKeeps
  <2> HIDE DEF r
  <2>2. Alike(r, new)
    BY <2>1 DEF ListInv, Alike, Monitor
  <2>3. Started(m) = new
    BY <1>2 DEF Started, r
  <2> QED
    BY <2>1, <2>2, <2>3, AlikeInv DEF Alike
<1> QED
  BY <1>1, <1>2

LEMMA StoppedKeeps ==
  ASSUME NEW m, ListInv(m)
  PROVE  /\ ListInv(Stopped(m)) /\ Present(Stopped(m)) = {}
         /\ ~ Stopped(m).active /\ Stopped(m).pending = None
         /\ Stopped(m).shown = m.shown /\ Stopped(m).life = m.life
<1> DEFINE c == Cancel(m)
           new == [c EXCEPT !.timer = FALSE, !.gen = @ + 1, !.stops = @ + 1, !.active = FALSE,
                            !.pending = None]
<1>1. Stopped(m) = new
  BY DEF Stopped
<1>2. m \in Monitor /\ Alike(m, c)
  BY CancelAlike DEF ListInv
<1> HIDE DEF c
<1>3. c \in Monitor /\ c.gen \in Nat /\ c.gen = m.gen /\ c.stops = c.gen
  BY <1>2 DEF Alike, Monitor, ListInv
<1> DEFINE g == c.gen + 1
<1>4. g \in Nat
  BY <1>3
<1>5. new = [c EXCEPT !.timer = FALSE, !.gen = g, !.stops = g, !.active = FALSE, !.pending = None]
  BY <1>3 DEF Monitor
<1> HIDE DEF g, new
<1>6. /\ new \in Monitor /\ new.scans = c.scans /\ new.active = FALSE /\ new.gen = g
      /\ new.stops = g
      /\ new.life = m.life /\ new.shown = m.shown /\ new.pending = None
  BY <1>2, <1>3, <1>4, <1>5 DEF Monitor, Alike
<1>7. ASSUME NEW i \in DOMAIN new.scans
      PROVE  /\ new.scans[i].gen <= new.gen /\ new.scans[i].gen # new.gen
             /\ new.scans[i].since = new.scans[i].gen
  <2>1. /\ new.scans[i].gen = m.scans[i].gen /\ m.scans[i].gen <= m.gen
        /\ new.scans[i].since = new.scans[i].gen
    BY <1>2, <1>6 DEF Alike, ListInv
  <2>2. c.scans \in Seq(Scan)
    BY <1>3 DEF Monitor
  <2>3. new.scans[i].gen \in Nat
    <3>1. c.scans \in [1 .. Len(c.scans) -> Scan]
      BY <2>2, LenProperties
    <3>2. new.scans[i] \in Scan
      BY <1>6, <3>1
    <3> QED
      BY <3>2 DEF Scan
  <2>4. m.gen \in Nat /\ new.gen = m.gen + 1
    BY <1>3, <1>6 DEF g
  <2> QED
    BY <2>1, <2>3, <2>4
<1>8. Present(new) = {}
  BY <1>7 DEF Present
<1>9. ListInv(new)
  BY <1>6, <1>7, <1>8 DEF ListInv
<1> QED
  BY <1>1, <1>6, <1>8, <1>9

LEMMA FinishKeeps ==
  ASSUME NEW m \in Monitor, m.life = "exists", Present(m) = {},
         \A i \in DOMAIN m.scans : m.scans[i].gen <= m.gen /\ m.scans[i].since = m.scans[i].gen,
         m.stops = m.gen, NEW shown \in Shown \cup {None}
  PROVE  LET over == [m EXCEPT !.shown = shown]
         IN  /\ ListInv(Finish(over))
             /\ Finish(over).shown = shown /\ Finish(over).version = m.version
<1> DEFINE over == [m EXCEPT !.shown = shown]
           done == [over EXCEPT !.active = FALSE, !.pending = None]
<1>1. /\ over \in Monitor /\ over.shown = shown /\ over.gen = m.gen /\ over.life = m.life
      /\ over.version = m.version /\ over.scans = m.scans /\ over.pending = m.pending
      /\ over.stops = m.stops
  BY DEF Monitor
<1> HIDE DEF over
<1>2. /\ done \in Monitor /\ done.shown = shown /\ done.gen = m.gen /\ done.life = "exists"
      /\ done.version = m.version /\ done.scans = m.scans /\ done.pending = None
      /\ done.stops = m.stops
      /\ ~ done.active
  BY <1>1 DEF Monitor
<1>3. Finish(over) = IF over.pending = None \/ over.pending.gen # over.gen THEN done
                     ELSE Begin(done, over.pending.reader)
  BY DEF Finish
<1> HIDE DEF done
<1>4. Present(done) = {}
  BY <1>2 DEF Present
<1>5. ListInv(done)
  BY <1>2, <1>4 DEF ListInv
<1>6. over.pending # None => over.pending.reader \in BOOLEAN
  BY <1>1 DEF Monitor, Pending
<1>7. CASE over.pending = None \/ over.pending.gen # over.gen
  BY <1>2, <1>3, <1>5, <1>7 DEF over
<1>8. CASE ~ (over.pending = None \/ over.pending.gen # over.gen)
  BY <1>2, <1>3, <1>5, <1>6, <1>8, BeginKeeps DEF over
<1> QED
  BY <1>7, <1>8

LEMMA NextItemAlike ==
  ASSUME NEW m \in Monitor, NEW i \in DOMAIN m.scans, More(m.scans[i])
  PROVE  Alike(m, NextItem(m, i))
<1> DEFINE status == Admission(m)
           with == WithJob(m, status)
           left == m.scans[i].left - 1
           scan == [m.scans[i] EXCEPT !.left = left, !.status = status]
           scans == [m.scans EXCEPT ![i] = scan]
           new == [with EXCEPT !.scans = scans]
<1>1. Alike(m, with) /\ with.scans = m.scans /\ status \in Status
  BY WithJobAlike, AdmissionType
<1>2. m.scans \in Seq(Scan)
  BY DEF Monitor
<1>3. /\ m.scans \in [1 .. Len(m.scans) -> Scan] /\ Len(m.scans) \in Nat
      /\ DOMAIN m.scans = 1 .. Len(m.scans)
  BY <1>2, LenProperties
<1>4. m.scans[i] \in Scan
  BY <1>3
<1>5. left \in Nat
  BY <1>4 DEF More, Scan
<1> HIDE DEF status, with, left
<1>6. /\ scan \in Scan /\ scan.gen = m.scans[i].gen /\ scan.version = m.scans[i].version
      /\ scan.since = m.scans[i].since
  BY <1>1, <1>4, <1>5 DEF Scan
<1>7. NextItem(m, i) = new
  <2>1. with \in Monitor
    BY <1>1 DEF Alike
  <2>2. NextItem(m, i) = [with EXCEPT !.scans[i].left = @ - 1, !.scans[i].status = status]
    BY DEF NextItem, with, status
  <2>3. with.scans[i] = m.scans[i]
    BY <1>1
  <2> QED
    BY <1>1, <1>3, <1>4, <2>1, <2>2 DEF left, Monitor, Scan
<1> HIDE DEF scan
<1>8. /\ scans \in Seq(Scan) /\ DOMAIN scans = DOMAIN m.scans
      /\ \A j \in DOMAIN m.scans : /\ scans[j].gen = m.scans[j].gen
                                   /\ scans[j].version = m.scans[j].version
                                   /\ scans[j].since = m.scans[j].since
  <2>1. scans \in [1 .. Len(m.scans) -> Scan]
    BY <1>3, <1>6
  <2>2. scans \in Seq(Scan)
    BY <1>3, <2>1, IsASeq
  <2> QED
    BY <1>3, <1>6, <2>2
<1> HIDE DEF scans
<1>9. Alike(m, new)
  BY <1>1, <1>8 DEF Alike, Monitor
<1> QED
  BY <1>7, <1>9

(* A scan that is over leaves the others as they are.                       *)
LEMMA OverKeeps ==
  ASSUME NEW m, ListInv(m), NEW i \in DOMAIN m.scans
  PROVE  LET over == [m EXCEPT !.scans = RemoveAt(@, i)]
         IN  /\ over \in Monitor
             /\ over.life = m.life /\ over.version = m.version /\ over.gen = m.gen
             /\ over.active = m.active /\ over.pending = m.pending /\ over.shown = m.shown
             /\ over.stops = m.stops
             /\ \A j \in DOMAIN over.scans : /\ over.scans[j].gen <= m.gen
                                             /\ over.scans[j].since = over.scans[j].gen
             /\ m.scans[i].gen = m.gen => Present(over) = {}
             /\ m.scans[i].gen # m.gen => ListInv(over)
<1> DEFINE scans == RemoveAt(m.scans, i)
           over == [m EXCEPT !.scans = scans]
<1>1. m \in Monitor /\ m.scans \in Seq(Scan)
  BY DEF ListInv, Monitor
<1>2. DOMAIN m.scans = 1 .. Len(m.scans) /\ Len(m.scans) \in Nat
  BY <1>1, LenProperties
<1>3. /\ scans \in Seq(Scan) /\ Len(scans) = Len(m.scans) - 1
      /\ \A j \in 1 .. Len(m.scans) - 1 :
           scans[j] = IF j < i THEN m.scans[j] ELSE m.scans[j + 1]
  BY <1>1, <1>2, RemoveAtType
<1> HIDE DEF scans
<1>4. DOMAIN scans = 1 .. Len(m.scans) - 1
  BY <1>3, LenProperties
<1>5. /\ over \in Monitor /\ over.scans = scans
      /\ over.life = m.life /\ over.version = m.version /\ over.gen = m.gen
      /\ over.active = m.active /\ over.pending = m.pending /\ over.shown = m.shown
      /\ over.stops = m.stops
  BY <1>1, <1>3 DEF Monitor
<1> HIDE DEF over
<1> DEFINE from(j) == IF j < i THEN j ELSE j + 1
<1>6. ASSUME NEW j \in DOMAIN scans
      PROVE  from(j) \in DOMAIN m.scans /\ from(j) # i /\ scans[j] = m.scans[from(j)]
  BY <1>2, <1>3, <1>4
<1>7. \A j, k \in DOMAIN scans : from(j) = from(k) => j = k
  BY <1>2, <1>4
<1>8. ASSUME NEW k \in DOMAIN m.scans, k # i
      PROVE  \E j \in DOMAIN scans : from(j) = k
  <2>1. CASE k < i
    BY <1>2, <1>4, <2>1
  <2>2. CASE i < k
    <3>1. k - 1 \in DOMAIN scans /\ from(k - 1) = k
      BY <1>2, <1>4, <2>2
    <3> QED
      BY <3>1
  <2> QED
    BY <1>2, <1>8, <2>1, <2>2
<1> HIDE DEF from
<1>9. \A j \in DOMAIN over.scans : /\ over.scans[j].gen <= m.gen
                                  /\ over.scans[j].since = over.scans[j].gen
  BY <1>5, <1>6 DEF ListInv
<1>10. \A j \in Present(over) : from(j) \in Present(m) /\ over.scans[j] = m.scans[from(j)]
  BY <1>5, <1>6 DEF Present
<1>11. ASSUME m.scans[i].gen = m.gen
       PROVE  Present(over) = {}
  <2>1. i \in Present(m)
    BY <1>11 DEF Present
  <2>2. \A j \in Present(over) : from(j) # i
    BY <1>5, <1>6 DEF Present
  <2> QED
    BY <1>10, <2>1, <2>2 DEF ListInv
<1>12. ASSUME m.scans[i].gen # m.gen
       PROVE  ListInv(over)
  <2>1. ASSUME Present(m) # {}
        PROVE  Present(over) # {}
    <3>1. PICK k \in Present(m) : TRUE
      BY <2>1
    <3>2. k \in DOMAIN m.scans /\ k # i /\ m.scans[k].gen = m.gen
      BY <1>12, <3>1 DEF Present
    <3>3. PICK j \in DOMAIN scans : from(j) = k
      BY <1>8, <3>2
    <3>4. j \in Present(over)
      BY <1>5, <1>6, <3>2, <3>3 DEF Present
    <3> QED
      BY <3>4
  <2>2. \A j, k \in Present(over) : j = k
    <3>1. \A j, k \in Present(over) : from(j) = from(k)
      BY <1>10 DEF ListInv
    <3> QED
      BY <1>5, <1>7, <3>1 DEF Present
  <2> QED
    BY <1>5, <1>9, <1>10, <2>1, <2>2 DEF ListInv
<1> QED
  BY <1>5, <1>9, <1>11, <1>12 DEF over, scans

-----------------------------------------------------------------------------
(* The steps.                                                               *)

Ok(m, n) ==
  /\ ListInv(n)
  /\ n.shown \notin {m.shown, None} =>
       n.shown = [version |-> n.version, overtaken |-> FALSE]

AllOk ==
  /\ connected' \in BOOLEAN /\ list' \in [List -> Monitor]
  /\ \A l \in List : Ok(list[l], list'[l])

LEMMA BecomesOk ==
  ASSUME MonitorInv, NEW l \in List, NEW n, Ok(list[l], n), Becomes(l, n)
  PROVE  AllOk
<1>1. /\ connected' = connected
      /\ list' = [list EXCEPT ![l] = n] /\ list \in [List -> Monitor]
      /\ n \in Monitor
  BY DEF MonitorInv, TypeOK, Becomes, Ok, ListInv
<1>2. list' \in [List -> Monitor] /\ connected' \in BOOLEAN
  BY <1>1 DEF MonitorInv, TypeOK
<1>3. list'[l] = n /\ \A k \in List \ {l} : list'[k] = list[k]
  BY <1>1
<1>4. \A k \in List : Ok(list[k], list'[k])
  BY <1>3 DEF Ok, MonitorInv
<1> QED
  BY <1>2, <1>4 DEF AllOk

LEMMA AlikeOk ==
  ASSUME NEW m, ListInv(m), NEW n, Alike(m, n)
  PROVE  Ok(m, n)
BY AlikeInv DEF Ok, Alike

LEMMA RoutesStep ==
  ASSUME MonitorInv, Routes
  PROVE  AllOk
<1>1. \A l \in List : ListInv(list[l]) /\ list[l] \in Monitor
  BY DEF MonitorInv, ListInv
<1>2. ASSUME NEW l \in List, Create(l)
      PROVE  AllOk
  <2> DEFINE n == [list[l] EXCEPT !.life = "exists"]
  <2>1. Becomes(l, n) /\ list[l].life = "new"
    BY <1>2 DEF Create
  <2>2. /\ n \in Monitor /\ n.scans = list[l].scans /\ n.gen = list[l].gen
        /\ n.version = list[l].version /\ n.active = list[l].active
        /\ n.pending = list[l].pending /\ n.shown = list[l].shown /\ n.life = "exists"
        /\ n.stops = list[l].stops
    BY <1>1 DEF Monitor
  <2> HIDE DEF n
  <2>3. Present(n) = Present(list[l])
    BY <2>2 DEF Present
  <2>4. ListInv(n)
    <3> DEFINE m == list[l]
    <3>1. ListInv(m)
      BY <1>1
    <3>2. /\ n.stops = n.gen
          /\ \A i \in DOMAIN n.scans : n.scans[i].gen <= n.gen /\ n.scans[i].since = n.scans[i].gen
      BY <2>2, <3>1 DEF ListInv
    <3>3. \A i \in Present(n) : n.active /\ n.scans[i].version = n.version
      BY <2>2, <2>3, <3>1 DEF ListInv
    <3>4. n.pending # None => n.active /\ n.pending.gen = n.gen
      BY <2>2, <3>1 DEF ListInv
    <3>5. /\ \A i, j \in Present(n) : i = j
          /\ n.active => Present(n) # {}
      BY <2>2, <2>3, <3>1 DEF ListInv
    <3> QED
      BY <2>2, <3>2, <3>3, <3>4, <3>5 DEF ListInv
  <2>5. Ok(list[l], n)
    BY <2>2, <2>4 DEF Ok
  <2> QED
    BY <2>1, <2>5, BecomesOk
<1>3. ASSUME NEW l \in List, ReadNow(l)
      PROVE  AllOk
  <2> DEFINE n == Read(list[l], TRUE)
  <2>1. Becomes(l, n) /\ list[l].life = "exists"
    BY <1>3 DEF ReadNow, Exists
  <2>2. Ok(list[l], n)
    BY <1>1, <2>1, ReadKeeps DEF Ok
  <2> QED
    BY <2>1, <2>2, BecomesOk
<1>4. ASSUME NEW l \in List, Start(l)
      PROVE  AllOk
  <2> DEFINE n == Started(list[l])
  <2>1. Becomes(l, n) /\ list[l].life = "exists"
    BY <1>4 DEF Start, Exists
  <2>2. Ok(list[l], n)
    BY <1>1, <2>1, StartedKeeps DEF Ok
  <2> QED
    BY <2>1, <2>2, BecomesOk
<1>5. ASSUME NEW l \in List, Stop(l)
      PROVE  AllOk
  <2> DEFINE n == Stopped(list[l])
  <2>1. Becomes(l, n)
    BY <1>5 DEF Stop
  <2>2. Ok(list[l], n)
    BY <1>1, StoppedKeeps DEF Ok
  <2> QED
    BY <2>1, <2>2, BecomesOk
<1>6. ASSUME NEW l \in List, Delete(l)
      PROVE  AllOk
  <2> DEFINE s == Stopped(list[l])
             n == [s EXCEPT !.life = "deleted", !.shown = None]
  <2>1. Becomes(l, n)
    BY <1>6 DEF Delete
  <2>2. ListInv(s) /\ Present(s) = {} /\ ~ s.active /\ s.pending = None
    BY <1>1, StoppedKeeps
  <2> HIDE DEF s
  <2>3. /\ n \in Monitor /\ n.scans = s.scans /\ n.gen = s.gen /\ n.active = s.active
        /\ n.pending = s.pending /\ n.shown = None /\ n.stops = s.stops
    BY <2>2 DEF ListInv, Monitor
  <2> HIDE DEF n
  <2>4. Present(n) = Present(s)
    BY <2>3 DEF Present
  <2>5. Ok(list[l], n)
    BY <2>2, <2>3, <2>4 DEF Ok, ListInv
  <2> QED
    BY <2>1, <2>5, BecomesOk
<1>7. ASSUME NEW l \in List, NEW bound \in BOOLEAN, NEW items \in Items, Update(l, bound, items)
      PROVE  AllOk
  <2> DEFINE m == list[l]
             s == IF Busy(m) THEN Stopped(m) ELSE m
             v == s.version + 1
             x == [s EXCEPT !.bound = bound, !.items = items, !.version = v]
             n == IF m.timer THEN Started(x) ELSE x
  <2>1. /\ ListInv(s) /\ Present(s) = {} /\ ~ s.active /\ s.pending = None
        /\ s.life = "exists" /\ s.shown = m.shown
    <3>1. m.life = "exists"
      BY <1>7 DEF Update, Exists
    <3>2. CASE Busy(m)
      BY <1>1, <3>1, <3>2, StoppedKeeps
    <3>3. CASE ~ Busy(m)
      BY <1>1, <3>1, <3>3 DEF Busy, ListInv
    <3> QED
      BY <3>2, <3>3
  <2>2. Becomes(l, n)
    BY <1>7 DEF Update
  <2> HIDE DEF s
  <2>3. s \in Monitor /\ v \in Nat /\ items \in Nat
    BY <2>1, MonitorAssumption DEF ListInv, Monitor
  <2> HIDE DEF v
  <2>4. /\ x \in Monitor /\ x.scans = s.scans /\ x.gen = s.gen /\ x.active = s.active
        /\ x.pending = s.pending /\ x.shown = m.shown /\ x.life = "exists"
        /\ x.stops = s.stops
    BY <2>1, <2>3 DEF Monitor
  <2> HIDE DEF x
  <2>5. Present(x) = {}
    BY <2>1, <2>4 DEF Present
  <2>6. ListInv(x)
    BY <2>1, <2>4, <2>5 DEF ListInv
  <2>7. Ok(m, n)
    BY <2>4, <2>6, StartedKeeps DEF Ok
  <2> QED
    BY <2>2, <2>7, BecomesOk
<1> QED
  BY <1>2, <1>3, <1>4, <1>5, <1>6, <1>7 DEF Routes

LEMMA DeviceStep ==
  ASSUME MonitorInv, Device
  PROVE  AllOk
<1>1. \A l \in List : ListInv(list[l]) /\ list[l] \in Monitor
  BY DEF MonitorInv, ListInv
<1>2. CASE Connect
  BY <1>1, <1>2 DEF Connect, AllOk, Ok, MonitorInv, TypeOK
<1>3. CASE Disconnect
  <2> DEFINE S == {l \in List : list[l].life = "exists" /\ list[l].bound}
             n(l) == IF l \in S THEN Stopped(Cleared(list[l])) ELSE Cleared(list[l])
  <2>1. ASSUME NEW l \in List
        PROVE  Ok(list[l], n(l))
    <3>1. Alike(list[l], Cleared(list[l]))
      BY <1>1, ClearedAlike
    <3>2. Ok(list[l], Cleared(list[l])) /\ ListInv(Cleared(list[l]))
          /\ Cleared(list[l]).shown = list[l].shown
      BY <1>1, <3>1, AlikeOk, AlikeInv DEF Alike
    <3>3. Ok(list[l], Stopped(Cleared(list[l])))
      BY <3>2, StoppedKeeps DEF Ok
    <3> QED
      BY <3>2, <3>3
  <2>2. connected' = FALSE /\ list' = [l \in List |-> n(l)]
    BY <1>3 DEF Disconnect
  <2> HIDE DEF n
  <2>3. \A l \in List : n(l) \in Monitor
    BY <2>1 DEF Ok, ListInv
  <2> QED
    BY <2>1, <2>2, <2>3 DEF AllOk
<1>4. ASSUME NEW l \in List, Send(l)
      PROVE  AllOk
  <2> DEFINE n == [list[l] EXCEPT !.job = "sent"]
  <2>1. Becomes(l, n)
    BY <1>4 DEF Send
  <2>2. Alike(list[l], n)
    BY <1>1 DEF Alike, Monitor
  <2> QED
    BY <1>1, <2>1, <2>2, AlikeOk, BecomesOk
<1>5. ASSUME NEW l \in List, Answer(l)
      PROVE  AllOk
  <2>1. PICK status \in {"answered", "failed"} :
          Becomes(l, [list[l] EXCEPT !.job = "none", !.scans = Ended(@, status)])
    BY <1>5 DEF Answer
  <2>2. status \in Status
    BY DEF Status
  <2> QED
    BY <1>1, <2>1, <2>2, EndedAlike, AlikeOk, BecomesOk
<1> QED
  BY <1>2, <1>3, <1>4, <1>5 DEF Device

LEMMA ContinuationStep ==
  ASSUME MonitorInv, Continuations
  PROVE  AllOk
<1>1. \A l \in List : ListInv(list[l]) /\ list[l] \in Monitor
  BY DEF MonitorInv, ListInv
<1>2. ASSUME NEW l \in List, Aborted(l)
      PROVE  AllOk
  <2>1. PICK end \in {<<"aborted", "cancelled">>, <<"broken", "failed">>} :
          Becomes(l, [list[l] EXCEPT !.job = "none", !.scans = Ended(@, end[2])])
    BY <1>2 DEF Aborted
  <2>2. end[2] \in Status
    BY DEF Status
  <2> QED
    BY <1>1, <2>1, <2>2, EndedAlike, AlikeOk, BecomesOk
<1>3. ASSUME NEW l \in List, NEW i \in Ready(l), Resume(l, i)
      PROVE  AllOk
  <2> DEFINE m == list[l]
             s == m.scans[i]
             over == [m EXCEPT !.scans = RemoveAt(@, i)]
             published == [version |-> s.version, overtaken |-> s.since # m.stops]
  <2>1. i \in DOMAIN m.scans
    BY DEF Ready
  <2>2. /\ over \in Monitor
        /\ over.life = m.life /\ over.version = m.version /\ over.gen = m.gen
        /\ over.active = m.active /\ over.pending = m.pending /\ over.shown = m.shown
        /\ over.stops = m.stops
        /\ \A j \in DOMAIN over.scans : /\ over.scans[j].gen <= m.gen
                                        /\ over.scans[j].since = over.scans[j].gen
        /\ s.gen = m.gen => Present(over) = {}
        /\ s.gen # m.gen => ListInv(over)
    BY <1>1, <2>1, OverKeeps
  <2>3. s.gen = m.gen => /\ i \in Present(m) /\ m.life = "exists"
                         /\ s.version = m.version /\ m.active /\ s.since = m.stops
    BY <1>1, <2>1 DEF Present, ListInv
  <2>4. CASE Stale(m, s) /\ Becomes(l, over)
    <3>1. s.gen # m.gen
      BY <2>3, <2>4 DEF Stale
    <3>2. Ok(m, over)
      BY <2>2, <3>1 DEF Ok
    <3> QED
      BY <2>4, <3>2, BecomesOk
  <2>5. CASE ~ Stale(m, s) /\ More(s) /\ Becomes(l, NextItem(m, i))
    BY <1>1, <2>1, <2>5, NextItemAlike, AlikeOk, BecomesOk
  <2>6. CASE /\ ~ Stale(m, s) /\ ~ More(s)
             /\ Becomes(l, IF s.status \in {"cancelled", "rejected"} THEN Finish(over)
                           ELSE Finish([over EXCEPT !.shown = published]))
    <3> DEFINE shown == IF s.status \in {"cancelled", "rejected"} THEN m.shown ELSE published
               x == [over EXCEPT !.shown = shown]
    <3>1. s.gen = m.gen
      BY <2>6 DEF Stale
    <3> HIDE DEF over
    <3>2. /\ shown \in Shown \cup {None}
          /\ shown # m.shown => shown = [version |-> m.version, overtaken |-> FALSE]
          /\ m.stops = m.gen
      BY <1>1, <2>3, <3>1 DEF Monitor, Shown, ListInv
    <3>3. over = [over EXCEPT !.shown = m.shown]
      BY <2>2 DEF Monitor
    <3>4. Becomes(l, Finish(x))
      BY <2>6, <3>3
    <3> HIDE DEF shown
    <3>5. ListInv(Finish(x)) /\ Finish(x).shown = shown /\ Finish(x).version = over.version
      BY <2>2, <2>3, <3>1, <3>2, FinishKeeps
    <3>6. Ok(m, Finish(x))
      BY <2>2, <3>2, <3>5 DEF Ok
    <3> QED
      BY <3>4, <3>6, BecomesOk
  <2> QED
    BY <1>3, <2>4, <2>5, <2>6 DEF Resume
<1> QED
  BY <1>2, <1>3 DEF Continuations

LEMMA Step ==
  ASSUME MonitorInv, Next
  PROVE  AllOk
<1>1. ASSUME NEW l \in List, Tick(l)
      PROVE  AllOk
  <2>1. Becomes(l, Read(list[l], FALSE)) /\ list[l].life = "exists" /\ ListInv(list[l])
    BY <1>1 DEF Tick, Exists, MonitorInv
  <2>2. Ok(list[l], Read(list[l], FALSE))
    BY <2>1, ReadKeeps DEF Ok
  <2> QED
    BY <2>1, <2>2, BecomesOk
<1> QED
  BY <1>1, RoutesStep, DeviceStep, ContinuationStep DEF Next

LEMMA StepKeeps ==
  ASSUME MonitorInv, [Next]_vars
  PROVE  /\ MonitorInv'
         /\ \A l \in List : list'[l].shown \notin {list[l].shown, None} =>
              list'[l].shown = [version |-> list'[l].version, overtaken |-> FALSE]
<1>1. CASE Next
  <2>1. AllOk
    BY <1>1, Step
  <2>2. ASSUME NEW l \in List
        PROVE  ListInv(list[l])'
    <3>1. ListInv(list'[l])
      BY <2>1 DEF AllOk, Ok
    <3> QED
      BY <3>1 DEF ListInv, Present
  <2> QED
    BY <2>1, <2>2 DEF AllOk, Ok, MonitorInv, TypeOK
<1>2. CASE UNCHANGED vars
  <2>1. list' = list /\ connected' = connected
    BY <1>2 DEF vars
  <2>2. ASSUME NEW l \in List
        PROVE  ListInv(list[l])'
    BY <2>1 DEF ListInv, Present, MonitorInv
  <2> QED
    BY <2>1, <2>2 DEF MonitorInv, TypeOK
<1> QED
  BY <1>1, <1>2

-----------------------------------------------------------------------------
(* The theorems.                                                            *)

(* The inductive invariant holds in every state: the scans of the present   *)
(* generation of a list are the one executeRun() its `active' stands for.   *)
THEOREM MonitorInvariant == Spec => []MonitorInv
<1>1. Init => MonitorInv
  <2> SUFFICES ASSUME Init PROVE MonitorInv
    OBVIOUS
  <2> DEFINE m == [life |-> "new", bound |-> FALSE, items |-> 0, version |-> 0, stops |-> 0,
                   timer |-> FALSE, gen |-> 0, active |-> FALSE, pending |-> None,
                   scans |-> <<>>, job |-> "none", shown |-> None]
  <2>1. m \in Monitor /\ m.scans = <<>> /\ ~ m.active /\ m.pending = None /\ m.stops = m.gen
    <3>1. <<>> \in Seq(Scan)
      BY EmptySeq
    <3> QED
      BY <3>1 DEF Monitor
  <2>2. connected = FALSE /\ list = [l \in List |-> m]
    BY DEF Init
  <2> HIDE DEF m
  <2>3. DOMAIN m.scans = {}
    <3>1. Len(<<>>) = 0 /\ <<>> \in Seq(Scan)
      BY EmptySeq
    <3>2. DOMAIN <<>> = 1 .. Len(<<>>)
      BY <3>1, LenProperties
    <3> QED
      BY <2>1, <3>1, <3>2
  <2>4. ListInv(m)
    BY <2>1, <2>3 DEF ListInv, Present
  <2> QED
    BY <2>1, <2>2, <2>4 DEF MonitorInv, TypeOK
<1>2. MonitorInv /\ [Next]_vars => MonitorInv'
  BY StepKeeps
<1> QED
  BY <1>1, <1>2, PTL DEF Spec

(* TypeOK holds in every state.                                             *)
THEOREM TypeCorrect == Spec => []TypeOK
<1>1. MonitorInv => TypeOK
  BY DEF MonitorInv
<1> QED
  BY <1>1, MonitorInvariant, PTL

(* What a list publishes was read with the items it has now, in a scan no   *)
(* stop(), update() or delete has overtaken.                                *)
THEOREM PublishesCorrect == Spec => PublishesCurrent
<1>1. MonitorInv /\ [Next]_vars =>
        [\A l \in List : list'[l].shown \notin {list[l].shown, None} =>
           list'[l].shown = [version |-> list'[l].version, overtaken |-> FALSE]]_vars
  BY StepKeeps
<1> QED
  BY <1>1, MonitorInvariant, PTL DEF Spec, PublishesCurrent

(* A list has one scan that is not stale while `active' is set, and none    *)
(* when it is not.                                                          *)
THEOREM OneScanCorrect == Spec => []OneScan
<1>1. ASSUME MonitorInv, NEW l \in List
      PROVE  Cardinality({i \in DOMAIN list[l].scans : ~ Stale(list[l], list[l].scans[i])})
               = IF list[l].active THEN 1 ELSE 0
  <2> DEFINE m == list[l]
             live == {i \in DOMAIN m.scans : ~ Stale(m, m.scans[i])}
  <2>1. ListInv(m)
    BY <1>1 DEF MonitorInv
  <2> HIDE DEF m
  <2>2. live = Present(m)
    BY <2>1 DEF ListInv, Present, Stale
  <2>3. CASE m.active
    <3>1. PICK i \in Present(m) : TRUE
      BY <2>1, <2>3 DEF ListInv
    <3>2. live = {i}
      BY <2>1, <2>2, <3>1 DEF ListInv
    <3> QED
      BY <2>3, <3>2, FS_Singleton DEF m
  <2>4. CASE ~ m.active
    <3>1. live = {}
      BY <2>1, <2>2, <2>4 DEF ListInv
    <3> QED
      BY <2>4, <3>1, FS_EmptySet DEF m
  <2> QED
    BY <2>3, <2>4
<1>2. MonitorInv => OneScan
  BY <1>1 DEF OneScan
<1> QED
  BY <1>2, MonitorInvariant, PTL

(* A pending scan always has the scan in progress whose end begins it.      *)
THEOREM PendingCorrect == Spec => []PendingBacked
<1>1. ASSUME MonitorInv, NEW l \in List, list[l].pending # None
      PROVE  \E i \in DOMAIN list[l].scans : list[l].scans[i].gen = list[l].pending.gen
                                             /\ ~ Stale(list[l], list[l].scans[i])
  <2>1. ListInv(list[l])
    BY <1>1 DEF MonitorInv
  <2>2. PICK i \in Present(list[l]) : TRUE
    BY <1>1, <2>1 DEF ListInv
  <2> QED
    BY <1>1, <2>1, <2>2 DEF ListInv, Present, Stale
<1>2. MonitorInv => PendingBacked
  BY <1>1 DEF PendingBacked
<1> QED
  BY <1>2, MonitorInvariant, PTL

=============================================================================
