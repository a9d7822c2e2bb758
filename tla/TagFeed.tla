------------------------------- MODULE TagFeed ------------------------------
(***************************************************************************)
(* What the delivery of tags promises a browser: the items it shows are    *)
(* those of one moment of the published history, and the moments it shows  *)
(* never go back while the server lives.  TagDelivery implements it.       *)
(***************************************************************************)
EXTENDS Naturals, Sequences

CONSTANTS
  Source,     \* what is published
  Client,     \* browsers
  Selection,  \* the sources each browser shows
  None        \* nothing shown

VARIABLES
  log,    \* events published since the server started: [source, item]
  shown,  \* the items each browser shows
  seen    \* the last moment each browser has shown

feed == <<log, shown, seen>>

(* The item of s at moment n; None if nothing was published of it yet.     *)
ItemAt(history, s, n) ==
  LET at == {i \in 1..n : history[i].source = s}
  IN IF at = {} THEN None ELSE history[CHOOSE i \in at : \A j \in at : j =< i].item

Moment(history, c, n) == [s \in Selection[c] |-> ItemAt(history, s, n)]

FeedInit ==
  /\ log = <<>>
  /\ shown = [c \in Client |-> None]
  /\ seen = [c \in Client |-> 0]

(* Events are added.  A browser that shows nothing may at once show a      *)
(* moment: a snapshot publishes and captures in one turn, though its reply *)
(* takes its time.                                                         *)
Publish ==
  /\ Len(log') >= Len(log) /\ SubSeq(log', 1, Len(log)) = log
  /\ UNCHANGED <<shown, seen>>

Show(c) ==
  \E n \in seen[c]..Len(log) :
    /\ shown' = [shown EXCEPT ![c] = Moment(log, c, n)]
    /\ seen' = [seen EXCEPT ![c] = n]
    /\ UNCHANGED log

Blank(c) == shown' = [shown EXCEPT ![c] = None] /\ UNCHANGED <<log, seen>>

(* A new server process: what is still shown is of the one before it.      *)
Restart == log' = <<>> /\ shown' = [c \in Client |-> None] /\ seen' = [c \in Client |-> 0]

FeedNext == Publish \/ Restart \/ \E c \in Client : Show(c) \/ Blank(c)

FeedSpec == FeedInit /\ [][FeedNext]_feed

=============================================================================
