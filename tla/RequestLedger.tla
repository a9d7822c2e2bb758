--------------------------- MODULE RequestLedger ---------------------------
(***************************************************************************)
(* What DeviceConnection.request promises its callers, whatever queue,     *)
(* sockets and timers it uses: every request is refused at once or becomes *)
(* pending; a pending request is settled once, with a reply of the device  *)
(* to that very request or with an error, and it is always settled in the  *)
(* end.  DeviceConnection is shown to implement this specification.        *)
(***************************************************************************)
CONSTANTS
  Request,   \* the requests callers make
  None       \* no request

VARIABLES
  outcome,   \* what the promise of each request has become
  answer     \* the request whose reply resolved it (None: no reply)

vars == <<outcome, answer>>

Outcome == {"new", "pending", "refused", "ok", "failed"}
Settled == {"refused", "ok", "failed"}

TypeOK ==
  /\ outcome \in [Request -> Outcome]
  /\ answer \in [Request -> Request \cup {None}]

Init ==
  /\ outcome = [r \in Request |-> "new"]
  /\ answer = [r \in Request |-> None]

(* One request is admitted or refused, and, in the same step, any pending  *)
(* requests may be settled with an error.                                  *)
Call(r, verdict, Dropped) ==
  /\ outcome[r] = "new"
  /\ Dropped \subseteq {x \in Request : outcome[x] = "pending"}
  /\ outcome' = [x \in Request |-> IF x = r THEN verdict
                                   ELSE IF x \in Dropped THEN "failed"
                                   ELSE outcome[x]]
  /\ UNCHANGED answer

(* Pending requests are settled with an error.                             *)
Fail(Dropped) ==
  /\ Dropped \subseteq {x \in Request : outcome[x] = "pending"}
  /\ outcome' = [x \in Request |-> IF x \in Dropped THEN "failed" ELSE outcome[x]]
  /\ UNCHANGED answer

(* The reply to a pending request resolves that request.                   *)
Resolve(r) ==
  /\ outcome[r] = "pending"
  /\ outcome' = [outcome EXCEPT ![r] = "ok"]
  /\ answer' = [answer EXCEPT ![r] = r]

Next ==
  \/ \E r \in Request, verdict \in {"pending", "refused", "failed"}, D \in SUBSET Request :
       Call(r, verdict, D)
  \/ \E D \in SUBSET Request : Fail(D)
  \/ \E r \in Request : Resolve(r)

Spec == Init /\ [][Next]_vars

(* Every admitted request is settled in the end.                           *)
EventuallySettled ==
  \A r \in Request : outcome[r] = "pending" ~> outcome[r] \in Settled

FairSpec == Spec /\ EventuallySettled
=============================================================================
