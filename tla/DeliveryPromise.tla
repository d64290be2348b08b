------------------------- MODULE DeliveryPromise -------------------------
(***************************************************************************)
(* What the delivery queue promises to a webhook sender or a poller,       *)
(* without directories, files, attempts or crash points: a delivery that   *)
(* was accepted stays queued until it was run; a run is followed by        *)
(* another one, by "done" or by "failed"; "done" is forever; at most one   *)
(* delivery runs at a time.  A failed delivery may be accepted again, and  *)
(* its record may be dropped on the way.  DeliveryQueue implements this    *)
(* module for the deliveries that no file of an earlier release holds.     *)
(***************************************************************************)
CONSTANT Deliveries

VARIABLE status

Statuses == {"unknown", "queued", "running", "done", "failed"}

Move(d, from, to) ==
  /\ status[d] \in from
  /\ status' = [status EXCEPT ![d] = to]

\* A sender's delivery is taken over: a new one, or one that failed before.
Accept(d) == Move(d, {"unknown", "failed"}, "queued")

\* The record of a failed delivery is dropped before it is accepted again.
Forget(d) == Move(d, {"failed"}, "unknown")

Run(d) ==
  /\ \A other \in Deliveries : status[other] # "running"
  /\ Move(d, {"queued"}, "running")

Retry(d) == Move(d, {"running"}, "queued")

Succeed(d) == Move(d, {"running"}, "done")

GiveUp(d) == Move(d, {"running"}, "failed")

Init == status = [d \in Deliveries |-> "unknown"]

Next ==
  \E d \in Deliveries :
    Accept(d) \/ Forget(d) \/ Run(d) \/ Retry(d) \/ Succeed(d) \/ GiveUp(d)

Spec == Init /\ [][Next]_status

==========================================================================
