---------------------------- MODULE JobLifecycle ----------------------------
(***************************************************************************)
(* What the queue promises the handlers that enqueue into it, without      *)
(* attempts, clocks, processes or failures: a job stays active until it is *)
(* finished, given up or cancelled; its activity leaves the server only    *)
(* while it is active; it finishes only after that; and what is finished   *)
(* stays so until the row is forgotten.                                    *)
(***************************************************************************)
CONSTANTS
  Jobs,         \* job identities
  NothingToSend \* jobs that finish without sending anything

VARIABLES
  phase,        \* "absent", "active", "done", "dead" or "gone"
  delivered     \* has the job's activity been sent at least once?

vars == <<phase, delivered>>

Init ==
  /\ phase = [j \in Jobs |-> "absent"]
  /\ delivered = [j \in Jobs |-> FALSE]

\* What one step may do to job j.
Submit(j) == phase[j] = "absent" /\ phase'[j] = "active" /\ ~delivered'[j]

Send(j) == phase[j] = "active" /\ phase'[j] = "active" /\ delivered'[j]

Settle(j) ==
  /\ phase[j] = "active"
  /\ \/ phase'[j] = "done" /\ (delivered[j] \/ j \in NothingToSend)
     \/ phase'[j] = "dead"
  /\ delivered'[j] = delivered[j]

\* Cancelled by a domain block while active, or cleaned up afterwards.
Forget(j) ==
  /\ phase[j] \in {"active", "done", "dead"}
  /\ phase'[j] = "gone"
  /\ delivered'[j] = delivered[j]

Keep(j) == phase'[j] = phase[j] /\ delivered'[j] = delivered[j]

\* One statement may act on many jobs.
Next == \A j \in Jobs : Submit(j) \/ Send(j) \/ Settle(j) \/ Forget(j) \/ Keep(j)

Spec == Init /\ [][Next]_vars
=============================================================================
