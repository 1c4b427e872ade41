-------------------------- MODULE WorkerInvariants --------------------------
(***************************************************************************)
(* Inductive invariants of module Worker: why its properties hold.         *)
(*                                                                         *)
(* An execution learns which attempt it is when it claims the job, and     *)
(* names the job by its id alone when it writes the outcome.  Nothing in   *)
(* the table ties the two together.  What ties them is that the row does   *)
(* not change hands while the execution is under way: the conjuncts of     *)
(* Undisturbed are the conditions on which that rests.                     *)
(***************************************************************************)
EXTENDS Worker

\* Nothing panics, the administrator leaves the queue alone, and RecoverStale
\* executes both its statements or does not get to the second.
Tame == Faults \subseteq {"crash", "hangUp", "lostWrite"}

\* Moreover handlers end before the stale timeout.
Undisturbed == TimelyHandlers /\ Tame

\* A step of RecoverStale finds no job stale that is still being executed.
RecoverySafe ==
  \A p \in Procs : RecoverBury(p) => \A e \in exec : e.job \notin StaleJobs

\* An identity not in use has no history.
UnusedIsBlank ==
  \A j \in Jobs : row[j].status = "none" => row[j].attempts = 0 /\ sent[j] = {}

\* An execution past its handler has sent its activity.
OutcomeIsTrue ==
  \A e \in exec : e.step \in {"succeeded", "completing"} => sent[e.job] # {}

\* An execution holds the row it claimed: still running, still its attempt,
\* not stale if handlers are timely, and not about to be released by a
\* RecoverStale under way.
HoldersRun ==
  \A e \in exec :
    /\ row[e.job].status = "running"
    /\ row[e.job].attempts = e.attempt
    /\ TimelyHandlers => row[e.job].due >= -StaleAfter
    /\ e.payload
    /\ e.step # "panicked"
    /\ \A p \in Procs : e.job \notin cut[p]

\* A row that will be executed again has its payload and an attempt left, and
\* so has one that a RecoverStale under way is going to release.
RowsHealthy ==
  \A j \in Jobs :
    /\ row[j].status \in Waiting \cup {"running"} => row[j].payload
    /\ row[j].attempts <= MaxAttempts
    /\ row[j].status \in Waiting => row[j].attempts < MaxAttempts
    /\ \A p \in Procs : j \in cut[p] /\ row[j].status = "running"
                          => row[j].attempts < MaxAttempts

\* Whatever the faults.
ClaimInv == TypeOK /\ UnusedIsBlank /\ ClaimsUnique

\* As long as nobody completes a job from outside.
SentInv == ClaimInv /\ OutcomeIsTrue /\ DoneMeansSent

\* In an Undisturbed system, and in a Tame one whose recoveries are safe.
HolderInv == SentInv /\ HoldersRun /\ RowsHealthy

=============================================================================
