------------------------------ MODULE JobQueue ------------------------------
(***************************************************************************)
(* The queue_jobs table and the statements queue/sqlqueue runs on it.      *)
(*                                                                         *)
(* One operator per queue.Queue method; each is one SQL statement (the     *)
(* two of RecoverStale are two operators), and SQLite executes a statement *)
(* atomically.  The operators constrain row' only, so a caller's module    *)
(* conjoins its own variables.                                             *)
(*                                                                         *)
(* Time is relative.  row[j].due is next_run_at minus the present, in      *)
(* units of the first retry delay (30 s), so every comparison of the code  *)
(* with now() is a comparison with 0.  Below StaleTime the code tells no   *)
(* two times apart except in the order of Claim, and due stops there.      *)
(***************************************************************************)
EXTENDS Integers

CONSTANTS
  Jobs,         \* identities of queue rows (id.New(), never reused)
  Domains,      \* remote hosts
  NoDomain,     \* a payload that names no remote actor
  DomainOf,     \* the host a job's payload names
  MaxAttempts,  \* murlog.MaxJobAttempts
  StaleAfter    \* age at which RunBatch calls a running job stale

ASSUME JobQueueAssumption ==
  /\ NoDomain \notin Domains
  /\ DomainOf \in [Jobs -> Domains \cup {NoDomain}]
  /\ MaxAttempts \in Nat \ {0}
  /\ StaleAfter \in Nat

VARIABLE row    \* queue_jobs: the row of each job identity

-----------------------------------------------------------------------------
(* The columns the code's decisions depend on.  "none" is an identity not  *)
(* inserted yet, "deleted" one whose row is gone.  payload says whether    *)
(* the payload column still holds the JSON document or was cleared.        *)

Waiting  == {"pending", "failed"}
Settled  == {"done", "dead"}
InTable  == Waiting \cup Settled \cup {"running"}
Statuses == InTable \cup {"none", "deleted"}

StaleTime == -(StaleAfter + 1)

Row == [status: Statuses, attempts: Nat, due: Int, payload: BOOLEAN]

NoRow == [status |-> "none", attempts |-> 0, due |-> 0, payload |-> FALSE]

DeletedRow == [status |-> "deleted", attempts |-> 0, due |-> 0, payload |-> FALSE]

QueueInit == row = [j \in Jobs |-> NoRow]

\* A row Claim and HasPending select.
Ready(j) == row[j].status \in Waiting /\ row[j].due <= 0

HasPending == \E j \in Jobs : Ready(j)

\* UPDATE queue_jobs SET ... WHERE id = j: nothing happens to a missing row.
UpdateRow(j, new) ==
  row' = [row EXCEPT ![j] = IF @.status \in InTable THEN new ELSE @]

-----------------------------------------------------------------------------
(* Wrong variants of statements below.  No specification uses them: each   *)
(* shows a property failing when the statement has that mistake.           *)

\* Claim leaves next_run_at alone, as it did before the fix called M11.
ClaimKeepingDue(j) ==
  /\ Ready(j)
  /\ \A k \in Jobs : Ready(k) => row[j].due <= row[k].due
  /\ row' = [row EXCEPT ![j].status = "running", ![j].attempts = @ + 1]

\* Claim counts down the attempts left.
ClaimCountingDown(j) ==
  /\ Ready(j)
  /\ \A k \in Jobs : Ready(k) => row[j].due <= row[k].due
  /\ row' = [row EXCEPT ![j].status = "running",
                        ![j].attempts = @ - 1,
                        ![j].due = 0]

\* Fail clears the payload, as Complete does.
FailClearing(j, delay) ==
  UpdateRow(j, [row[j] EXCEPT !.status = "failed", !.due = delay,
                              !.payload = FALSE])

\* Retry grants a fresh set of attempts.
RetryAfresh(j) ==
  UpdateRow(j, [row[j] EXCEPT !.status = "pending", !.due = 0, !.attempts = 0])

\* RecoverStale takes every running job for stale.
RunningJobs == {j \in Jobs : row[j].status = "running"}

\* The second statement of RecoverStale has lost its test of the status.
ReleaseBuried(S) ==
  row' = [j \in Jobs |->
            IF j \in S /\ row[j].status \in InTable
            THEN [row[j] EXCEPT !.status = "failed", !.due = 0]
            ELSE row[j]]

\* A domain block also deletes the jobs being executed.
CancelRunning(d) ==
  row' = [j \in Jobs |->
            IF /\ row[j].status \in Waiting \cup {"running"}
               /\ row[j].payload
               /\ DomainOf[j] = d
            THEN DeletedRow ELSE row[j]]

-----------------------------------------------------------------------------

\* Insert a job built by NewJob, ready at once.
Enqueue(j) ==
  /\ row[j].status = "none"
  /\ row' = [row EXCEPT ![j] = [status |-> "pending", attempts |-> 0,
                                due |-> 0, payload |-> TRUE]]

\* Take the ready job that has been due longest; next_run_at becomes the
\* claim time, from which RecoverStale measures staleness.
Claim(j) ==
  /\ Ready(j)
  /\ \A k \in Jobs : Ready(k) => row[j].due <= row[k].due
  /\ row' = [row EXCEPT ![j].status = "running",
                        ![j].attempts = @ + 1,
                        ![j].due = 0]

\* Complete, Dead, Fail and Retry name the row by id alone: whatever status it
\* has by now is overwritten.
Complete(j) ==
  UpdateRow(j, [row[j] EXCEPT !.status = "done", !.payload = FALSE])

Dead(j) == UpdateRow(j, [row[j] EXCEPT !.status = "dead"])

Fail(j, delay) ==
  UpdateRow(j, [row[j] EXCEPT !.status = "failed", !.due = delay])

Retry(j) == UpdateRow(j, [row[j] EXCEPT !.status = "pending", !.due = 0])

-----------------------------------------------------------------------------
(* RecoverStale is two statements; the error of the first is discarded.    *)
(* Both compare with one cutoff, computed first: S is the set of rows that *)
(* were stale then and have not been claimed again since, for a claim      *)
(* writes a later next_run_at.                                             *)

StaleJobs ==
  {j \in Jobs : row[j].status = "running" /\ row[j].due < -StaleAfter}

BuryStale(S) ==
  row' = [j \in Jobs |->
            IF j \in S /\ row[j].status = "running" /\ row[j].attempts >= MaxAttempts
            THEN [row[j] EXCEPT !.status = "dead"]
            ELSE row[j]]

ReleaseStale(S) ==
  row' = [j \in Jobs |->
            IF j \in S /\ row[j].status = "running"
            THEN [row[j] EXCEPT !.status = "failed", !.due = 0]
            ELSE row[j]]

-----------------------------------------------------------------------------

Delete(S) == row' = [j \in Jobs |-> IF j \in S THEN DeletedRow ELSE row[j]]

\* Delete the finished jobs created before the retention cutoff.  The age of
\* a row is read nowhere else, so the rows old enough are any of them.
Cleanup ==
  \E S \in SUBSET {j \in Jobs : row[j].status \in Settled} : Delete(S)

\* Delete the waiting jobs whose payload holds a URL of the domain; a cleared
\* payload matches none.
CancelByDomain(d) ==
  Delete({j \in Jobs : /\ row[j].status \in Waiting
                       /\ row[j].payload
                       /\ DomainOf[j] = d})

\* The clock: every next_run_at comes one unit closer.
Elapse ==
  row' = [j \in Jobs |->
            IF row[j].status \in InTable /\ row[j].due > StaleTime
            THEN [row[j] EXCEPT !.due = @ - 1]
            ELSE row[j]]

-----------------------------------------------------------------------------

QueueTypeOK == row \in [Jobs -> Row]

=============================================================================
