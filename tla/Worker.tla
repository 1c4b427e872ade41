------------------------------- MODULE Worker -------------------------------
(***************************************************************************)
(* worker.Worker over the queue of module JobQueue: the loops of Run and   *)
(* RunBatch, the goroutine that executes each claimed job, and what can    *)
(* disturb them (crashes, panics, lost writes, the administrator).         *)
(*                                                                         *)
(* A process is one activation context of a worker loop: the goroutine of  *)
(* `murlog serve`, a `murlog worker` daemon, a `worker --once` process or  *)
(* a worker-tick request.  Every job it has claimed and not finished with  *)
(* is an execution, a record in exec.                                      *)
(***************************************************************************)
EXTENDS JobQueue, FiniteSets

CONSTANTS
  Procs,            \* worker processes
  Daemons,          \* those that call Run; the others call RunBatch
  Concurrency,      \* slots of a process's semaphore
  BatchLimit,       \* limit argument of RunBatch
  PanicDelay,       \* delay of the Fail in the recover() handlers
  UnknownType,      \* jobs of a type this binary does not know
  DeadThreshold,    \* failures are counted up to here
  TimelyHandlers,   \* no execution outlives the stale timeout, its wait for
                    \* the semaphore and its HTTP requests included
  Faults,           \* the kinds of disturbance that may happen
  MaxDisturbances   \* bound on their number

FaultKinds == {"crash", "hangUp", "panic", "retry", "dismiss", "lostWrite",
               "lostRecovery"}

ASSUME WorkerAssumption ==
  /\ Daemons \subseteq Procs
  /\ Concurrency \in Nat \ {0}
  /\ BatchLimit \in Nat \ {0}
  /\ PanicDelay \in Nat
  /\ UnknownType \subseteq Jobs
  /\ DeadThreshold \in Nat
  /\ TimelyHandlers \in BOOLEAN
  /\ Faults \subseteq FaultKinds
  /\ MaxDisturbances \in Nat

VARIABLES
  loop,          \* where each process's loop stands
  taken,         \* jobs its current batch has claimed ("processed")
  cut,           \* the jobs stale at the cutoff of a RecoverStale under way
  exec,          \* the executions
  sent,          \* history: attempts whose activity left this server
  failures,      \* domain_failures.failure_count
  disturbances   \* number of disturbances so far

vars == <<row, loop, taken, cut, exec, sent, failures, disturbances>>

-----------------------------------------------------------------------------
(* A loop is off, in one of the two statements of RecoverStale, claiming   *)
(* ("poll"), waiting for its goroutines ("drain"), or its context has      *)
(* ended ("expired").  An execution waits for the semaphore, runs its      *)
(* handler, and then records the outcome in two statements.                *)

LoopStates == {"off", "bury", "release", "poll", "drain", "expired"}
Steps == {"waiting", "running", "failed", "failing",
          "succeeded", "completing", "panicked"}

Execution ==
  [proc: Procs, job: Jobs, attempt: Nat \ {0}, payload: BOOLEAN, step: Steps]

Of(p) == {e \in exec : e.proc = p}

Move(e, step) == exec' = (exec \ {e}) \cup {[e EXCEPT !.step = step]}
Finish(e)     == exec' = exec \ {e}

Domain(e) == IF e.payload THEN DomainOf[e.job] ELSE NoDomain

\* Exponential backoff: 30<<(attempts-1) seconds, in units of 30 s.
Backoff(attempt) == 2^(attempt - 1)

\* A fact of arithmetic, for the attempts that are ever retried.
ASSUME BackoffAssumption == \A a \in 1..MaxAttempts : Backoff(a) \in Nat

Disturb(kind) ==
  /\ kind \in Faults
  /\ disturbances < MaxDisturbances
  /\ disturbances' = disturbances + 1

\* A statement run with the context of execution e has no effect once that
\* context has ended, and may fail before that (JobTimeout, SQLITE_BUSY).
CanWrite(e) == loop[e.proc] # "expired"
CanLose(e)  == loop[e.proc] = "expired" \/ "lostWrite" \in Faults

-----------------------------------------------------------------------------

Init ==
  /\ QueueInit
  /\ loop = [p \in Procs |-> "off"]
  /\ taken = [p \in Procs |-> 0]
  /\ cut = [p \in Procs |-> {}]
  /\ exec = {}
  /\ sent = [j \in Jobs |-> {}]
  /\ failures = [d \in Domains |-> 0]
  /\ disturbances = 0

-----------------------------------------------------------------------------
(* Wrong variants of actions below, which no specification uses: each      *)
(* shows a property failing when the code has that mistake.                *)

\* The handler swallows its error and returns nil.
HandlerSwallows(e) ==
  /\ e.step = "running"
  /\ e.job \notin UnknownType
  /\ Move(e, "succeeded")
  /\ UNCHANGED <<row, loop, taken, cut, sent, failures, disturbances>>

\* One attempt too many, and one too few.
RecordFailureLate(e) ==
  /\ e.step = "failing"
  /\ Finish(e)
  /\ IF e.attempt > MaxAttempts THEN Dead(e.job)
                                ELSE Fail(e.job, Backoff(e.attempt))
  /\ UNCHANGED <<loop, taken, cut, sent, failures, disturbances>>

RecordFailureEarly(e) ==
  /\ e.step = "failing"
  /\ Finish(e)
  /\ IF e.attempt + 1 >= MaxAttempts THEN Dead(e.job)
                                     ELSE Fail(e.job, Backoff(e.attempt))
  /\ UNCHANGED <<loop, taken, cut, sent, failures, disturbances>>

-----------------------------------------------------------------------------
(* The loops.                                                              *)

\* Run starts claiming at once; RunBatch recovers stale jobs first.
Start(p) ==
  /\ loop[p] = "off"
  /\ loop' = [loop EXCEPT ![p] = IF p \in Daemons THEN "poll" ELSE "bury"]
  /\ taken' = [taken EXCEPT ![p] = 0]
  /\ UNCHANGED <<row, cut, exec, sent, failures, disturbances>>

RecoverBury(p) ==
  /\ loop[p] = "bury"
  /\ loop' = [loop EXCEPT ![p] = "release"]
  /\ cut' = [cut EXCEPT ![p] = StaleJobs]
  /\ \/ BuryStale(StaleJobs) /\ UNCHANGED disturbances
     \/ Disturb("lostRecovery") /\ UNCHANGED row
  /\ UNCHANGED <<taken, exec, sent, failures>>

RecoverRelease(p) ==
  /\ loop[p] = "release"
  /\ loop' = [loop EXCEPT ![p] = "poll"]
  /\ cut' = [cut EXCEPT ![p] = {}]
  /\ \/ ReleaseStale(cut[p]) /\ UNCHANGED disturbances
     \/ Disturb("lostRecovery") /\ UNCHANGED row
  /\ UNCHANGED <<taken, exec, sent, failures>>

\* Claim a job; the loop does not claim another while this one waits for the
\* semaphore.
ClaimJob(p) ==
  /\ loop[p] = "poll"
  /\ p \in Daemons \/ taken[p] < BatchLimit
  /\ \A e \in Of(p) : e.step # "waiting"
  /\ \E j \in Jobs :
       /\ Claim(j)
       /\ exec' = exec \cup {[proc |-> p, job |-> j,
                              attempt |-> row[j].attempts + 1,
                              payload |-> row[j].payload,
                              step |-> "waiting"]}
       /\ cut' = [q \in Procs |-> cut[q] \ {j}]
  /\ taken' = IF p \in Daemons THEN taken ELSE [taken EXCEPT ![p] = @ + 1]
  /\ UNCHANGED <<loop, sent, failures, disturbances>>

\* Claim returns an error: the context ended before the UPDATE or between the
\* UPDATE and the Scan, or the database was busy.  RunBatch takes that for an
\* empty queue, Run tries again.
ClaimFails(p) ==
  /\ "lostWrite" \in Faults
  /\ loop[p] = "poll"
  /\ p \in Daemons \/ taken[p] < BatchLimit
  /\ \A e \in Of(p) : e.step # "waiting"
  /\ \/ UNCHANGED <<row, cut>>
     \/ \E j \in Jobs : Claim(j) /\ cut' = [q \in Procs |-> cut[q] \ {j}]
  /\ loop' = IF p \in Daemons THEN loop ELSE [loop EXCEPT ![p] = "drain"]
  /\ UNCHANGED <<taken, exec, sent, failures, disturbances>>

\* Run found no job: clean up and sleep.
IdlePoll(p) ==
  /\ p \in Daemons
  /\ loop[p] = "poll"
  /\ \A e \in Of(p) : e.step # "waiting"
  /\ ~HasPending
  /\ Cleanup
  /\ UNCHANGED <<loop, taken, cut, exec, sent, failures, disturbances>>

\* RunBatch found no job or reached its limit.
StopClaiming(p) ==
  /\ p \notin Daemons
  /\ loop[p] = "poll"
  /\ \A e \in Of(p) : e.step # "waiting"
  /\ taken[p] >= BatchLimit \/ ~HasPending
  /\ loop' = [loop EXCEPT ![p] = "drain"]
  /\ UNCHANGED <<row, taken, cut, exec, sent, failures, disturbances>>

\* The context of the loop ends: batch timeout, signal, closed request.
Expire(p) ==
  /\ loop[p] \in {"poll", "drain"}
  /\ loop' = [loop EXCEPT ![p] = "expired"]
  /\ UNCHANGED <<row, taken, cut, exec, sent, failures, disturbances>>

\* It ends during the recovery, which runs in the caller's context: what is
\* left of the recovery has no effect.
HangUp(p) ==
  /\ loop[p] \in {"bury", "release"}
  /\ Disturb("hangUp")
  /\ loop' = [loop EXCEPT ![p] = "expired"]
  /\ cut' = [cut EXCEPT ![p] = {}]
  /\ UNCHANGED <<row, taken, exec, sent, failures>>

\* wg.Wait returned.  The last cleanup of a batch needs a live context.
Return(p) ==
  /\ loop[p] \in {"drain", "expired"}
  /\ Of(p) = {}
  /\ IF loop[p] = "drain" THEN Cleanup ELSE UNCHANGED row
  /\ loop' = [loop EXCEPT ![p] = "off"]
  /\ UNCHANGED <<taken, cut, exec, sent, failures, disturbances>>

\* The process dies, in a loop or outside of it, or runServe returns without
\* waiting for its worker.
Crash(p) ==
  /\ Disturb("crash")
  /\ loop' = [loop EXCEPT ![p] = "off"]
  /\ exec' = exec \ Of(p)
  /\ cut' = [cut EXCEPT ![p] = {}]
  /\ UNCHANGED <<row, taken, sent, failures>>

-----------------------------------------------------------------------------
(* An execution: semaphore, handler, outcome.                              *)

Acquire(e) ==
  /\ e.step = "waiting"
  /\ Cardinality({f \in Of(e.proc) : f.step # "waiting"}) < Concurrency
  /\ Move(e, "running")
  /\ UNCHANGED <<row, loop, taken, cut, sent, failures, disturbances>>

\* A type process() does not know is completed without a handler.
SkipUnknown(e) ==
  /\ e.step = "running"
  /\ e.job \in UnknownType
  /\ Finish(e)
  /\ \/ CanWrite(e) /\ Complete(e.job)
     \/ CanLose(e) /\ UNCHANGED row
  /\ UNCHANGED <<loop, taken, cut, sent, failures, disturbances>>

\* The handler delivers its activity and returns nil.
HandlerSucceeds(e) ==
  /\ e.step = "running"
  /\ e.job \notin UnknownType
  /\ e.payload
  /\ sent' = [sent EXCEPT ![e.job] = @ \cup {e.attempt}]
  /\ Move(e, "succeeded")
  /\ UNCHANGED <<row, loop, taken, cut, failures, disturbances>>

\* The handler returns an error, the activity having arrived or not.  A
\* cleared payload does not parse, so nothing is sent for it.
HandlerFails(e) ==
  /\ e.step = "running"
  /\ e.job \notin UnknownType
  /\ \/ UNCHANGED sent
     \/ e.payload /\ sent' = [sent EXCEPT ![e.job] = @ \cup {e.attempt}]
  /\ Move(e, "failed")
  /\ UNCHANGED <<row, loop, taken, cut, failures, disturbances>>

HandlerPanics(e) ==
  /\ e.step = "running"
  /\ e.job \notin UnknownType
  /\ Disturb("panic")
  /\ Move(e, "panicked")
  /\ UNCHANGED <<row, loop, taken, cut, sent, failures>>

\* IncrementDomainFailure, when the payload names a domain.
CountFailure(e) ==
  /\ e.step = "failed"
  /\ \/ /\ CanWrite(e)
        /\ failures' = [d \in Domains |->
                          IF d = Domain(e) /\ failures[d] < DeadThreshold
                          THEN failures[d] + 1 ELSE failures[d]]
     \/ CanLose(e) /\ UNCHANGED failures
  /\ Move(e, "failing")
  /\ UNCHANGED <<row, loop, taken, cut, sent, disturbances>>

\* Dead on the last attempt, Fail with backoff before it.
RecordFailure(e) ==
  /\ e.step = "failing"
  /\ Finish(e)
  /\ \/ /\ CanWrite(e)
        /\ IF e.attempt >= MaxAttempts THEN Dead(e.job)
                                       ELSE Fail(e.job, Backoff(e.attempt))
     \/ CanLose(e) /\ UNCHANGED row
  /\ UNCHANGED <<loop, taken, cut, sent, failures, disturbances>>

\* ResetDomainFailure, when the payload names a domain.
ResetFailures(e) ==
  /\ e.step = "succeeded"
  /\ \/ /\ CanWrite(e)
        /\ failures' = [d \in Domains |->
                          IF d = Domain(e) THEN 0 ELSE failures[d]]
     \/ CanLose(e) /\ UNCHANGED failures
  /\ Move(e, "completing")
  /\ UNCHANGED <<row, loop, taken, cut, sent, disturbances>>

RecordSuccess(e) ==
  /\ e.step = "completing"
  /\ Finish(e)
  /\ \/ CanWrite(e) /\ Complete(e.job)
     \/ CanLose(e) /\ UNCHANGED row
  /\ UNCHANGED <<loop, taken, cut, sent, failures, disturbances>>

\* recover(): the write has a context of its own, so the end of the loop's
\* context does not affect it.  The attempts are not compared with the limit.
RecordPanic(e) ==
  /\ e.step = "panicked"
  /\ Finish(e)
  /\ \/ Fail(e.job, PanicDelay)
     \/ "lostWrite" \in Faults /\ UNCHANGED row
  /\ UNCHANGED <<loop, taken, cut, sent, failures, disturbances>>

-----------------------------------------------------------------------------
(* The rest of the program, and the clock.                                 *)

others == <<loop, taken, cut, exec, sent, failures>>

EnqueueJob(j) == Enqueue(j) /\ UNCHANGED <<others, disturbances>>

\* queue.retry and queue.dismiss, for whatever job id they are given.
QueueRetry(j) ==
  /\ row[j].status \in InTable
  /\ Disturb("retry")
  /\ Retry(j)
  /\ UNCHANGED others

QueueDismiss(j) ==
  /\ row[j].status \in InTable
  /\ Disturb("dismiss")
  /\ Complete(j)
  /\ UNCHANGED others

\* queue.vacuum.
QueueVacuum == Cleanup /\ UNCHANGED <<others, disturbances>>

\* A domain block cancels the domain's waiting jobs.
BlockDomain(d) == CancelByDomain(d) /\ UNCHANGED <<others, disturbances>>

\* Under TimelyHandlers the clock waits for an execution whose claim would
\* become stale.
Tick ==
  /\ TimelyHandlers => \A e \in exec : row[e.job].due > -StaleAfter
  /\ Elapse
  /\ UNCHANGED <<others, disturbances>>

-----------------------------------------------------------------------------

LoopStep(p) ==
  \/ Start(p) \/ RecoverBury(p) \/ RecoverRelease(p)
  \/ ClaimJob(p) \/ IdlePoll(p) \/ StopClaiming(p) \/ Return(p)

Disruption(p) == ClaimFails(p) \/ Expire(p) \/ HangUp(p) \/ Crash(p)

ExecStep(e) ==
  \/ Acquire(e) \/ SkipUnknown(e)
  \/ HandlerSucceeds(e) \/ HandlerFails(e)
  \/ CountFailure(e) \/ RecordFailure(e)
  \/ ResetFailures(e) \/ RecordSuccess(e) \/ RecordPanic(e)

Next ==
  \/ \E p \in Procs : LoopStep(p) \/ Disruption(p)
  \/ \E e \in exec : ExecStep(e) \/ HandlerPanics(e)
  \/ \E j \in Jobs : EnqueueJob(j) \/ QueueRetry(j) \/ QueueDismiss(j)
  \/ \E d \in Domains : BlockDomain(d)
  \/ QueueVacuum
  \/ Tick

Spec == Init /\ [][Next]_vars

\* Loops and executions are goroutines and take their steps; the clock runs;
\* a batch that has returned is started again (cron, worker-tick, the next
\* request's spawnWorker).  A batch claims as its first statement after the
\* recovery, so not every context of 25 or 30 s ends before it could: strong
\* fairness.  Nothing else is assumed of the ends of contexts, and nothing of
\* faults or of what the rest of the program does.
Fairness ==
  /\ \A p \in Procs : WF_vars(LoopStep(p)) /\ SF_vars(ClaimJob(p))
  /\ \A p \in Procs, j \in Jobs :
       WF_vars(\E e \in exec : e.proc = p /\ e.job = j /\ ExecStep(e))
  /\ WF_vars(Tick)

FairSpec == Spec /\ Fairness

-----------------------------------------------------------------------------

TypeOK ==
  /\ QueueTypeOK
  /\ loop \in [Procs -> LoopStates]
  /\ taken \in [Procs -> Nat]
  /\ cut \in [Procs -> SUBSET Jobs]
  /\ exec \subseteq Execution
  /\ sent \in [Jobs -> SUBSET Nat]
  /\ failures \in [Domains -> 0..DeadThreshold]
  /\ disturbances \in 0..MaxDisturbances

\* Claim is exclusive: no two executions hold the same attempt of a job, and
\* none holds an attempt later than the row counts (the UPDATE ... RETURNING
\* of Claim, in every process, through crashes, recoveries and retries).
ClaimsUnique ==
  \A e \in exec :
    /\ e.attempt <= row[e.job].attempts \/ row[e.job].status = "deleted"
    /\ \A f \in exec : e.job = f.job /\ e.attempt = f.attempt => e = f

\* A job is executed by at most one goroutine of all the processes.
SoleExecutor == \A e, f \in exec : e.job = f.job => e = f

\* A job is executed at most MaxJobAttempts times.
AttemptsCapped == \A j \in Jobs : row[j].attempts <= MaxAttempts

\* Only a job whose attempts are used up is given up: by process() or by
\* RecoverStale.
DeadMeansExhausted ==
  \A j \in Jobs : row[j].status = "dead" => row[j].attempts >= MaxAttempts

\* A job marked done was executed to the end by some attempt, however many
\* processes, lost writes, crashes and recoveries were involved.
DoneMeansSent ==
  \A j \in Jobs \ UnknownType : row[j].status = "done" => sent[j] # {}

\* A job that will be executed still has its payload: Complete clears the
\* payload of no job that a late Fail, RecoverStale or Retry brings back.
WaitingHasPayload ==
  \A j \in Jobs : row[j].status \in Waiting => row[j].payload

\* Nothing is sent on behalf of a job that is not running in the table: not
\* after it was completed, given up, cancelled, or handed back for a retry.
SendsOnlyWhileRunning ==
  [][\A j \in Jobs : sent'[j] # sent[j] => row[j].status = "running"]_vars

\* A finished job stays finished until Cleanup deletes it.
SettledIsFinal ==
  [][\A j \in Jobs : row[j].status \in Settled =>
        row'[j].status \in {row[j].status, "deleted"}]_vars

\* Every job the program enqueues is eventually done, dead or cancelled and
\* stays so: no crash, lost write or expired context strands it.
EventuallySettled ==
  \A j \in Jobs : row[j].status \in Waiting
                    ~> [](row[j].status \in Settled \cup {"deleted"})

-----------------------------------------------------------------------------
(* The queue and its workers implement JobLifecycle.                       *)

Phase(status) ==
  CASE status = "none"     -> "absent"
    [] status \in Settled  -> status
    [] status = "deleted"  -> "gone"
    [] OTHER               -> "active"

Abstract == INSTANCE JobLifecycle WITH
              NothingToSend <- UnknownType,
              phase         <- [j \in Jobs |-> Phase(row[j].status)],
              delivered     <- [j \in Jobs |-> sent[j] # {}]

\* Whatever crashes and loses writes, the workers keep the queue's promise:
\* every step is a step of the abstract lifecycle or changes nothing it sees.
ImplementsLifecycle == Abstract!Spec
=============================================================================
