------------------------------ MODULE CgiSpawn ------------------------------
(***************************************************************************)
(* murlog under CGI: no daemon, worker processes that requests start.      *)
(*                                                                         *)
(* A request's process enqueues jobs while it is served, then looks        *)
(* whether the queue has ready jobs and starts `murlog worker --once`      *)
(* without waiting for it.  That process takes worker.lock or exits, runs  *)
(* batches until one finds nothing, and exits.  POST /api/worker-tick runs *)
(* a batch in the request's own process, without the lock.  The batches    *)
(* are those of module Worker: every step here is a step of Worker, or one *)
(* Worker does not see.                                                    *)
(***************************************************************************)
EXTENDS Worker

CONSTANTS
  Requests,   \* CGI processes that serve a request at the same time
  NoProc,     \* the lock is free
  Cron,       \* whether cron starts worker processes too
  Ticks       \* whether the worker-tick endpoint is called

ASSUME CgiSpawnAssumption ==
  /\ NoProc \notin Procs
  /\ Daemons = {}
  /\ Cron \in BOOLEAN
  /\ Ticks \in BOOLEAN

VARIABLES
  life,      \* where each worker process is in runWorker
  lock,      \* the process that has the flock on worker.lock
  ended,     \* workerMaxLifetime is over for this process
  request    \* where each CGI process is in runCGI

cgi == <<life, lock, ended, request>>
cgiVars == <<vars, cgi>>

\* "between": in the loop of runWorker, not in RunBatch.  "tick": a process
\* that serves a request, in the RunBatch of handleWorkerTick.
LifeStates ==
  {"absent", "starting", "between", "batch", "returned", "leaving", "tick"}
RequestStates == {"absent", "serving", "served"}

CgiInit ==
  /\ Init
  /\ life = [p \in Procs |-> "absent"]
  /\ lock = NoProc
  /\ ended = [p \in Procs |-> FALSE]
  /\ request = [r \in Requests |-> "absent"]

-----------------------------------------------------------------------------
(* Wrong variants of actions below, which no specification uses.           *)

\* A process that does not get the lock goes on all the same.
TryLockRegardless(p) ==
  /\ life[p] = "starting"
  /\ life' = [life EXCEPT ![p] = "between"]
  /\ lock' = p
  /\ ended' = [ended EXCEPT ![p] = FALSE]
  /\ UNCHANGED <<vars, request>>

\* The end of the lifetime gives the lock up at once.
LifetimeUnlocks(p) ==
  /\ life[p] = "batch"
  /\ ~ended[p]
  /\ ended' = [ended EXCEPT ![p] = TRUE]
  /\ lock' = IF lock = p THEN NoProc ELSE lock
  /\ \/ Of(p) # {} /\ loop[p] = "expired" /\ UNCHANGED vars
     \/ Of(p) # {} /\ Expire(p)
     \/ HangUp(p)
  /\ UNCHANGED <<life, request>>

\* The lock is a file a killed process leaves behind.
KillLeavesLock(p) ==
  /\ life[p] # "absent"
  /\ Crash(p)
  /\ life' = [life EXCEPT ![p] = "absent"]
  /\ UNCHANGED <<lock, ended, request>>

-----------------------------------------------------------------------------
(* runCGI.                                                                 *)

Serve(r) ==
  /\ request[r] = "absent"
  /\ request' = [request EXCEPT ![r] = "serving"]
  /\ UNCHANGED <<vars, life, lock, ended>>

Respond(r) ==
  /\ request[r] = "serving"
  /\ request' = [request EXCEPT ![r] = "served"]
  /\ UNCHANGED <<vars, life, lock, ended>>

\* The process exits after HasPending, which is false also when it fails.
SpawnWorker(r) ==
  /\ request[r] = "served"
  /\ HasPending
  /\ \E p \in Procs : /\ life[p] = "absent"
                      /\ life' = [life EXCEPT ![p] = "starting"]
  /\ request' = [request EXCEPT ![r] = "absent"]
  /\ UNCHANGED <<vars, lock, ended>>

SpawnNothing(r) ==
  /\ request[r] = "served"
  /\ ~HasPending \/ "lostWrite" \in Faults
  /\ request' = [request EXCEPT ![r] = "absent"]
  /\ UNCHANGED <<vars, life, lock, ended>>

\* Jobs are enqueued and edited by requests, or enqueued by other jobs.
FromRequest ==
  /\ \E r \in Requests : request[r] = "serving"
  /\ \/ \E j \in Jobs : EnqueueJob(j) \/ QueueRetry(j) \/ QueueDismiss(j)
     \/ \E d \in Domains : BlockDomain(d)
     \/ QueueVacuum
  /\ UNCHANGED cgi

FromHandler ==
  /\ \E e \in exec : e.step = "running"
  /\ \E j \in Jobs : EnqueueJob(j)
  /\ UNCHANGED cgi

-----------------------------------------------------------------------------
(* runWorker --once.                                                       *)

CronStarts(p) ==
  /\ Cron
  /\ life[p] = "absent"
  /\ life' = [life EXCEPT ![p] = "starting"]
  /\ UNCHANGED <<vars, lock, ended, request>>

TryLock(p) ==
  /\ life[p] = "starting"
  /\ IF lock = NoProc
     THEN /\ lock' = p
          /\ life' = [life EXCEPT ![p] = "between"]
          /\ ended' = [ended EXCEPT ![p] = FALSE]
     ELSE /\ life' = [life EXCEPT ![p] = "absent"]
          /\ UNCHANGED <<lock, ended>>
  /\ UNCHANGED <<vars, request>>

BeginBatch(p) ==
  /\ life[p] = "between"
  /\ ~ended[p]
  /\ Start(p)
  /\ life' = [life EXCEPT ![p] = "batch"]
  /\ UNCHANGED <<lock, ended, request>>

\* RunBatch, and the goroutines it started.
InBatch(p) ==
  /\ \/ RecoverBury(p) \/ RecoverRelease(p)
     \/ ClaimJob(p) \/ ClaimFails(p) \/ StopClaiming(p)
  /\ UNCHANGED cgi

\* The timeout of a batch, which ends only what waits for a job.
BatchTimesOut(p) == Of(p) # {} /\ Expire(p) /\ UNCHANGED cgi

EndBatch(p) ==
  /\ life[p] = "batch"
  /\ Return(p)
  /\ life' = [life EXCEPT ![p] = "returned"]
  /\ UNCHANGED <<lock, ended, request>>

\* Another batch if the last one claimed a job and a job is ready.
Continue(p) ==
  /\ life[p] = "returned"
  /\ taken[p] > 0 /\ HasPending /\ ~ended[p]
  /\ life' = [life EXCEPT ![p] = "between"]
  /\ UNCHANGED <<vars, lock, ended, request>>

Leave(p) ==
  /\ life[p] = "returned"
  /\ taken[p] = 0 \/ ~HasPending \/ ended[p] \/ "lostWrite" \in Faults
  /\ life' = [life EXCEPT ![p] = "leaving"]
  /\ UNCHANGED <<vars, lock, ended, request>>

\* The deferred unlock.
Unlock(p) ==
  /\ life[p] = "leaving"
  /\ lock' = NoProc
  /\ life' = [life EXCEPT ![p] = "absent"]
  /\ UNCHANGED <<vars, ended, request>>

\* The end of workerMaxLifetime ends the context of the batch, not the
\* process: RunBatch still waits for its goroutines.  The five minutes pass
\* while jobs are executed, or in a recovery.
LifetimeEnds(p) ==
  /\ life[p] = "batch"
  /\ ~ended[p]
  /\ ended' = [ended EXCEPT ![p] = TRUE]
  /\ \/ Of(p) # {} /\ loop[p] = "expired" /\ UNCHANGED vars
     \/ Of(p) # {} /\ Expire(p)
     \/ HangUp(p)
  /\ UNCHANGED <<life, lock, request>>

\* The kernel drops the flock of a killed process.
Kill(p) ==
  /\ life[p] # "absent"
  /\ Crash(p)
  /\ life' = [life EXCEPT ![p] = "absent"]
  /\ lock' = IF lock = p THEN NoProc ELSE lock
  /\ UNCHANGED <<ended, request>>

-----------------------------------------------------------------------------
(* handleWorkerTick.                                                       *)

TickBegins(p) ==
  /\ Ticks
  /\ life[p] = "absent"
  /\ Start(p)
  /\ life' = [life EXCEPT ![p] = "tick"]
  /\ UNCHANGED <<lock, ended, request>>

\* The worker it spawns like every request takes its place.
TickEnds(p) ==
  /\ life[p] = "tick"
  /\ Return(p)
  /\ life' = [life EXCEPT ![p] = IF HasPending' THEN "starting" ELSE "absent"]
  /\ UNCHANGED <<lock, ended, request>>

-----------------------------------------------------------------------------

RequestStep(r) == Respond(r) \/ SpawnWorker(r) \/ SpawnNothing(r)

ProcStep(p) ==
  \/ TryLock(p) \/ BeginBatch(p) \/ InBatch(p) \/ EndBatch(p) \/ TickEnds(p)
  \/ Continue(p) \/ Leave(p) \/ Unlock(p)

CgiNext ==
  \/ \E r \in Requests : Serve(r) \/ RequestStep(r)
  \/ FromRequest \/ FromHandler
  \/ \E p \in Procs : CronStarts(p) \/ TickBegins(p) \/ ProcStep(p)
  \/ \E p \in Procs : BatchTimesOut(p) \/ LifetimeEnds(p) \/ Kill(p)
  \/ \E e \in exec : (ExecStep(e) \/ HandlerPanics(e)) /\ UNCHANGED cgi
  \/ Tick /\ UNCHANGED cgi

CgiSpec == CgiInit /\ [][CgiNext]_cgiVars

\* Processes and goroutines run, requests and cron keep coming, the clock runs.
\* Not every process that starts finds the lock taken, not every HasPending
\* fails, and not every batch ends before it could claim: strong fairness.
CgiFairness ==
  /\ \A r \in Requests : /\ WF_cgiVars(Serve(r)) /\ WF_cgiVars(RequestStep(r))
                         /\ SF_cgiVars(SpawnWorker(r))
  /\ \A p \in Procs :
       /\ WF_cgiVars(CronStarts(p)) /\ WF_cgiVars(ProcStep(p))
       /\ SF_cgiVars(TryLock(p) /\ lock = NoProc)
       /\ SF_cgiVars(ClaimJob(p) /\ UNCHANGED cgi)
  /\ \A p \in Procs, j \in Jobs :
       WF_cgiVars((\E e \in exec : e.proc = p /\ e.job = j /\ ExecStep(e))
                    /\ UNCHANGED cgi)
  /\ WF_cgiVars(Tick /\ UNCHANGED cgi)

CgiFairSpec == CgiSpec /\ CgiFairness

-----------------------------------------------------------------------------

CgiTypeOK ==
  /\ TypeOK
  /\ life \in [Procs -> LifeStates]
  /\ lock \in Procs \cup {NoProc}
  /\ ended \in [Procs -> BOOLEAN]
  /\ request \in [Requests -> RequestStates]

\* At most one process works on the queue (docs/architecture.md: one worker
\* process at a time), through kills and the end of lifetimes.  A tick breaks
\* it.
OneBatch == \A p, q \in Procs : loop[p] # "off" /\ loop[q] # "off" => p = q

\* While a RecoverStale is under way no job is being executed anywhere: what
\* it finds running was left by a process that is gone, however long handlers
\* take.  The lock does here what the stale timeout cannot, unless a tick
\* passes it by.
RecoveryHitsOrphans ==
  \A p \in Procs : loop[p] \in {"bury", "release"} => exec = {}
=============================================================================
