--------------------------- MODULE CgiSpawnProofs ---------------------------
(***************************************************************************)
(* Proofs about module CgiSpawn.                                           *)
(*                                                                         *)
(* In module Worker nothing but the stale timeout keeps RecoverStale away  *)
(* from jobs that are being executed, so the guarantees there need timely  *)
(* handlers.  Here the lock does: a process recovers while no other is in  *)
(* a batch and before it claims anything itself.  Unless ticks pass the    *)
(* lock by, the guarantees hold for handlers of any duration.              *)
(***************************************************************************)
EXTENDS CgiSpawn, WorkerProofs

\* A batch is run under the lock, and only a batch that claims or waits has
\* executions.
LockInv ==
  /\ CgiTypeOK
  /\ \A p \in Procs :
       life[p] \in {"between", "batch", "returned", "leaving"} => lock = p
  /\ \A p \in Procs : loop[p] # "off" => life[p] = "batch"
  /\ \A e \in exec : loop[e.proc] \in {"poll", "drain", "expired"}

\* Every step of the processes is a step of the workers, or one they do not see.
LEMMA CgiStepIsWorkerStep == [CgiNext]_cgiVars => [Next]_vars
<1> SUFFICES ASSUME [CgiNext]_cgiVars PROVE [Next]_vars
  OBVIOUS
<1>1. ASSUME NEW r \in Requests, Serve(r) \/ RequestStep(r) PROVE UNCHANGED vars
  BY <1>1 DEF RequestStep, Serve, Respond, SpawnWorker, SpawnNothing
<1>2. CASE FromRequest \/ FromHandler
  BY <1>2 DEF FromRequest, FromHandler, Next
<1>3. ASSUME NEW p \in Procs, CronStarts(p) \/ TickBegins(p) \/ ProcStep(p)
      PROVE  [Next]_vars
  BY <1>3 DEF CronStarts, TickBegins, TickEnds, ProcStep, TryLock, BeginBatch,
              InBatch, EndBatch, Continue, Leave, Unlock, Next, LoopStep, Disruption
<1>4. ASSUME NEW p \in Procs, BatchTimesOut(p) \/ LifetimeEnds(p) PROVE [Next]_vars
  BY <1>4 DEF BatchTimesOut, LifetimeEnds, Next, Disruption
<1>5. ASSUME NEW p \in Procs, Kill(p) PROVE [Next]_vars
  BY <1>5 DEF Kill, Next, Disruption
<1> QED
  BY <1>1, <1>2, <1>3, <1>4, <1>5 DEF CgiNext, Next, cgiVars

\* Every step keeps the four variables of the processes in their types; that
\* the workers' variables keep theirs is StepType.
LEMMA CgiStepType == CgiTypeOK /\ [CgiNext]_cgiVars => CgiTypeOK'
<1> SUFFICES ASSUME CgiTypeOK, [CgiNext]_cgiVars PROVE CgiTypeOK'
  OBVIOUS
<1>1. TypeOK'
  BY CgiStepIsWorkerStep, StepType DEF CgiTypeOK
<1>2. ASSUME UNCHANGED cgi PROVE CgiTypeOK'
  BY <1>1, <1>2 DEF CgiTypeOK, cgi
<1> USE <1>1 DEF CgiTypeOK, LifeStates, RequestStates
<1>3. ASSUME NEW r \in Requests, Serve(r) \/ RequestStep(r) PROVE CgiTypeOK'
  BY <1>3 DEF RequestStep, Serve, Respond, SpawnWorker, SpawnNothing
<1>4. CASE FromRequest \/ FromHandler
  BY <1>2, <1>4 DEF FromRequest, FromHandler
<1>5. ASSUME NEW p \in Procs, CronStarts(p) \/ TickBegins(p) \/ ProcStep(p)
      PROVE  CgiTypeOK'
  <2>1. CASE CronStarts(p) \/ TickBegins(p) \/ TryLock(p) \/ BeginBatch(p)
    BY <2>1 DEF CronStarts, TickBegins, TryLock, BeginBatch
  <2>2. CASE InBatch(p)
    BY <1>2, <2>2 DEF InBatch
  <2>3. CASE EndBatch(p) \/ TickEnds(p) \/ Continue(p) \/ Leave(p) \/ Unlock(p)
    BY <2>3 DEF EndBatch, TickEnds, Continue, Leave, Unlock
  <2> QED
    BY <1>5, <2>1, <2>2, <2>3 DEF ProcStep
<1>6. ASSUME NEW p \in Procs, BatchTimesOut(p) \/ LifetimeEnds(p) \/ Kill(p)
      PROVE  CgiTypeOK'
  BY <1>2, <1>6 DEF BatchTimesOut, LifetimeEnds, Kill
<1>7. ASSUME NEW e \in exec, UNCHANGED cgi PROVE CgiTypeOK'
  BY <1>2, <1>7
<1>8. CASE UNCHANGED cgiVars
  BY <1>2, <1>8 DEF cgiVars, cgi
<1> QED
  BY <1>2, <1>3, <1>4, <1>5, <1>6, <1>7, <1>8 DEF CgiNext

LEMMA CgiInitType == CgiInit => CgiTypeOK
  BY InitType DEF CgiInit, Init, CgiTypeOK, LifeStates, RequestStates

\* The state of every process and of every request, the lock and the end of the
\* lifetime stay what runWorker and runCGI can make them, for any faults and
\* with ticks.
THEOREM CgiTypes == CgiSpec => []CgiTypeOK
  BY CgiInitType, CgiStepType, PTL DEF CgiSpec

\* The steps of executions and of the rest of the program leave the loops and
\* the lock alone and start no execution.
LEMMA ExecProcs ==
  ASSUME TypeOK, NEW e \in exec, ExecStep(e) \/ HandlerPanics(e)
  PROVE  /\ loop' = loop
         /\ \A f \in exec' : \E g \in exec : f.proc = g.proc
<1>1. e \in Execution
  BY DEF TypeOK
<1>2. \A s : [e EXCEPT !.step = s].proc = e.proc
  BY <1>1 DEF Execution
<1>3. ASSUME NEW s, Move(e, s) PROVE \A f \in exec' : \E g \in exec : f.proc = g.proc
  BY <1>2, <1>3 DEF Move
<1>4. ASSUME Finish(e) PROVE \A f \in exec' : \E g \in exec : f.proc = g.proc
  BY <1>4 DEF Finish
<1> QED
  BY <1>3, <1>4
     DEF ExecStep, Acquire, SkipUnknown, HandlerSucceeds, HandlerFails,
         CountFailure, RecordFailure, ResetFailures, RecordSuccess, RecordPanic,
         HandlerPanics

LEMMA LockInvInit == CgiInit => LockInv
  BY InitType, CgiSpawnAssumption
     DEF CgiInit, Init, LockInv, CgiTypeOK, LifeStates, RequestStates

LEMMA LockInvStep ==
  ASSUME ~Ticks, LockInv, [CgiNext]_cgiVars PROVE LockInv'
<1>1. TypeOK /\ TypeOK'
  BY CgiStepIsWorkerStep, StepType DEF LockInv, CgiTypeOK
<1>2. \A e \in exec : e.proc \in Procs
  BY <1>1 DEF TypeOK, Execution
<1> USE CgiSpawnAssumption, <1>1, <1>2
    DEF LockInv, CgiTypeOK, TypeOK, LifeStates, RequestStates, LoopStates
<1>3. ASSUME UNCHANGED <<loop, cgi>>,
             \A f \in exec' : \E g \in exec : f.proc = g.proc
      PROVE  LockInv'
  BY <1>3 DEF cgi
<1>4. ASSUME UNCHANGED <<loop, cgi, exec>> PROVE LockInv'
  BY <1>3, <1>4
<1>5. ASSUME NEW r \in Requests, Serve(r) \/ RequestStep(r) PROVE LockInv'
  BY <1>5 DEF RequestStep, Serve, Respond, SpawnWorker, SpawnNothing, vars
<1>6. CASE FromRequest \/ FromHandler
  BY <1>4, <1>6 DEF FromRequest, FromHandler, EnqueueJob, QueueRetry,
                    QueueDismiss, BlockDomain, QueueVacuum, others
<1>7. ASSUME NEW e \in exec, ExecStep(e) \/ HandlerPanics(e), UNCHANGED cgi
      PROVE  LockInv'
  BY <1>3, <1>7, ExecProcs DEF cgi
<1>8. CASE Tick /\ UNCHANGED cgi
  BY <1>4, <1>8 DEF Tick, others
<1>9. ASSUME NEW p \in Procs, CronStarts(p) \/ TickBegins(p) \/ ProcStep(p)
      PROVE  LockInv'
  <2>1. CASE CronStarts(p)
    BY <2>1 DEF CronStarts, vars
  <2>2. CASE TryLock(p)
    <3>1. UNCHANGED <<vars, request>> /\ life[p] = "starting"
      BY <2>2 DEF TryLock
    <3>2. CASE lock = NoProc
      <4>1. \A q \in Procs :
              life[q] \notin {"between", "batch", "returned", "leaving"}
        BY <3>2
      <4>2. /\ lock' = p
            /\ life' = [life EXCEPT ![p] = "between"]
            /\ ended' = [ended EXCEPT ![p] = FALSE]
        BY <2>2, <3>2 DEF TryLock
      <4>3. CgiTypeOK'
        BY <3>1, <4>2
      <4>4. \A q \in Procs : loop[q] = "off"
        BY <4>1
      <4>5. \A q \in Procs : q # p => life'[q] = life[q]
        BY <4>2
      <4> QED
        BY <3>1, <4>1, <4>2, <4>3, <4>4, <4>5 DEF vars
    <3>3. CASE lock # NoProc
      BY <2>2, <3>1, <3>3 DEF TryLock, vars
    <3> QED
      BY <3>2, <3>3
  <2>3. CASE BeginBatch(p)
    BY <2>3 DEF BeginBatch, Start
  <2>4. CASE InBatch(p)
    <3>1. UNCHANGED cgi
      BY <2>4 DEF InBatch
    <3>2. CASE RecoverBury(p) \/ RecoverRelease(p)
      BY <3>1, <3>2 DEF RecoverBury, RecoverRelease, cgi
    <3>3. CASE ClaimJob(p)
      <4>1. loop[p] = "poll" /\ loop' = loop
        BY <3>3 DEF ClaimJob
      <4>2. \A f \in exec' : f.proc = p \/ f \in exec
        BY <3>3 DEF ClaimJob
      <4> QED
        BY <3>1, <4>1, <4>2 DEF cgi
    <3>4. CASE ClaimFails(p) \/ StopClaiming(p)
      BY <3>1, <3>4 DEF ClaimFails, StopClaiming, cgi
    <3> QED
      BY <2>4, <3>2, <3>3, <3>4 DEF InBatch
  <2>5. ~TickBegins(p) /\ ~TickEnds(p)
    <3>1. life[p] = "tick" => loop[p] = "off"
      OBVIOUS
    <3> QED
      BY <3>1 DEF TickBegins, TickEnds, Return
  <2>6. CASE EndBatch(p)
    <3>1. \A e \in exec : e.proc # p
      BY <2>6 DEF EndBatch, Return, Of
    <3> QED
      BY <2>6, <3>1 DEF EndBatch, Return
  <2>7. CASE Continue(p) \/ Leave(p)
    BY <2>7 DEF Continue, Leave, vars
  <2>8. CASE Unlock(p)
    BY <2>8 DEF Unlock, vars
  <2> QED
    BY <1>9, <2>1, <2>2, <2>3, <2>4, <2>5, <2>6, <2>7, <2>8 DEF ProcStep
<1>10. ASSUME NEW p \in Procs, BatchTimesOut(p) \/ LifetimeEnds(p) PROVE LockInv'
  <2>1. CASE BatchTimesOut(p)
    BY <2>1 DEF BatchTimesOut, Expire, cgi
  <2>2. CASE LifetimeEnds(p)
    BY <2>2 DEF LifetimeEnds, Expire, HangUp, vars
  <2> QED
    BY <1>10, <2>1, <2>2
<1>11. ASSUME NEW p \in Procs, Kill(p) PROVE LockInv'
  <2>1. \A e \in exec' : e \in exec /\ e.proc # p
    BY <1>11 DEF Kill, Crash, Of
  <2> QED
    BY <1>11, <2>1 DEF Kill, Crash
<1>12. CASE UNCHANGED cgiVars
  BY <1>4, <1>12 DEF cgiVars, vars
<1> QED
  BY <1>5, <1>6, <1>7, <1>8, <1>9, <1>10, <1>11, <1>12 DEF CgiNext

LEMMA LockInvInvariant == ASSUME ~Ticks PROVE CgiSpec => []LockInv
<1>1. LockInv /\ [CgiNext]_cgiVars => LockInv'
  BY LockInvStep
<1> QED
  BY <1>1, LockInvInit, PTL DEF CgiSpec

-----------------------------------------------------------------------------
(* The theorems, the first two for any faults.                             *)

\* At most one process works on the queue, unless ticks do.
THEOREM OneBatchAtATime == ASSUME ~Ticks PROVE CgiSpec => []OneBatch
<1>1. LockInv => OneBatch
  BY DEF LockInv, OneBatch
<1> QED
  BY <1>1, LockInvInvariant, PTL

LEMMA LockProtects == LockInv => RecoveryHitsOrphans
<1> SUFFICES ASSUME LockInv, NEW p \in Procs, loop[p] \in {"bury", "release"},
                    NEW e \in exec
             PROVE  FALSE
  BY DEF RecoveryHitsOrphans
<1>1. e.proc \in Procs
  BY DEF LockInv, CgiTypeOK, TypeOK, Execution
<1>2. e.proc = p
  BY <1>1 DEF LockInv
<1> QED
  BY <1>2 DEF LockInv

\* Whatever a RecoverStale finds running was left by a process that is gone.
THEOREM RecoveryHitsOnlyOrphans ==
  ASSUME ~Ticks PROVE CgiSpec => []RecoveryHitsOrphans
  BY LockProtects, LockInvInvariant, PTL

\* The lock or the time a handler takes protects what is being executed.
LEMMA CgiHolderInv ==
  ASSUME Tame, TimelyHandlers \/ ~Ticks PROVE CgiSpec => []HolderInv
<1>1. CgiInit => HolderInv
  BY HolderInvInit DEF CgiInit
<1>2. CASE TimelyHandlers
  <2>1. HolderInv /\ [CgiNext]_cgiVars => HolderInv'
    BY <1>2, TimelyIsSafe, CgiStepIsWorkerStep, HolderInvStep
  <2> QED
    BY <1>1, <2>1, PTL DEF CgiSpec
<1>3. CASE ~Ticks
  <2>1. LockInv => RecoverySafe
    BY LockProtects DEF RecoverySafe, RecoveryHitsOrphans, RecoverBury
  <2>2. LockInv /\ HolderInv /\ [CgiNext]_cgiVars => HolderInv'
    BY <2>1, CgiStepIsWorkerStep, HolderInvStep
  <2>3. CgiSpec => []LockInv
    BY <1>3, LockInvInvariant
  <2> QED
    BY <1>1, <2>2, <2>3, PTL DEF CgiSpec
<1> QED
  BY <1>2, <1>3

\* A job is executed by one goroutine at a time: however long that takes if no
\* ticks pass the lock by, and with them if handlers are timely.
THEOREM CgiOneExecutor ==
  ASSUME Tame, TimelyHandlers \/ ~Ticks PROVE CgiSpec => []SoleExecutor
  BY CgiHolderInv, HolderIsSole, PTL

\* Under the same conditions the queue and its workers implement the abstract
\* lifecycle of a job under CGI.
THEOREM CgiImplementsLifecycle ==
  ASSUME Tame, TimelyHandlers \/ ~Ticks PROVE CgiSpec => ImplementsLifecycle
<1>1. CgiInit => Abstract!Init
  BY LifecycleInit DEF CgiInit
<1>2. HolderInv /\ [CgiNext]_cgiVars => [Abstract!Next]_(Abstract!vars)
  BY CgiStepIsWorkerStep, LifecycleStep
<1> QED
  BY <1>1, <1>2, CgiHolderInv, PTL
     DEF CgiSpec, ImplementsLifecycle, Abstract!Spec
=============================================================================
