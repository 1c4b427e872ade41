---------------------------- MODULE WorkerProofs ----------------------------
(***************************************************************************)
(* What module Worker guarantees for every number of jobs and processes,   *)
(* every attempt limit, timeout and concurrency: first the types, and what *)
(* the inductive invariants of module WorkerInvariants say whatever        *)
(* happens; then what holds when the workers are Undisturbed: crashes,     *)
(* lost writes and expired contexts in any number, but no panic, no        *)
(* administrator, no lost recovery, and handlers that end before their     *)
(* claim is stale.                                                         *)
(***************************************************************************)
EXTENDS WorkerInvariants, TLAPS

-----------------------------------------------------------------------------
(* The statements of the queue keep rows well typed.                       *)

LEMMA UpdateRowType ==
  ASSUME QueueTypeOK, NEW j \in Jobs, NEW new \in Row, UpdateRow(j, new)
  PROVE  QueueTypeOK'
  BY DEF QueueTypeOK, UpdateRow

LEMMA RowTypes ==
  ASSUME NEW r \in Row, NEW s \in Statuses, NEW d \in Int
  PROVE  /\ [r EXCEPT !.status = s] \in Row
         /\ [r EXCEPT !.status = s, !.due = d] \in Row
         /\ [r EXCEPT !.status = s, !.payload = FALSE] \in Row
         /\ [r EXCEPT !.due = @ - 1] \in Row
<1>1. [r EXCEPT !.status = s] \in Row
  BY DEF Row
<1>2. [r EXCEPT !.status = s, !.due = d] \in Row
  BY DEF Row
<1>3. [r EXCEPT !.status = s, !.payload = FALSE] \in Row
  BY DEF Row
<1>4. r.due - 1 \in Int
  BY DEF Row
<1>5. [r EXCEPT !.due = @ - 1] \in Row
  BY <1>4 DEF Row
<1> QED
  BY <1>1, <1>2, <1>3, <1>5

LEMMA StatementTypes ==
  ASSUME QueueTypeOK
  PROVE  /\ \A j \in Jobs : Enqueue(j) => QueueTypeOK'
         /\ \A j \in Jobs : Claim(j) => QueueTypeOK'
         /\ \A j \in Jobs : Complete(j) => QueueTypeOK'
         /\ \A j \in Jobs : Dead(j) => QueueTypeOK'
         /\ \A j \in Jobs : \A d \in Nat : Fail(j, d) => QueueTypeOK'
         /\ \A j \in Jobs : Retry(j) => QueueTypeOK'
         /\ \A S : BuryStale(S) => QueueTypeOK'
         /\ \A S : ReleaseStale(S) => QueueTypeOK'
         /\ Cleanup => QueueTypeOK'
         /\ \A d : CancelByDomain(d) => QueueTypeOK'
         /\ Elapse => QueueTypeOK'
<1>1. \A j \in Jobs : row[j] \in Row
  BY DEF QueueTypeOK
<1>2. \A s \in {"pending", "running", "done", "failed", "dead", "deleted"} :
        s \in Statuses
  BY DEF Statuses, InTable, Waiting, Settled
<1>3. ASSUME NEW j \in Jobs, Enqueue(j) PROVE QueueTypeOK'
  BY <1>2, <1>3 DEF Enqueue, QueueTypeOK, Row
<1>4. ASSUME NEW j \in Jobs, Claim(j) PROVE QueueTypeOK'
  BY <1>1, <1>2, <1>4 DEF Claim, QueueTypeOK, Row
<1>5. ASSUME NEW j \in Jobs, Complete(j) PROVE QueueTypeOK'
  <2>1. [row[j] EXCEPT !.status = "done", !.payload = FALSE] \in Row
    BY <1>1, <1>2, 0 \in Int, RowTypes
  <2> QED  BY <1>5, <2>1, UpdateRowType DEF Complete
<1>6. ASSUME NEW j \in Jobs, Dead(j) PROVE QueueTypeOK'
  <2>1. [row[j] EXCEPT !.status = "dead"] \in Row
    BY <1>1, <1>2, 0 \in Int, RowTypes
  <2> QED  BY <1>6, <2>1, UpdateRowType DEF Dead
<1>7. ASSUME NEW j \in Jobs, NEW d \in Nat, Fail(j, d) PROVE QueueTypeOK'
  <2>1. [row[j] EXCEPT !.status = "failed", !.due = d] \in Row
    BY <1>1, <1>2, d \in Int, RowTypes
  <2> QED  BY <1>7, <2>1, UpdateRowType DEF Fail
<1>8. ASSUME NEW j \in Jobs, Retry(j) PROVE QueueTypeOK'
  <2>1. [row[j] EXCEPT !.status = "pending", !.due = 0] \in Row
    BY <1>1, <1>2, 0 \in Int, RowTypes
  <2> QED  BY <1>8, <2>1, UpdateRowType DEF Retry
<1>9. ASSUME NEW S, BuryStale(S) PROVE QueueTypeOK'
  <2>1. \A j \in Jobs : [row[j] EXCEPT !.status = "dead"] \in Row
    BY <1>1, <1>2, 0 \in Int, RowTypes
  <2> QED  BY <1>1, <1>9, <2>1 DEF BuryStale, QueueTypeOK
<1>10. ASSUME NEW S, ReleaseStale(S) PROVE QueueTypeOK'
  <2>1. \A j \in Jobs : [row[j] EXCEPT !.status = "failed", !.due = 0] \in Row
    BY <1>1, <1>2, 0 \in Int, RowTypes
  <2> QED  BY <1>1, <1>10, <2>1 DEF ReleaseStale, QueueTypeOK
<1>11. ASSUME NEW S, Delete(S) PROVE QueueTypeOK'
  <2>1. DeletedRow \in Row
    BY <1>2 DEF DeletedRow, NoRow, Row
  <2> QED  BY <1>1, <1>11, <2>1 DEF Delete, QueueTypeOK
<1>12. ASSUME Cleanup PROVE QueueTypeOK'
  BY <1>11, <1>12 DEF Cleanup
<1>13. ASSUME NEW d, CancelByDomain(d) PROVE QueueTypeOK'
  BY <1>11, <1>13 DEF CancelByDomain
<1>14. ASSUME Elapse PROVE QueueTypeOK'
  <2>1. \A j \in Jobs : [row[j] EXCEPT !.due = @ - 1] \in Row
    BY <1>1, <1>2, 0 \in Int, RowTypes
  <2> QED  BY <1>1, <1>14, <2>1 DEF Elapse, QueueTypeOK
<1> QED
  BY <1>3, <1>4, <1>5, <1>6, <1>7, <1>8, <1>9, <1>10, <1>12, <1>13, <1>14

\* Moving or removing an execution keeps exec well typed.
LEMMA ExecTypes ==
  ASSUME exec \subseteq Execution, NEW e \in exec
  PROVE  /\ \A s \in Steps : Move(e, s) => exec' \subseteq Execution
         /\ Finish(e) => exec' \subseteq Execution
<1>1. ASSUME NEW s \in Steps PROVE [e EXCEPT !.step = s] \in Execution
  BY DEF Execution
<1> QED
  BY <1>1 DEF Move, Finish

LEMMA DisturbType ==
  ASSUME TypeOK, NEW kind, Disturb(kind)
  PROVE  disturbances' \in 0..MaxDisturbances
  BY WorkerAssumption DEF TypeOK, Disturb

LEMMA InitType == Init => TypeOK
  BY JobQueueAssumption, WorkerAssumption
     DEF Init, TypeOK, QueueInit, QueueTypeOK, NoRow, Row, Statuses, LoopStates

LEMMA StepType == TypeOK /\ [Next]_vars => TypeOK'
<1> SUFFICES ASSUME TypeOK, [Next]_vars PROVE TypeOK'
  OBVIOUS
<1> USE DEF TypeOK
<1>1. ASSUME NEW p \in Procs, LoopStep(p) PROVE TypeOK'
  <2>1. CASE Start(p)
    BY <2>1 DEF Start, LoopStates, QueueTypeOK
  <2>2. CASE RecoverBury(p)
    BY <2>2, StatementTypes, DisturbType
       DEF RecoverBury, LoopStates, StaleJobs, QueueTypeOK
  <2>3. CASE RecoverRelease(p)
    BY <2>3, StatementTypes, DisturbType
       DEF RecoverRelease, LoopStates, QueueTypeOK
  <2>4. CASE ClaimJob(p)
    <3>1. PICK j \in Jobs :
            /\ Claim(j)
            /\ exec' = exec \cup {[proc |-> p, job |-> j,
                                   attempt |-> row[j].attempts + 1,
                                   payload |-> row[j].payload,
                                   step |-> "waiting"]}
            /\ cut' = [q \in Procs |-> cut[q] \ {j}]
      BY <2>4 DEF ClaimJob
    <3>2. exec' \subseteq Execution
      <4>1. row[j].attempts + 1 \in Nat \ {0} /\ row[j].payload \in BOOLEAN
        BY DEF QueueTypeOK, Row
      <4> QED  BY <3>1, <4>1 DEF Execution, Steps
    <3>3. taken' \in [Procs -> Nat]
      BY <2>4 DEF ClaimJob
    <3> QED
      BY <2>4, <3>1, <3>2, <3>3, StatementTypes DEF ClaimJob
  <2>5. CASE IdlePoll(p)
    BY <2>5, StatementTypes DEF IdlePoll
  <2>6. CASE StopClaiming(p)
    BY <2>6 DEF StopClaiming, LoopStates, QueueTypeOK
  <2>7. CASE Return(p)
    BY <2>7, StatementTypes DEF Return, LoopStates, QueueTypeOK
  <2> QED
    BY <1>1, <2>1, <2>2, <2>3, <2>4, <2>5, <2>6, <2>7 DEF LoopStep
<1>2. ASSUME NEW p \in Procs, Expire(p) PROVE TypeOK'
  BY <1>2 DEF Expire, LoopStates, QueueTypeOK
<1>3. ASSUME NEW p \in Procs, Crash(p) \/ HangUp(p) PROVE TypeOK'
  BY <1>3, DisturbType DEF Crash, HangUp, LoopStates, QueueTypeOK
<1>10. ASSUME NEW p \in Procs, ClaimFails(p) PROVE TypeOK'
  <2>1. loop' \in [Procs -> LoopStates] /\ cut' \in [Procs -> SUBSET Jobs]
    BY <1>10 DEF ClaimFails, LoopStates
  <2>2. QueueTypeOK'
    BY <1>10, StatementTypes DEF ClaimFails, QueueTypeOK
  <2> QED
    BY <1>10, <2>1, <2>2 DEF ClaimFails
<1>4. ASSUME NEW e \in exec, ExecStep(e) \/ HandlerPanics(e) PROVE TypeOK'
  <2>1. e.job \in Jobs /\ e.attempt \in Nat \ {0}
    BY DEF Execution
  <2>2. CASE Acquire(e)
    BY <2>2, ExecTypes DEF Acquire, Steps, QueueTypeOK
  <2>3. CASE SkipUnknown(e)
    BY <2>1, <2>3, ExecTypes, StatementTypes DEF SkipUnknown, QueueTypeOK
  <2>4. CASE HandlerSucceeds(e)
    BY <2>1, <2>4, ExecTypes DEF HandlerSucceeds, Steps, QueueTypeOK
  <2>5. CASE HandlerFails(e)
    BY <2>1, <2>5, ExecTypes DEF HandlerFails, Steps, QueueTypeOK
  <2>6. CASE CountFailure(e)
    <3>1. failures' \in [Domains -> 0..DeadThreshold]
      BY <2>6, WorkerAssumption DEF CountFailure
    <3> QED
      BY <2>6, <3>1, ExecTypes DEF CountFailure, Steps, QueueTypeOK
  <2>7. CASE RecordFailure(e)
    <3>1. e.attempt < MaxAttempts => Backoff(e.attempt) \in Nat
      BY <2>1, BackoffAssumption, JobQueueAssumption
    <3>2. QueueTypeOK'
      BY <2>1, <2>7, <3>1, StatementTypes, JobQueueAssumption
         DEF RecordFailure, QueueTypeOK
    <3> QED
      BY <2>7, <3>2, ExecTypes DEF RecordFailure
  <2>8. CASE ResetFailures(e)
    <3>1. failures' \in [Domains -> 0..DeadThreshold]
      BY <2>8, WorkerAssumption DEF ResetFailures
    <3> QED
      BY <2>8, <3>1, ExecTypes DEF ResetFailures, Steps, QueueTypeOK
  <2>9. CASE RecordSuccess(e)
    BY <2>1, <2>9, ExecTypes, StatementTypes DEF RecordSuccess, QueueTypeOK
  <2>10. CASE RecordPanic(e)
    BY <2>1, <2>10, ExecTypes, StatementTypes, WorkerAssumption
       DEF RecordPanic, QueueTypeOK
  <2>11. CASE HandlerPanics(e)
    BY <2>11, ExecTypes, DisturbType DEF HandlerPanics, Steps, QueueTypeOK
  <2> QED
    BY <1>4, <2>2, <2>3, <2>4, <2>5, <2>6, <2>7, <2>8, <2>9, <2>10, <2>11
       DEF ExecStep
<1>5. ASSUME NEW j \in Jobs, EnqueueJob(j) \/ QueueRetry(j) \/ QueueDismiss(j)
      PROVE  TypeOK'
  BY <1>5, StatementTypes, DisturbType
     DEF EnqueueJob, QueueRetry, QueueDismiss, others
<1>6. ASSUME NEW d \in Domains, BlockDomain(d) PROVE TypeOK'
  BY <1>6, StatementTypes DEF BlockDomain, others
<1>9. CASE QueueVacuum
  BY <1>9, StatementTypes DEF QueueVacuum, others
<1>7. CASE Tick
  BY <1>7, StatementTypes DEF Tick, others
<1>8. CASE UNCHANGED vars
  BY <1>8 DEF vars, QueueTypeOK
<1> QED
  BY <1>1, <1>2, <1>3, <1>4, <1>5, <1>6, <1>7, <1>8, <1>9, <1>10
     DEF Next, Disruption

\* TypeOK is an invariant: the statements of every process, in any order and
\* with any of them lost, keep the table and the worker state well formed.
THEOREM TypeCorrect == Spec => []TypeOK
  BY InitType, StepType, PTL DEF Spec

-----------------------------------------------------------------------------
(* Attempts only grow, and an identity is used once.                       *)

AttemptsKept ==
  \A k \in Jobs :
    \/ row'[k].status = "deleted"
    \/ /\ \/ row'[k].attempts = row[k].attempts
          \/ row'[k].attempts = row[k].attempts + 1
       /\ row'[k].status = "none" => row'[k].attempts = row[k].attempts
       /\ row'[k].status = "none" <=> row[k].status = "none"
       /\ row[k].status # "deleted"

LEMMA UpdateKeeps ==
  ASSUME QueueTypeOK, NEW j \in Jobs, NEW new, UpdateRow(j, new),
         new.attempts = row[j].attempts, new.status \in InTable
  PROVE  AttemptsKept
  BY DEF QueueTypeOK, UpdateRow, AttemptsKept, InTable, Waiting, Settled, Row

LEMMA StatementsKeep ==
  ASSUME QueueTypeOK
  PROVE  /\ \A j \in Jobs : Complete(j) => AttemptsKept
         /\ \A j \in Jobs : Dead(j) => AttemptsKept
         /\ \A j \in Jobs : \A d \in Int : Fail(j, d) => AttemptsKept
         /\ \A j \in Jobs : Retry(j) => AttemptsKept
         /\ \A S : BuryStale(S) => AttemptsKept
         /\ \A S : ReleaseStale(S) => AttemptsKept
         /\ Cleanup => AttemptsKept
         /\ \A d : CancelByDomain(d) => AttemptsKept
         /\ Elapse => AttemptsKept
         /\ \A j \in Jobs : Claim(j) => AttemptsKept
         /\ UNCHANGED row => AttemptsKept
<1> USE DEF QueueTypeOK
<1>1. \A j \in Jobs : row[j] \in Row
  OBVIOUS
<1>2. ASSUME NEW j \in Jobs, Complete(j) PROVE AttemptsKept
  BY <1>1, <1>2, UpdateKeeps DEF Complete, InTable, Settled, Row
<1>3. ASSUME NEW j \in Jobs, Dead(j) PROVE AttemptsKept
  BY <1>1, <1>3, UpdateKeeps DEF Dead, InTable, Settled, Row
<1>4. ASSUME NEW j \in Jobs, NEW d \in Int, Fail(j, d) PROVE AttemptsKept
  BY <1>1, <1>4, UpdateKeeps DEF Fail, InTable, Waiting, Row
<1>5. ASSUME NEW j \in Jobs, Retry(j) PROVE AttemptsKept
  BY <1>1, <1>5, UpdateKeeps DEF Retry, InTable, Waiting, Row
<1>6. ASSUME NEW S, BuryStale(S) PROVE AttemptsKept
  BY <1>1, <1>6 DEF BuryStale, AttemptsKept, Row
<1>7. ASSUME NEW S, ReleaseStale(S) PROVE AttemptsKept
  BY <1>1, <1>7 DEF ReleaseStale, AttemptsKept, Row
<1>8. ASSUME NEW S, Delete(S) PROVE AttemptsKept
  BY <1>8 DEF Delete, AttemptsKept, DeletedRow
<1>9. ASSUME Elapse PROVE AttemptsKept
  BY <1>1, <1>9 DEF Elapse, AttemptsKept, Row
<1>10. ASSUME UNCHANGED row PROVE AttemptsKept
  BY <1>10 DEF AttemptsKept
<1>11. ASSUME NEW j \in Jobs, Claim(j) PROVE AttemptsKept
  <2>1. /\ \A k \in Jobs \ {j} : row'[k] = row[k]
        /\ row'[j].status = "running" /\ row'[j].attempts = row[j].attempts + 1
        /\ row[j].status \in Waiting
    BY <1>1, <1>11 DEF Claim, Ready, Row
  <2>2. row[j].attempts \in Nat
    BY <1>1 DEF Row
  <2> QED
    BY <2>1, <2>2 DEF AttemptsKept, Waiting
<1> QED
  BY <1>2, <1>3, <1>4, <1>5, <1>6, <1>7, <1>8, <1>9, <1>10, <1>11
     DEF Cleanup, CancelByDomain

\* No step but a claim creates an execution or gives one another attempt.
ClaimsKept ==
  /\ \A e \in exec' : \E f \in exec : f.job = e.job /\ f.attempt = e.attempt
  /\ \A e, f \in exec' : e.job = f.job /\ e.attempt = f.attempt => e = f

LEMMA ExecKeeps ==
  ASSUME TypeOK, ClaimsUnique
  PROVE  /\ \A e \in exec : \A s \in Steps : Move(e, s) => ClaimsKept
         /\ \A e \in exec : Finish(e) => ClaimsKept
         /\ \A S : exec' = exec \ S => ClaimsKept
         /\ UNCHANGED exec => ClaimsKept
<1>1. ASSUME NEW e \in exec, NEW s \in Steps, Move(e, s) PROVE ClaimsKept
  <2> DEFINE m == [e EXCEPT !.step = s]
  <2>1. m.job = e.job /\ m.attempt = e.attempt
    BY DEF TypeOK, Execution
  <2>2. exec' = (exec \ {e}) \cup {m}
    BY <1>1 DEF Move
  <2> HIDE DEF m
  <2> QED
    BY <2>1, <2>2 DEF ClaimsKept, ClaimsUnique
<1>2. ASSUME NEW S, exec' = exec \ S PROVE ClaimsKept
  BY <1>2 DEF ClaimsKept, ClaimsUnique
<1>3. ASSUME UNCHANGED exec PROVE ClaimsKept
  BY <1>3 DEF ClaimsKept, ClaimsUnique
<1> QED
  BY <1>1, <1>2, <1>3 DEF Finish

LEMMA KeptClaimsUnique ==
  ASSUME ClaimInv, TypeOK', AttemptsKept, ClaimsKept PROVE ClaimsUnique'
  <1>1. ASSUME NEW e \in exec'
        PROVE  e.attempt <= row'[e.job].attempts \/ row'[e.job].status = "deleted"
    <2>1. PICK f \in exec : f.job = e.job /\ f.attempt = e.attempt
      BY DEF ClaimsKept
    <2>2. f.job \in Jobs /\ f.attempt \in Nat
      BY DEF ClaimInv, TypeOK, Execution
    <2>3. row[f.job].attempts \in Nat /\ row'[f.job].attempts \in Nat
      BY <2>2 DEF ClaimInv, TypeOK, QueueTypeOK, Row
    <2> QED
      BY <2>1, <2>2, <2>3 DEF ClaimInv, ClaimsUnique, AttemptsKept
  <1> QED
    BY <1>1 DEF ClaimsKept, ClaimsUnique

LEMMA KeptBlank ==
  ASSUME UnusedIsBlank, AttemptsKept,
         \A k \in Jobs : row[k].status = "none" => sent'[k] = sent[k]
  PROVE  UnusedIsBlank'
  BY DEF UnusedIsBlank, AttemptsKept

\* An execution's job is not an unused identity.
LEMMA HeldInUse ==
  ASSUME ClaimInv, NEW e \in exec
  PROVE  e.job \in Jobs /\ e.attempt \in Nat \ {0} /\ row[e.job].status # "none"
<1>1. e.job \in Jobs /\ e.attempt \in Nat \ {0}
  BY DEF ClaimInv, TypeOK, Execution
<1>2. row[e.job].attempts \in Nat
  BY <1>1 DEF ClaimInv, TypeOK, QueueTypeOK, Row
<1> QED
  BY <1>1, <1>2 DEF ClaimInv, ClaimsUnique, UnusedIsBlank

\* What a step of an execution does to the table and to the executions.
LEMMA ExecStepKeeps ==
  ASSUME ClaimInv, NEW e \in exec, ExecStep(e) \/ HandlerPanics(e)
  PROVE  AttemptsKept /\ ClaimsKept /\ \A k \in Jobs : k # e.job => sent'[k] = sent[k]
<1>1. e.job \in Jobs /\ e.attempt \in Nat \ {0}
  BY HeldInUse
<1>2. TypeOK /\ ClaimsUnique /\ QueueTypeOK /\ sent \in [Jobs -> SUBSET Nat]
  BY DEF ClaimInv, TypeOK
<1>3. CASE Acquire(e)
  BY <1>2, <1>3, ExecKeeps, StatementsKeep DEF Acquire, Steps
<1>4. CASE SkipUnknown(e)
  BY <1>1, <1>2, <1>4, ExecKeeps, StatementsKeep DEF SkipUnknown
<1>5. CASE HandlerSucceeds(e)
  BY <1>1, <1>2, <1>5, ExecKeeps, StatementsKeep DEF HandlerSucceeds, Steps
<1>6. CASE HandlerFails(e)
  BY <1>1, <1>2, <1>6, ExecKeeps, StatementsKeep DEF HandlerFails, Steps
<1>7. CASE CountFailure(e)
  BY <1>2, <1>7, ExecKeeps, StatementsKeep DEF CountFailure, Steps
<1>8. CASE RecordFailure(e)
  <2>1. e.attempt < MaxAttempts => Backoff(e.attempt) \in Int
    BY <1>1, BackoffAssumption, JobQueueAssumption
  <2>2. AttemptsKept
    BY <1>1, <1>2, <1>8, <2>1, StatementsKeep, JobQueueAssumption DEF RecordFailure
  <2> QED
    BY <1>2, <1>8, <2>2, ExecKeeps DEF RecordFailure
<1>9. CASE ResetFailures(e)
  BY <1>2, <1>9, ExecKeeps, StatementsKeep DEF ResetFailures, Steps
<1>10. CASE RecordSuccess(e)
  BY <1>1, <1>2, <1>10, ExecKeeps, StatementsKeep DEF RecordSuccess
<1>11. CASE RecordPanic(e)
  <2>1. PanicDelay \in Int
    BY WorkerAssumption
  <2> QED
    BY <1>1, <1>2, <1>11, <2>1, ExecKeeps, StatementsKeep DEF RecordPanic
<1>12. CASE HandlerPanics(e)
  BY <1>2, <1>12, ExecKeeps, StatementsKeep DEF HandlerPanics, Steps
<1> QED
  BY <1>3, <1>4, <1>5, <1>6, <1>7, <1>8, <1>9, <1>10, <1>11, <1>12 DEF ExecStep

\* A new claim counts one attempt more than every earlier one.
LEMMA ClaimKeepsInv ==
  ASSUME ClaimInv, TypeOK', NEW p \in Procs, ClaimJob(p) PROVE ClaimInv'
<1>1. PICK j \in Jobs :
        /\ Claim(j)
        /\ exec' = exec \cup {[proc |-> p, job |-> j,
                               attempt |-> row[j].attempts + 1,
                               payload |-> row[j].payload,
                               step |-> "waiting"]}
  BY DEF ClaimJob
<1> DEFINE new == [proc |-> p, job |-> j, attempt |-> row[j].attempts + 1,
                   payload |-> row[j].payload, step |-> "waiting"]
<1>2. new.job = j /\ new.attempt = row[j].attempts + 1 /\ exec' = exec \cup {new}
  BY <1>1
<1> HIDE DEF new
<1>3. row \in [Jobs -> Row] /\ row[j].attempts \in Nat
  BY DEF ClaimInv, TypeOK, QueueTypeOK, Row
<1>4. /\ \A k \in Jobs \ {j} : row'[k] = row[k]
      /\ row'[j].status = "running" /\ row'[j].attempts = row[j].attempts + 1
      /\ row[j].status \in Waiting
  BY <1>1, <1>3 DEF Claim, Ready, Row
<1>5. \A e \in exec : e.job = j => e.attempt <= row[j].attempts
  BY <1>4 DEF ClaimInv, ClaimsUnique, Waiting
<1>6. \A e \in exec : e.job \in Jobs /\ e.attempt \in Nat
  BY HeldInUse
<1>7. ClaimsUnique'
  <2>1. \A e \in exec : e.job = j => e.attempt < row[j].attempts + 1
    BY <1>3, <1>5, <1>6
  <2>2. \A e \in exec' :
          e.attempt <= row'[e.job].attempts \/ row'[e.job].status = "deleted"
    <3>1. ASSUME NEW e \in exec
          PROVE  e.attempt <= row'[e.job].attempts \/ row'[e.job].status = "deleted"
      <4>1. CASE e.job = j
        BY <1>3, <1>4, <1>6, <2>1, <4>1
      <4>2. CASE e.job # j
        BY <1>4, <1>6, <4>2 DEF ClaimInv, ClaimsUnique
      <4> QED  BY <4>1, <4>2
    <3>2. new.attempt <= row'[new.job].attempts
      BY <1>2, <1>3, <1>4
    <3> QED  BY <1>2, <3>1, <3>2
  <2>3. \A e, f \in exec' : e.job = f.job /\ e.attempt = f.attempt => e = f
    <3>1. \A e \in exec : ~(e.job = new.job /\ e.attempt = new.attempt)
      BY <1>2, <1>3, <1>6, <2>1
    <3> QED  BY <1>2, <3>1 DEF ClaimInv, ClaimsUnique
  <2> QED  BY <2>2, <2>3 DEF ClaimsUnique
<1>8. UnusedIsBlank'
  BY <1>4 DEF ClaimInv, UnusedIsBlank, ClaimJob
<1> QED
  BY <1>7, <1>8 DEF ClaimInv

LEMMA ClaimInvStep == ClaimInv /\ [Next]_vars => ClaimInv'
<1> SUFFICES ASSUME ClaimInv, [Next]_vars PROVE ClaimInv'
  OBVIOUS
<1>1. TypeOK /\ QueueTypeOK /\ ClaimsUnique /\ UnusedIsBlank
  BY DEF ClaimInv, TypeOK
<1>2. TypeOK'
  BY <1>1, StepType
<1>3. ASSUME AttemptsKept, ClaimsKept,
             \A k \in Jobs : row[k].status = "none" => sent'[k] = sent[k]
      PROVE  ClaimInv'
  BY <1>1, <1>2, <1>3, KeptClaimsUnique, KeptBlank DEF ClaimInv
<1>4. ASSUME NEW p \in Procs, LoopStep(p) PROVE ClaimInv'
  <2>1. CASE Start(p)
    BY <1>1, <1>3, <2>1, ExecKeeps, StatementsKeep DEF Start
  <2>2. CASE RecoverBury(p)
    BY <1>1, <1>3, <2>2, ExecKeeps, StatementsKeep DEF RecoverBury
  <2>3. CASE RecoverRelease(p)
    BY <1>1, <1>3, <2>3, ExecKeeps, StatementsKeep DEF RecoverRelease
  <2>4. CASE ClaimJob(p)
    BY <1>2, <2>4, ClaimKeepsInv
  <2>5. CASE IdlePoll(p)
    BY <1>1, <1>3, <2>5, ExecKeeps, StatementsKeep DEF IdlePoll
  <2>6. CASE StopClaiming(p)
    BY <1>1, <1>3, <2>6, ExecKeeps, StatementsKeep DEF StopClaiming
  <2>7. CASE Return(p)
    BY <1>1, <1>3, <2>7, ExecKeeps, StatementsKeep DEF Return
  <2> QED
    BY <1>4, <2>1, <2>2, <2>3, <2>4, <2>5, <2>6, <2>7 DEF LoopStep
<1>5. ASSUME NEW p \in Procs, Disruption(p)
      PROVE  ClaimInv'
  <2>1. CASE Expire(p) \/ HangUp(p) \/ Crash(p)
    BY <1>1, <1>3, <2>1, ExecKeeps, StatementsKeep DEF Expire, HangUp, Crash
  <2>2. CASE ClaimFails(p)
    <3>1. AttemptsKept
      BY <1>1, <2>2, StatementsKeep DEF ClaimFails
    <3> QED
      BY <1>1, <1>3, <2>2, <3>1, ExecKeeps DEF ClaimFails
  <2> QED
    BY <1>5, <2>1, <2>2 DEF Disruption
<1>6. ASSUME NEW e \in exec, ExecStep(e) \/ HandlerPanics(e) PROVE ClaimInv'
  BY <1>3, <1>6, ExecStepKeeps, HeldInUse
<1>7. ASSUME NEW j \in Jobs, EnqueueJob(j) PROVE ClaimInv'
  <2>1. /\ row[j].status = "none"
        /\ \A k \in Jobs \ {j} : row'[k] = row[k]
        /\ row'[j].status = "pending"
        /\ exec' = exec /\ sent' = sent
    BY <1>1, <1>7 DEF EnqueueJob, Enqueue, others, QueueTypeOK
  <2>2. \A e \in exec : e.job \in Jobs /\ e.job # j
    BY <2>1, HeldInUse
  <2> QED
    BY <1>1, <1>2, <2>1, <2>2 DEF ClaimInv, ClaimsUnique, UnusedIsBlank
<1>8. ASSUME NEW j \in Jobs, QueueRetry(j) \/ QueueDismiss(j) PROVE ClaimInv'
  BY <1>1, <1>3, <1>8, ExecKeeps, StatementsKeep DEF QueueRetry, QueueDismiss, others
<1>9. ASSUME NEW d \in Domains, BlockDomain(d) PROVE ClaimInv'
  BY <1>1, <1>3, <1>9, ExecKeeps, StatementsKeep DEF BlockDomain, others
<1>10. CASE QueueVacuum \/ Tick \/ UNCHANGED vars
  BY <1>1, <1>3, <1>10, ExecKeeps, StatementsKeep DEF QueueVacuum, Tick, vars, others
<1> QED
  BY <1>4, <1>5, <1>6, <1>7, <1>8, <1>9, <1>10 DEF Next

LEMMA ClaimInvInvariant == Spec => []ClaimInv
<1>1. Init => ClaimInv
  BY InitType DEF Init, QueueInit, NoRow, ClaimInv, UnusedIsBlank, ClaimsUnique
<1> QED
  BY <1>1, ClaimInvStep, PTL DEF Spec

\* No two executions ever hold the same attempt of a job, whatever crashes,
\* panics, lost writes and administrative retries: Claim's UPDATE ... RETURNING
\* counts the attempts and nothing takes them back.
THEOREM ClaimsAreUnique == Spec => []ClaimsUnique
<1>1. ClaimInv => ClaimsUnique
  BY DEF ClaimInv
<1> QED
  BY <1>1, ClaimInvInvariant, PTL

-----------------------------------------------------------------------------
(* Which statements settle a job.                                          *)

\* Nothing is newly dead, or nothing is newly done.
NoneBuried == \A k \in Jobs : row'[k].status = "dead" => row'[k] = row[k]
NoneDone   == \A k \in Jobs : row'[k].status = "done" => row'[k] = row[k]

LEMMA UpdateEffect ==
  ASSUME QueueTypeOK, NEW j \in Jobs, NEW new, UpdateRow(j, new)
  PROVE  /\ \A k \in Jobs \ {j} : row'[k] = row[k]
         /\ row'[j] = IF row[j].status \in InTable THEN new ELSE row[j]
  BY DEF QueueTypeOK, UpdateRow

\* The rows a recovery, a deletion or the clock does not settle.
LEMMA SettlingStatements ==
  ASSUME QueueTypeOK
  PROVE  /\ \A S : BuryStale(S) =>
              NoneDone /\ \A k \in Jobs : row'[k].status = "dead" =>
                            row'[k] = row[k] \/ row'[k].attempts >= MaxAttempts
         /\ \A S : ReleaseStale(S) => NoneBuried /\ NoneDone
         /\ \A S : Delete(S) => NoneBuried /\ NoneDone
         /\ Elapse => \A k \in Jobs : /\ row'[k].status = row[k].status
                                      /\ row'[k].attempts = row[k].attempts
                                      /\ row'[k].payload = row[k].payload
<1> USE DEF QueueTypeOK, NoneBuried, NoneDone
<1>1. ASSUME NEW S, BuryStale(S), NEW k \in Jobs
      PROVE  /\ row'[k].status = "done" => row'[k] = row[k]
             /\ row'[k].status = "dead" =>
                  row'[k] = row[k] \/ row'[k].attempts >= MaxAttempts
  BY <1>1 DEF BuryStale, Row
<1>2. ASSUME NEW S, ReleaseStale(S) PROVE NoneBuried /\ NoneDone
  BY <1>2 DEF ReleaseStale, Row
<1>3. ASSUME NEW S, Delete(S) PROVE NoneBuried /\ NoneDone
  BY <1>3 DEF Delete, DeletedRow
<1>4. ASSUME Elapse, NEW k \in Jobs
      PROVE  /\ row'[k].status = row[k].status
             /\ row'[k].attempts = row[k].attempts
             /\ row'[k].payload = row[k].payload
  BY <1>4 DEF Elapse, Row
<1> QED
  BY <1>1, <1>2, <1>3, <1>4

\* The statements that bury none.
LEMMA BuryNone ==
  ASSUME QueueTypeOK
  PROVE  /\ \A j \in Jobs : Enqueue(j) => NoneBuried /\ NoneDone
         /\ \A j \in Jobs : Claim(j) => NoneBuried /\ NoneDone
         /\ \A j \in Jobs : Complete(j) => NoneBuried
         /\ \A j \in Jobs : Dead(j) => NoneDone
         /\ \A j \in Jobs : \A d : Fail(j, d) => NoneBuried /\ NoneDone
         /\ \A j \in Jobs : Retry(j) => NoneBuried /\ NoneDone
         /\ Cleanup => NoneBuried /\ NoneDone
         /\ \A d : CancelByDomain(d) => NoneBuried /\ NoneDone
         /\ UNCHANGED row => NoneBuried /\ NoneDone
<1> USE DEF NoneBuried, NoneDone
<1>1. \A j \in Jobs : row[j] \in Row
  BY DEF QueueTypeOK
<1>2. ASSUME NEW j \in Jobs, Enqueue(j) PROVE NoneBuried /\ NoneDone
  BY <1>1, <1>2 DEF Enqueue, QueueTypeOK
<1>3. ASSUME NEW j \in Jobs, Claim(j) PROVE NoneBuried /\ NoneDone
  BY <1>1, <1>3 DEF Claim, QueueTypeOK, Row
<1>4. ASSUME NEW j \in Jobs, Complete(j) PROVE NoneBuried
  <2>1. [row[j] EXCEPT !.status = "done", !.payload = FALSE].status = "done"
    BY <1>1 DEF Row
  <2> QED
    BY <1>4, <2>1, UpdateEffect DEF Complete
<1>5. ASSUME NEW j \in Jobs, Dead(j) PROVE NoneDone
  BY <1>1, <1>5, UpdateEffect DEF Dead, Row
<1>6. ASSUME NEW j \in Jobs, NEW d, Fail(j, d) PROVE NoneBuried /\ NoneDone
  <2>1. [row[j] EXCEPT !.status = "failed", !.due = d].status = "failed"
    BY <1>1 DEF Row
  <2> QED
    BY <1>6, <2>1, UpdateEffect DEF Fail
<1>7. ASSUME NEW j \in Jobs, Retry(j) PROVE NoneBuried /\ NoneDone
  <2>1. [row[j] EXCEPT !.status = "pending", !.due = 0].status = "pending"
    BY <1>1 DEF Row
  <2> QED
    BY <1>7, <2>1, UpdateEffect DEF Retry
<1> QED
  BY <1>2, <1>3, <1>4, <1>5, <1>6, <1>7, SettlingStatements
     DEF Cleanup, CancelByDomain

LEMMA DeadStep ==
  ClaimInv /\ DeadMeansExhausted /\ [Next]_vars => DeadMeansExhausted'
<1> SUFFICES ASSUME ClaimInv, DeadMeansExhausted, [Next]_vars
             PROVE  DeadMeansExhausted'
  OBVIOUS
<1>1. TypeOK /\ QueueTypeOK /\ ClaimsUnique
  BY DEF ClaimInv, TypeOK
<1>2. ASSUME NoneBuried PROVE DeadMeansExhausted'
  BY <1>2 DEF NoneBuried, DeadMeansExhausted
<1>3. ASSUME NEW p \in Procs, LoopStep(p) PROVE DeadMeansExhausted'
  <2>1. CASE RecoverBury(p)
    BY <1>1, <1>2, <2>1, SettlingStatements, BuryNone
       DEF RecoverBury, DeadMeansExhausted
  <2>2. CASE RecoverRelease(p)
    BY <1>1, <1>2, <2>2, SettlingStatements, BuryNone DEF RecoverRelease
  <2> QED
    BY <1>1, <1>2, <1>3, <2>1, <2>2, BuryNone
       DEF LoopStep, Start, ClaimJob, IdlePoll, StopClaiming, Return
<1>4. ASSUME NEW p \in Procs, Disruption(p)
      PROVE  DeadMeansExhausted'
  BY <1>1, <1>2, <1>4, BuryNone DEF Disruption, Expire, HangUp, Crash, ClaimFails
<1>5. ASSUME NEW e \in exec, ExecStep(e) \/ HandlerPanics(e)
      PROVE  DeadMeansExhausted'
  <2>1. e.job \in Jobs /\ e.attempt \in Nat
    BY HeldInUse
  <2>2. CASE RecordFailure(e)
    <3>1. CASE e.attempt >= MaxAttempts /\ Dead(e.job)
      <4>1. row[e.job].status \in InTable => row[e.job].attempts >= e.attempt
        BY <1>1, <2>1 DEF ClaimsUnique, InTable, Waiting, Settled
      <4>2. row[e.job].status \in InTable => row[e.job].attempts >= MaxAttempts
        BY <1>1, <2>1, <3>1, <4>1, JobQueueAssumption DEF QueueTypeOK, Row
      <4>3. /\ \A k \in Jobs \ {e.job} : row'[k] = row[k]
            /\ row'[e.job] = IF row[e.job].status \in InTable
                             THEN [row[e.job] EXCEPT !.status = "dead"]
                             ELSE row[e.job]
        BY <1>1, <2>1, <3>1, UpdateEffect DEF Dead
      <4>4. row'[e.job].status = "dead" => row'[e.job].attempts >= MaxAttempts
        BY <1>1, <2>1, <4>2, <4>3 DEF DeadMeansExhausted, QueueTypeOK, Row
      <4> QED
        BY <4>3, <4>4 DEF DeadMeansExhausted
    <3> QED
      BY <1>1, <1>2, <2>1, <2>2, <3>1, BuryNone DEF RecordFailure
  <2> QED
    BY <1>1, <1>2, <1>5, <2>1, <2>2, BuryNone
       DEF ExecStep, Acquire, SkipUnknown, HandlerSucceeds, HandlerFails,
           CountFailure, ResetFailures, RecordSuccess, RecordPanic, HandlerPanics
<1>6. ASSUME NEW j \in Jobs, EnqueueJob(j) \/ QueueRetry(j) \/ QueueDismiss(j)
      PROVE  DeadMeansExhausted'
  BY <1>1, <1>2, <1>6, BuryNone DEF EnqueueJob, QueueRetry, QueueDismiss
<1>7. CASE (\E d \in Domains : BlockDomain(d)) \/ QueueVacuum \/ UNCHANGED vars
  BY <1>1, <1>2, <1>7, BuryNone DEF BlockDomain, QueueVacuum, vars
<1>8. CASE Tick
  BY <1>1, <1>8, SettlingStatements DEF Tick, DeadMeansExhausted
<1> QED
  BY <1>3, <1>4, <1>5, <1>6, <1>7, <1>8 DEF Next

\* Whatever the faults, a job is given up only when its attempts are used up.
THEOREM DeadJobsAreExhausted == Spec => []DeadMeansExhausted
<1>1. Init => DeadMeansExhausted
  BY DEF Init, QueueInit, NoRow, DeadMeansExhausted
<1> QED
  BY <1>1, ClaimInvInvariant, DeadStep, PTL DEF Spec

-----------------------------------------------------------------------------
(* A finished job was sent.                                                *)

LEMMA SentGrows ==
  ASSUME TypeOK, [Next]_vars PROVE \A j \in Jobs : sent[j] \subseteq sent'[j]
<1>1. ASSUME UNCHANGED sent PROVE \A j \in Jobs : sent[j] \subseteq sent'[j]
  BY <1>1
<1>2. ASSUME NEW e \in exec, ExecStep(e) \/ HandlerPanics(e)
      PROVE  \A j \in Jobs : sent[j] \subseteq sent'[j]
  BY <1>1, <1>2
     DEF TypeOK, ExecStep, Acquire, SkipUnknown, HandlerSucceeds, HandlerFails,
         CountFailure, RecordFailure, ResetFailures, RecordSuccess, RecordPanic,
         HandlerPanics
<1>3. ASSUME NEW p \in Procs, LoopStep(p) \/ Disruption(p)
      PROVE  UNCHANGED sent
  BY <1>3 DEF LoopStep, Start, RecoverBury, RecoverRelease, ClaimJob, IdlePoll,
              StopClaiming, Return, Disruption, Expire,
              HangUp, Crash, ClaimFails
<1>4. ASSUME NEW j \in Jobs, EnqueueJob(j) \/ QueueRetry(j) \/ QueueDismiss(j)
      PROVE  UNCHANGED sent
  BY <1>4 DEF EnqueueJob, QueueRetry, QueueDismiss, others
<1>5. CASE (\E d \in Domains : BlockDomain(d)) \/ QueueVacuum \/ Tick
           \/ UNCHANGED vars
  BY <1>1, <1>5 DEF BlockDomain, QueueVacuum, Tick, others, vars
<1> QED
  BY <1>1, <1>2, <1>3, <1>4, <1>5 DEF Next

\* Executions keep to their outcome: only HandlerSucceeds begins a success.
LEMMA OutcomeStep ==
  ASSUME ClaimInv, OutcomeIsTrue, [Next]_vars PROVE OutcomeIsTrue'
<1>1. TypeOK /\ \A e \in exec : e.job \in Jobs
  BY DEF ClaimInv, TypeOK, Execution
<1>2. \A j \in Jobs : sent[j] # {} => sent'[j] # {}
  BY <1>1, SentGrows
<1>3. ASSUME \A e \in exec' \ exec : e.step \notin {"succeeded", "completing"}
      PROVE  OutcomeIsTrue'
  BY <1>1, <1>2, <1>3 DEF OutcomeIsTrue
<1>4. ASSUME exec' \subseteq exec PROVE OutcomeIsTrue'
  BY <1>3, <1>4
<1>5. ASSUME NEW e \in exec, NEW s \in Steps, Move(e, s)
      PROVE  \A f \in exec' \ exec : f.step = s /\ f.job = e.job
  BY <1>1, <1>5 DEF Move, TypeOK, Execution
<1>6. ASSUME NEW e \in exec, ExecStep(e) \/ HandlerPanics(e) PROVE OutcomeIsTrue'
  <2>1. e.job \in Jobs /\ sent \in [Jobs -> SUBSET Nat]
    BY <1>1 DEF TypeOK
  <2>2. ASSUME NEW s \in Steps \ {"succeeded", "completing"}, Move(e, s)
        PROVE  OutcomeIsTrue'
    BY <1>3, <1>5, <2>2
  <2>3. ASSUME Finish(e) PROVE OutcomeIsTrue'
    BY <1>4, <2>3 DEF Finish
  <2>4. ASSUME NEW s \in Steps, Move(e, s), sent'[e.job] # {} PROVE OutcomeIsTrue'
    BY <1>1, <1>2, <1>5, <2>4 DEF OutcomeIsTrue
  <2>5. CASE HandlerSucceeds(e)
    BY <2>1, <2>4, <2>5 DEF HandlerSucceeds, Steps
  <2>6. CASE ResetFailures(e)
    BY <1>2, <2>1, <2>4, <2>6 DEF ResetFailures, OutcomeIsTrue, Steps
  <2> QED
    BY <1>6, <2>2, <2>3, <2>5, <2>6
       DEF Steps, ExecStep, Acquire, SkipUnknown, HandlerFails, CountFailure,
           RecordFailure, RecordSuccess, RecordPanic, HandlerPanics
<1>7. ASSUME NEW p \in Procs, LoopStep(p) \/ Disruption(p)
      PROVE  OutcomeIsTrue'
  <2>1. CASE ClaimJob(p)
    <3>1. \A e \in exec' \ exec : e.step = "waiting"
      BY <2>1 DEF ClaimJob
    <3> QED  BY <1>3, <3>1
  <2> QED
    BY <1>4, <1>7, <2>1
       DEF LoopStep, Start, RecoverBury, RecoverRelease, IdlePoll,
           StopClaiming, Return, Disruption, Expire,
              HangUp, Crash, ClaimFails
<1>8. ASSUME UNCHANGED exec PROVE OutcomeIsTrue'
  BY <1>4, <1>8
<1> QED
  BY <1>6, <1>7, <1>8
     DEF Next, EnqueueJob, QueueRetry, QueueDismiss, BlockDomain, QueueVacuum,
         Tick, others, vars

LEMMA DoneStep ==
  ASSUME "dismiss" \notin Faults, SentInv, [Next]_vars PROVE DoneMeansSent'
<1>1. TypeOK /\ QueueTypeOK
  BY DEF SentInv, ClaimInv, TypeOK
<1>2. \A j \in Jobs : sent[j] # {} => sent'[j] # {}
  BY <1>1, SentGrows
<1>3. ASSUME NoneDone PROVE DoneMeansSent'
  BY <1>2, <1>3 DEF NoneDone, SentInv, DoneMeansSent
<1>4. ASSUME NEW e \in exec, ExecStep(e) \/ HandlerPanics(e) PROVE DoneMeansSent'
  <2>1. e.job \in Jobs
    BY HeldInUse DEF SentInv
  <2>2. ASSUME Complete(e.job), e.job \in UnknownType \/ sent'[e.job] # {}
        PROVE  DoneMeansSent'
    BY <1>1, <1>2, <2>1, <2>2, UpdateEffect
       DEF Complete, SentInv, DoneMeansSent
  <2>3. CASE RecordSuccess(e)
    <3>1. sent'[e.job] # {}
      BY <1>2, <2>1, <2>3 DEF RecordSuccess, SentInv, OutcomeIsTrue
    <3> QED
      BY <1>1, <1>3, <2>2, <2>3, <3>1, BuryNone DEF RecordSuccess
  <2>4. CASE SkipUnknown(e)
    BY <1>1, <1>3, <2>2, <2>4, BuryNone DEF SkipUnknown
  <2> QED
    BY <1>1, <1>3, <1>4, <2>1, <2>3, <2>4, BuryNone
       DEF ExecStep, Acquire, HandlerSucceeds, HandlerFails, CountFailure,
           RecordFailure, ResetFailures, RecordPanic, HandlerPanics
<1>5. ASSUME NEW p \in Procs, LoopStep(p) \/ Disruption(p)
      PROVE  DoneMeansSent'
  BY <1>1, <1>3, <1>5, BuryNone, SettlingStatements
     DEF LoopStep, Start, RecoverBury, RecoverRelease, ClaimJob, IdlePoll,
         StopClaiming, Return, Disruption, Expire,
              HangUp, Crash, ClaimFails
<1>6. ASSUME NEW j \in Jobs, EnqueueJob(j) \/ QueueRetry(j) \/ QueueDismiss(j)
      PROVE  DoneMeansSent'
  BY <1>1, <1>3, <1>6, BuryNone DEF EnqueueJob, QueueRetry, QueueDismiss, Disturb
<1>7. CASE (\E d \in Domains : BlockDomain(d)) \/ QueueVacuum \/ UNCHANGED vars
  BY <1>1, <1>3, <1>7, BuryNone DEF BlockDomain, QueueVacuum, vars
<1>8. CASE Tick
  BY <1>1, <1>2, <1>8, SettlingStatements DEF Tick, SentInv, DoneMeansSent
<1> QED
  BY <1>4, <1>5, <1>6, <1>7, <1>8 DEF Next

LEMMA SentInvInvariant ==
  ASSUME "dismiss" \notin Faults PROVE Spec => []SentInv
<1>1. Init => OutcomeIsTrue /\ DoneMeansSent
  BY DEF Init, QueueInit, NoRow, OutcomeIsTrue, DoneMeansSent
<1>2. SentInv /\ [Next]_vars => SentInv'
  BY ClaimInvStep, OutcomeStep, DoneStep DEF SentInv
<1>3. ClaimInv /\ OutcomeIsTrue /\ DoneMeansSent => SentInv
  BY DEF SentInv
<1> QED
  BY <1>1, <1>2, <1>3, ClaimInvInvariant, PTL DEF Spec

\* Unless the administrator dismisses jobs, a job marked done was sent by one
\* of its attempts.
THEOREM DoneJobsWereSent ==
  ASSUME "dismiss" \notin Faults PROVE Spec => []DoneMeansSent
<1>1. SentInv => DoneMeansSent
  BY DEF SentInv
<1> QED
  BY <1>1, SentInvInvariant, PTL

-----------------------------------------------------------------------------
(* HoldersRun is preserved.                                                *)

\* The facts HolderInv gives about one execution.
LEMMA HolderFacts ==
  ASSUME HolderInv, NEW e \in exec
  PROVE  /\ e.job \in Jobs /\ e.attempt \in Nat \ {0}
         /\ row[e.job] \in Row
         /\ row[e.job].status = "running"
         /\ row[e.job].attempts = e.attempt
         /\ TimelyHandlers => row[e.job].due >= -StaleAfter
         /\ e.payload
         /\ e.step # "panicked"
         /\ \A p \in Procs : e.job \notin cut[p]
<1>1. e.job \in Jobs /\ e.attempt \in Nat \ {0}
  BY HeldInUse DEF HolderInv, SentInv
<1>2. row[e.job] \in Row
  BY <1>1 DEF HolderInv, SentInv, ClaimInv, TypeOK, QueueTypeOK
<1> QED
  BY <1>1, <1>2 DEF HolderInv, HoldersRun

LEMMA HolderIsSole == HolderInv => SoleExecutor
<1> SUFFICES ASSUME HolderInv, NEW e \in exec, NEW f \in exec, e.job = f.job
             PROVE  e = f
  BY DEF SoleExecutor
<1>1. e.attempt = f.attempt
  BY HolderFacts
<1> QED
  BY <1>1 DEF HolderInv, SentInv, ClaimInv, ClaimsUnique

\* The rows of the executions that remain are left alone, and no recovery
\* takes them in.
HeldRowsKept ==
  \A e \in exec :
    \/ \A f \in exec' : f.job # e.job
    \/ /\ row'[e.job].status = row[e.job].status
       /\ row'[e.job].attempts = row[e.job].attempts
       /\ TimelyHandlers => row'[e.job].due >= -StaleAfter
       /\ \A p \in Procs : e.job \notin cut'[p]

ExecsKept ==
  \A f \in exec' : \E e \in exec : /\ f.job = e.job /\ f.attempt = e.attempt
                                   /\ f.payload = e.payload
                                   /\ f.step # "panicked"

LEMMA KeptHolders ==
  ASSUME HolderInv, HeldRowsKept, ExecsKept PROVE HoldersRun'
<1> SUFFICES ASSUME NEW f \in exec'
             PROVE  /\ row'[f.job].status = "running"
                    /\ row'[f.job].attempts = f.attempt
                    /\ TimelyHandlers => row'[f.job].due >= -StaleAfter
                    /\ f.payload
                    /\ f.step # "panicked"
                    /\ \A p \in Procs : f.job \notin cut'[p]
  BY DEF HoldersRun
<1>1. PICK e \in exec : /\ f.job = e.job /\ f.attempt = e.attempt
                        /\ f.payload = e.payload
                        /\ f.step # "panicked"
  BY DEF ExecsKept
<1> QED
  BY <1>1, HolderFacts DEF HeldRowsKept

LEMMA SubsetKept ==
  ASSUME HolderInv, exec' \subseteq exec PROVE ExecsKept
  BY HolderFacts DEF ExecsKept

\* A statement that changes no running row and adds nothing to cut.
LEMMA RunningKept ==
  ASSUME HolderInv,
         \A j \in Jobs : row[j].status = "running" => row'[j] = row[j],
         \A p \in Procs : cut'[p] \subseteq cut[p]
  PROVE  HeldRowsKept
  BY HolderFacts DEF HeldRowsKept

\* The statements that touch no running row.
LEMMA StatementsSpareRunning ==
  ASSUME QueueTypeOK
  PROVE  /\ \A j \in Jobs : Enqueue(j) =>
              \A k \in Jobs : row[k].status = "running" => row'[k] = row[k]
         /\ \A j \in Jobs : Claim(j) =>
              \A k \in Jobs : row[k].status = "running" => row'[k] = row[k]
         /\ Cleanup =>
              \A k \in Jobs : row[k].status = "running" => row'[k] = row[k]
         /\ \A d : CancelByDomain(d) =>
              \A k \in Jobs : row[k].status = "running" => row'[k] = row[k]
<1> USE DEF QueueTypeOK
<1>1. ASSUME NEW j \in Jobs, Enqueue(j), NEW k \in Jobs, row[k].status = "running"
      PROVE  row'[k] = row[k]
  BY <1>1 DEF Enqueue
<1>2. ASSUME NEW j \in Jobs, Claim(j), NEW k \in Jobs, row[k].status = "running"
      PROVE  row'[k] = row[k]
  BY <1>2 DEF Claim, Ready, Waiting
<1>3. ASSUME Cleanup, NEW k \in Jobs, row[k].status = "running"
      PROVE  row'[k] = row[k]
  BY <1>3 DEF Cleanup, Delete, Settled
<1>4. ASSUME NEW d, CancelByDomain(d), NEW k \in Jobs, row[k].status = "running"
      PROVE  row'[k] = row[k]
  BY <1>4 DEF CancelByDomain, Delete, Waiting
<1> QED
  BY <1>1, <1>2, <1>3, <1>4

LEMMA HoldersStep ==
  ASSUME Tame, RecoverySafe, HolderInv, [Next]_vars PROVE HoldersRun'
<1>1. TypeOK /\ QueueTypeOK /\ RowsHealthy
  BY DEF HolderInv, SentInv, ClaimInv, TypeOK
<1>2. ASSUME HeldRowsKept, ExecsKept PROVE HoldersRun'
  BY <1>2, KeptHolders DEF HolderInv
<1>3. ASSUME HeldRowsKept, exec' \subseteq exec PROVE HoldersRun'
  BY <1>2, <1>3, SubsetKept
<1>4. ASSUME UNCHANGED <<row, cut>> PROVE HeldRowsKept
  BY <1>4, RunningKept
<1>5. ASSUME NEW p \in Procs, LoopStep(p) \/ Disruption(p)
      PROVE  HoldersRun'
  <2>1. CASE RecoverBury(p)
    <3>1. cut' = [cut EXCEPT ![p] = StaleJobs] /\ exec' = exec
      BY <2>1 DEF RecoverBury
    <3>2. \A e \in exec : e.job \notin StaleJobs
      BY <2>1 DEF RecoverySafe
    <3>3. \A e \in exec : row'[e.job] = row[e.job]
      BY <2>1, <3>2, HolderFacts DEF RecoverBury, BuryStale
    <3>4. HeldRowsKept
      BY <1>1, <3>1, <3>2, <3>3, HolderFacts DEF HeldRowsKept, TypeOK
    <3> QED  BY <1>3, <3>1, <3>4
  <2>2. CASE RecoverRelease(p)
    <3>1. cut' = [cut EXCEPT ![p] = {}] /\ exec' = exec
      BY <2>2 DEF RecoverRelease
    <3>2. \A e \in exec : row'[e.job] = row[e.job]
      BY <2>2, HolderFacts DEF RecoverRelease, ReleaseStale
    <3>3. HeldRowsKept
      BY <1>1, <3>1, <3>2, HolderFacts DEF HeldRowsKept, TypeOK
    <3> QED  BY <1>3, <3>1, <3>3
  <2>3. CASE ClaimJob(p)
    <3>1. PICK j \in Jobs :
            /\ Claim(j)
            /\ exec' = exec \cup {[proc |-> p, job |-> j,
                                   attempt |-> row[j].attempts + 1,
                                   payload |-> row[j].payload,
                                   step |-> "waiting"]}
            /\ cut' = [q \in Procs |-> cut[q] \ {j}]
      BY <2>3 DEF ClaimJob
    <3>2. row[j] \in Row /\ row[j].status \in Waiting
      BY <1>1, <3>1 DEF QueueTypeOK, Claim, Ready
    <3>3. /\ row'[j].status = "running" /\ row'[j].attempts = row[j].attempts + 1
          /\ row'[j].due = 0
      BY <1>1, <3>1, <3>2 DEF QueueTypeOK, Claim, Row
    <3>4. \A k \in Jobs : row[k].status = "running" => row'[k] = row[k]
      BY <1>1, <3>1, StatementsSpareRunning
    <3>5. row[j].payload
      BY <1>1, <3>2 DEF RowsHealthy
    <3>6. 0 >= -StaleAfter
      BY JobQueueAssumption
    <3>7. \A e \in exec : /\ row'[e.job].status = "running"
                          /\ row'[e.job].attempts = e.attempt
                          /\ TimelyHandlers => row'[e.job].due >= -StaleAfter
                          /\ e.payload
                          /\ e.step # "panicked"
                          /\ \A q \in Procs : e.job \notin cut'[q]
      BY <3>1, <3>4, HolderFacts
    <3> QED
      BY <3>1, <3>3, <3>5, <3>6, <3>7 DEF HoldersRun
  <2>4. CASE IdlePoll(p)
    BY <1>1, <1>3, <2>4, RunningKept, StatementsSpareRunning DEF IdlePoll
  <2>5. CASE Return(p)
    BY <1>1, <1>3, <2>5, RunningKept, StatementsSpareRunning DEF Return
  <2>6. CASE Crash(p) \/ HangUp(p)
    BY <1>1, <1>3, <2>6, RunningKept DEF Crash, HangUp, TypeOK
  <2>7. CASE ClaimFails(p)
    BY <1>1, <1>3, <2>7, RunningKept, StatementsSpareRunning DEF ClaimFails
  <2> QED
    BY <1>3, <1>4, <1>5, <2>1, <2>2, <2>3, <2>4, <2>5, <2>6, <2>7
       DEF LoopStep, Start, StopClaiming, Disruption, Expire
<1>6. ASSUME NEW e \in exec, ExecStep(e) \/ HandlerPanics(e) PROVE HoldersRun'
  <2>1. e \in Execution /\ e.job \in Jobs /\ e.step # "panicked"
    BY <1>1, HolderFacts DEF TypeOK
  <2>2. ASSUME NEW s \in Steps \ {"panicked"}, Move(e, s), UNCHANGED <<row, cut>>
        PROVE  HoldersRun'
    <3>1. ExecsKept
      BY <2>1, <2>2, HolderFacts DEF Move, ExecsKept, Execution
    <3> QED  BY <1>2, <1>4, <2>2, <3>1
  <2>3. ASSUME Finish(e), UNCHANGED cut,
               \A k \in Jobs \ {e.job} : row'[k] = row[k]
        PROVE  HoldersRun'
    <3>1. HeldRowsKept
      BY <2>3, HolderFacts, HolderIsSole DEF Finish, HeldRowsKept, SoleExecutor
    <3> QED  BY <1>3, <2>3, <3>1 DEF Finish
  <2>4. CASE RecordFailure(e)
    BY <1>1, <2>1, <2>3, <2>4, UpdateEffect DEF RecordFailure, Dead, Fail
  <2>5. CASE RecordSuccess(e) \/ SkipUnknown(e)
    BY <1>1, <2>1, <2>3, <2>5, UpdateEffect
       DEF RecordSuccess, SkipUnknown, Complete
  <2>6. ~RecordPanic(e) /\ ~HandlerPanics(e)
    BY <2>1 DEF RecordPanic, HandlerPanics, Disturb, Tame
  <2> QED
    BY <1>6, <2>2, <2>4, <2>5, <2>6
       DEF ExecStep, Acquire, HandlerSucceeds, HandlerFails, CountFailure,
           ResetFailures, Steps
<1>7. ASSUME NEW j \in Jobs, EnqueueJob(j) \/ QueueRetry(j) \/ QueueDismiss(j)
      PROVE  HoldersRun'
  BY <1>1, <1>3, <1>7, RunningKept, StatementsSpareRunning
     DEF EnqueueJob, QueueRetry, QueueDismiss, Disturb, Tame, others
<1>8. CASE (\E d \in Domains : BlockDomain(d)) \/ QueueVacuum
  BY <1>1, <1>3, <1>8, RunningKept, StatementsSpareRunning
     DEF BlockDomain, QueueVacuum, others
<1>9. CASE Tick
  <2>1. cut' = cut /\ exec' = exec
    BY <1>9 DEF Tick, others
  <2>2. ASSUME NEW e \in exec
        PROVE  /\ row'[e.job].status = row[e.job].status
               /\ row'[e.job].attempts = row[e.job].attempts
               /\ TimelyHandlers => row'[e.job].due >= -StaleAfter
    <3>1. /\ TimelyHandlers => row[e.job].due > -StaleAfter
          /\ row[e.job].due \in Int
      BY <1>9, <2>2, HolderFacts DEF Tick, Row
    <3>2. row'[e.job] = row[e.job] \/ row'[e.job].due = row[e.job].due - 1
      BY <1>9, <2>2, HolderFacts DEF Tick, Elapse, Row
    <3>3. TimelyHandlers => row'[e.job].due >= -StaleAfter
      BY <3>1, <3>2, JobQueueAssumption
    <3> QED
      BY <1>1, <1>9, <3>3, HolderFacts, SettlingStatements DEF Tick
  <2>3. HeldRowsKept
    BY <2>1, <2>2, HolderFacts DEF HeldRowsKept
  <2> QED  BY <1>3, <2>1, <2>3
<1>10. CASE UNCHANGED vars
  BY <1>3, <1>4, <1>10 DEF vars
<1> QED
  BY <1>5, <1>6, <1>7, <1>8, <1>9, <1>10 DEF Next

-----------------------------------------------------------------------------
(* RowsHealthy is preserved.                                               *)

\* What RowsHealthy says of one row, for a row of value r in the sets C.
HealthyRow(r, inCut) ==
  /\ r.status \in Waiting \cup {"running"} => r.payload
  /\ r.attempts <= MaxAttempts
  /\ r.status \in Waiting => r.attempts < MaxAttempts
  /\ inCut /\ r.status = "running" => r.attempts < MaxAttempts

InCut(j) == \E p \in Procs : j \in cut[p]

LEMMA HealthyRows ==
  RowsHealthy <=> \A j \in Jobs : HealthyRow(row[j], InCut(j))
  BY DEF RowsHealthy, HealthyRow, InCut

\* The effect of each statement on a healthy row.
LEMMA HealthyEffects ==
  ASSUME NEW r \in Row, NEW c \in BOOLEAN, HealthyRow(r, c)
  PROVE  /\ r.status \in Waiting =>
              \A n \in Row : /\ n.status = "running" /\ n.attempts = r.attempts + 1
                             /\ n.payload = r.payload
                             => HealthyRow(n, FALSE)
         /\ HealthyRow([r EXCEPT !.status = "done", !.payload = FALSE], c)
         /\ HealthyRow([r EXCEPT !.status = "dead"], c)
         /\ \A d \in Int : r.status = "running" /\ r.attempts < MaxAttempts =>
              HealthyRow([r EXCEPT !.status = "failed", !.due = d], c)
         /\ \A n \in Row : /\ n.status = r.status /\ n.attempts = r.attempts
                           /\ n.payload = r.payload
                           => HealthyRow(n, c)
<1> USE JobQueueAssumption DEF HealthyRow
<1>1. r.attempts \in Nat /\ r.payload \in BOOLEAN
  BY DEF Row
<1>2. ASSUME NEW n \in Row, n.status = "running", n.attempts = r.attempts + 1,
             n.payload = r.payload, r.status \in Waiting
      PROVE  HealthyRow(n, FALSE)
  BY <1>1, <1>2 DEF Waiting
<1>3. HealthyRow([r EXCEPT !.status = "done", !.payload = FALSE], c)
  BY <1>1 DEF Row, Waiting
<1>4. HealthyRow([r EXCEPT !.status = "dead"], c)
  BY <1>1 DEF Row, Waiting
<1>5. ASSUME NEW d \in Int, r.status = "running", r.attempts < MaxAttempts
      PROVE  HealthyRow([r EXCEPT !.status = "failed", !.due = d], c)
  BY <1>1, <1>5 DEF Row, Waiting
<1>6. ASSUME NEW n \in Row, n.status = r.status, n.attempts = r.attempts,
             n.payload = r.payload
      PROVE  HealthyRow(n, c)
  BY <1>6
<1> QED
  BY <1>2, <1>3, <1>4, <1>5, <1>6

LEMMA HealthyStep ==
  ASSUME Tame, HolderInv, [Next]_vars PROVE RowsHealthy'
<1>0. 0 \in Int
  OBVIOUS
<1>1. TypeOK /\ QueueTypeOK /\ \A j \in Jobs : row[j] \in Row
  BY DEF HolderInv, SentInv, ClaimInv, TypeOK, QueueTypeOK
<1>2. \A j \in Jobs : HealthyRow(row[j], InCut(j)) /\ InCut(j) \in BOOLEAN
  BY HealthyRows DEF HolderInv, InCut
<1>3. TypeOK' /\ \A j \in Jobs : row'[j] \in Row
  BY <1>1, StepType DEF TypeOK, QueueTypeOK
<1>4. ASSUME \A j \in Jobs : HealthyRow(row'[j], InCut(j)') PROVE RowsHealthy'
  BY <1>4 DEF RowsHealthy, HealthyRow, InCut
<1>5. \A j \in Jobs : HealthyRow(DeletedRow, InCut(j)')
  BY JobQueueAssumption DEF HealthyRow, DeletedRow, Waiting
<1>6. ASSUME UNCHANGED cut, NEW S, Delete(S) PROVE RowsHealthy'
  <2>1. \A j \in Jobs : InCut(j)' = InCut(j)
    BY <1>6 DEF InCut
  <2> QED
    BY <1>2, <1>4, <1>5, <1>6, <2>1 DEF Delete
<1>7. ASSUME UNCHANGED <<row, cut>> PROVE RowsHealthy'
  BY <1>7 DEF HolderInv, RowsHealthy
<1>8. ASSUME UNCHANGED cut, Cleanup \/ \E d : CancelByDomain(d)
      PROVE  RowsHealthy'
  BY <1>6, <1>8 DEF Cleanup, CancelByDomain
<1>9. ASSUME NEW p \in Procs, LoopStep(p) \/ Disruption(p)
      PROVE  RowsHealthy'
  <2>1. CASE RecoverBury(p)
    <3>1. cut' = [cut EXCEPT ![p] = StaleJobs] /\ BuryStale(StaleJobs)
      BY <2>1 DEF RecoverBury, Disturb, Tame
    <3>2. ASSUME NEW j \in Jobs PROVE HealthyRow(row'[j], InCut(j)')
      <4>1. CASE j \in StaleJobs /\ row[j].attempts >= MaxAttempts
        <5>1. row'[j] = [row[j] EXCEPT !.status = "dead"]
          BY <3>1, <4>1 DEF BuryStale, StaleJobs
        <5>2. row'[j].status = "dead" /\ row'[j].attempts = row[j].attempts
          BY <1>1, <5>1 DEF Row
        <5> QED
          BY <1>2, <5>2 DEF HealthyRow, Waiting
      <4>2. CASE j \in StaleJobs /\ ~(row[j].attempts >= MaxAttempts)
        <5>1. row'[j] = row[j] /\ row[j].attempts < MaxAttempts
          BY <1>1, <3>1, <4>2, JobQueueAssumption DEF BuryStale, Row
        <5> QED
          BY <1>2, <5>1 DEF HealthyRow
      <4>3. CASE j \notin StaleJobs
        <5>1. row'[j] = row[j] /\ (InCut(j)' => InCut(j))
          BY <1>1, <3>1, <4>3 DEF BuryStale, InCut, TypeOK
        <5> QED
          BY <1>2, <5>1 DEF HealthyRow
      <4> QED  BY <4>1, <4>2, <4>3
    <3> QED  BY <1>4, <3>2
  <2>2. CASE RecoverRelease(p)
    <3>1. cut' = [cut EXCEPT ![p] = {}] /\ ReleaseStale(cut[p])
      BY <2>2 DEF RecoverRelease, Disturb, Tame
    <3>2. ASSUME NEW j \in Jobs PROVE HealthyRow(row'[j], InCut(j)')
      <4>1. InCut(j)' => InCut(j)
        BY <1>1, <3>1 DEF InCut, TypeOK
      <4>2. CASE j \in cut[p] /\ row[j].status = "running"
        <5>1. row'[j] = [row[j] EXCEPT !.status = "failed", !.due = 0]
          BY <3>1, <4>2 DEF ReleaseStale
        <5>2. /\ row'[j].status = "failed" /\ row'[j].attempts = row[j].attempts
              /\ row'[j].payload = row[j].payload
          BY <1>1, <5>1 DEF Row
        <5>3. row[j].attempts < MaxAttempts /\ row[j].payload
          BY <1>2, <4>2 DEF HealthyRow, InCut
        <5> QED
          BY <1>2, <5>2, <5>3 DEF HealthyRow
      <4>3. CASE ~(j \in cut[p] /\ row[j].status = "running")
        <5>1. row'[j] = row[j]
          BY <3>1, <4>3 DEF ReleaseStale
        <5> QED
          BY <1>2, <4>1, <5>1 DEF HealthyRow
      <4> QED  BY <4>2, <4>3
    <3> QED  BY <1>4, <3>2
  <2>3. ASSUME NEW j \in Jobs, Claim(j), cut' = [q \in Procs |-> cut[q] \ {j}]
        PROVE  RowsHealthy'
    <3>2. /\ row[j].status \in Waiting
          /\ row'[j].status = "running" /\ row'[j].attempts = row[j].attempts + 1
          /\ row'[j].payload = row[j].payload
          /\ \A k \in Jobs \ {j} : row'[k] = row[k]
      BY <1>1, <2>3 DEF Claim, Ready, QueueTypeOK, Row
    <3>3. ~InCut(j)' /\ \A k \in Jobs : InCut(k)' => InCut(k)
      BY <2>3 DEF InCut
    <3>4. HealthyRow(row'[j], FALSE)
      BY <1>1, <1>2, <1>3, <3>2, HealthyEffects
    <3>5. ASSUME NEW k \in Jobs \ {j} PROVE HealthyRow(row'[k], InCut(k)')
      BY <1>2, <3>2, <3>3 DEF HealthyRow
    <3>6. HealthyRow(row'[j], InCut(j)')
      BY <3>3, <3>4 DEF HealthyRow
    <3> QED  BY <1>4, <3>5, <3>6
  <2>4. CASE Crash(p) \/ HangUp(p)
    <3>1. row' = row /\ \A j \in Jobs : InCut(j)' => InCut(j)
      BY <1>1, <2>4 DEF Crash, HangUp, InCut, TypeOK
    <3>2. \A j \in Jobs : HealthyRow(row'[j], InCut(j)')
      BY <1>2, <3>1 DEF HealthyRow
    <3> QED  BY <1>4, <3>2
  <2>5. CASE ClaimJob(p) \/ ClaimFails(p)
    BY <1>7, <2>3, <2>5 DEF ClaimJob, ClaimFails
  <2> QED
    BY <1>7, <1>8, <1>9, <2>1, <2>2, <2>4, <2>5
       DEF LoopStep, Start, IdlePoll, StopClaiming, Return, Disruption, Expire
<1>10. ASSUME NEW e \in exec, ExecStep(e) \/ HandlerPanics(e) PROVE RowsHealthy'
  <2>1. /\ e.job \in Jobs /\ e.attempt \in Nat \ {0}
        /\ row[e.job].status = "running" /\ row[e.job].attempts = e.attempt
        /\ e.step # "panicked"
    BY HolderFacts
  <2>2. ASSUME UNCHANGED cut, NEW n \in Row, UpdateRow(e.job, n),
               HealthyRow(n, InCut(e.job))
        PROVE  RowsHealthy'
    <3>1. \A k \in Jobs : InCut(k)' = InCut(k)
      BY <2>2 DEF InCut
    <3>2. \A k \in Jobs : row'[k] = row[k] \/ (k = e.job /\ row'[k] = n)
      BY <1>1, <2>1, <2>2, UpdateEffect
    <3>3. \A k \in Jobs : HealthyRow(row'[k], InCut(k)')
      BY <1>2, <2>2, <3>1, <3>2
    <3> QED  BY <1>4, <3>3
  <2>3. ASSUME Complete(e.job), UNCHANGED cut PROVE RowsHealthy'
    <3>1. [row[e.job] EXCEPT !.status = "done", !.payload = FALSE] \in Row
      BY <1>1, <2>1, <1>0, RowTypes DEF Statuses, InTable, Settled, Waiting
    <3> QED
      BY <1>1, <1>2, <2>1, <2>2, <2>3, <3>1, HealthyEffects DEF Complete
  <2>4. CASE RecordFailure(e)
    <3>1. ASSUME Dead(e.job) PROVE RowsHealthy'
      <4>1. [row[e.job] EXCEPT !.status = "dead"] \in Row
        BY <1>1, <2>1, <1>0, RowTypes DEF Statuses, InTable, Settled, Waiting
      <4> QED
        BY <1>1, <1>2, <2>1, <2>2, <2>4, <3>1, <4>1, HealthyEffects
           DEF Dead, RecordFailure
    <3>2. ASSUME ~(e.attempt >= MaxAttempts), Fail(e.job, Backoff(e.attempt))
          PROVE  RowsHealthy'
      <4>1. e.attempt < MaxAttempts /\ Backoff(e.attempt) \in Int
        BY <2>1, <3>2, JobQueueAssumption, BackoffAssumption
      <4>2. [row[e.job] EXCEPT !.status = "failed", !.due = Backoff(e.attempt)]
              \in Row
        BY <1>1, <2>1, <4>1, RowTypes DEF Statuses, InTable, Waiting
      <4>3. row[e.job].attempts < MaxAttempts
        BY <2>1, <4>1
      <4>4. HealthyRow([row[e.job] EXCEPT !.status = "failed",
                                          !.due = Backoff(e.attempt)],
                       InCut(e.job))
        BY <1>1, <1>2, <2>1, <4>1, <4>3, HealthyEffects
      <4> QED
        BY <2>1, <2>2, <2>4, <3>2, <4>2, <4>4 DEF Fail, RecordFailure
    <3> QED
      BY <1>7, <2>4, <3>1, <3>2 DEF RecordFailure
  <2>5. ~RecordPanic(e) /\ ~HandlerPanics(e)
    BY <2>1 DEF RecordPanic, HandlerPanics, Disturb, Tame
  <2> QED
    BY <1>7, <1>10, <2>3, <2>4, <2>5
       DEF ExecStep, Acquire, SkipUnknown, HandlerSucceeds, HandlerFails,
           CountFailure, ResetFailures, RecordSuccess
<1>11. ASSUME NEW j \in Jobs, EnqueueJob(j) \/ QueueRetry(j) \/ QueueDismiss(j)
       PROVE  RowsHealthy'
  <2>1. Enqueue(j) /\ cut' = cut
    BY <1>11 DEF EnqueueJob, QueueRetry, QueueDismiss, Disturb, Tame, others
  <2>2. \A k \in Jobs : InCut(k)' = InCut(k)
    BY <2>1 DEF InCut
  <2>3. /\ \A k \in Jobs \ {j} : row'[k] = row[k]
        /\ row'[j].status = "pending" /\ row'[j].attempts = 0 /\ row'[j].payload
    BY <1>1, <2>1 DEF Enqueue, QueueTypeOK
  <2>4. HealthyRow(row'[j], InCut(j)')
    BY <2>3, JobQueueAssumption DEF HealthyRow, Waiting
  <2> QED  BY <1>2, <1>4, <2>2, <2>3, <2>4
<1>12. CASE (\E d \in Domains : BlockDomain(d)) \/ QueueVacuum
  BY <1>8, <1>12 DEF BlockDomain, QueueVacuum, others
<1>13. CASE Tick
  <2>1. \A k \in Jobs : InCut(k)' = InCut(k)
    BY <1>13 DEF Tick, others, InCut
  <2>2. \A k \in Jobs : HealthyRow(row'[k], InCut(k))
    BY <1>1, <1>2, <1>3, <1>13, SettlingStatements, HealthyEffects DEF Tick
  <2> QED  BY <1>4, <2>1, <2>2
<1>14. CASE UNCHANGED vars
  BY <1>7, <1>14 DEF vars
<1> QED
  BY <1>9, <1>10, <1>11, <1>12, <1>13, <1>14 DEF Next

-----------------------------------------------------------------------------
(* The theorems.                                                           *)

\* With timely handlers no execution is stale when a RecoverStale looks.
LEMMA TimelyIsSafe == ASSUME TimelyHandlers, HolderInv PROVE RecoverySafe
<1> SUFFICES ASSUME NEW e \in exec, e.job \in StaleJobs PROVE FALSE
  BY DEF RecoverySafe
<1>1. row[e.job].due < -StaleAfter /\ row[e.job].due >= -StaleAfter
  BY HolderFacts DEF StaleJobs
<1>2. row[e.job].due \in Int
  BY HolderFacts DEF Row
<1> QED
  BY <1>1, <1>2, JobQueueAssumption

LEMMA HolderInvInit == Init => HolderInv
  BY InitType, JobQueueAssumption
     DEF Init, QueueInit, NoRow, HolderInv, SentInv, ClaimInv, UnusedIsBlank,
         ClaimsUnique, OutcomeIsTrue, DoneMeansSent, HoldersRun, RowsHealthy,
         Waiting

LEMMA HolderInvStep ==
  ASSUME Tame, RecoverySafe, HolderInv, [Next]_vars PROVE HolderInv'
<1>1. "dismiss" \notin Faults
  BY DEF Tame
<1> QED
  BY <1>1, ClaimInvStep, OutcomeStep, DoneStep, HoldersStep, HealthyStep
     DEF HolderInv, SentInv

LEMMA HolderInvInvariant ==
  ASSUME Undisturbed PROVE Spec => []HolderInv
<1>1. HolderInv /\ [Next]_vars => HolderInv'
  BY HolderInvStep, TimelyIsSafe DEF Undisturbed
<1> QED
  BY <1>1, HolderInvInit, PTL DEF Spec

\* A job is executed by one goroutine at a time, in all processes.
THEOREM OneExecutor == ASSUME Undisturbed PROVE Spec => []SoleExecutor
  BY HolderInvInvariant, HolderIsSole, PTL

\* No job is executed more than MaxJobAttempts times.
THEOREM AttemptsAreCapped == ASSUME Undisturbed PROVE Spec => []AttemptsCapped
<1>1. HolderInv => AttemptsCapped
  BY DEF HolderInv, RowsHealthy, AttemptsCapped
<1> QED
  BY <1>1, HolderInvInvariant, PTL

\* A job handed back for a retry still has its payload.
THEOREM PayloadIsKept == ASSUME Undisturbed PROVE Spec => []WaitingHasPayload
<1>1. HolderInv => WaitingHasPayload
  BY DEF HolderInv, RowsHealthy, WaitingHasPayload
<1> QED
  BY <1>1, HolderInvInvariant, PTL

\* What one step may do to the row of job j.
JobStep(j) ==
  \/ row'[j].status = row[j].status
  \/ row[j].status = "none" /\ row'[j].status = "pending"
  \/ row[j].status \in Waiting /\ row'[j].status = "running"
  \/ row[j].status = "running" /\ row'[j].status = "failed"
  \/ row[j].status = "running" /\ row'[j].status = "dead"
  \/ /\ row[j].status = "running" /\ row'[j].status = "done"
     /\ j \in UnknownType \/ sent[j] # {}
  \/ row[j].status \in Waiting \cup Settled /\ row'[j].status = "deleted"

\* While the executions hold their rows, every statement of the program moves
\* a row along the lifecycle.
LEMMA JobSteps ==
  ASSUME Tame, HolderInv, [Next]_vars PROVE \A j \in Jobs : JobStep(j)
<1>1. TypeOK /\ QueueTypeOK /\ \A j \in Jobs : row[j] \in Row
  BY DEF HolderInv, SentInv, ClaimInv, TypeOK, QueueTypeOK
<1>2. ASSUME UNCHANGED row PROVE \A j \in Jobs : JobStep(j)
  BY <1>2 DEF JobStep
<1>3. ASSUME Cleanup \/ \E d : CancelByDomain(d)
      PROVE  \A j \in Jobs : JobStep(j)
  BY <1>1, <1>3 DEF Cleanup, CancelByDomain, Delete, DeletedRow, JobStep
<1>4. ASSUME NEW p \in Procs, LoopStep(p) \/ Disruption(p)
      PROVE  \A j \in Jobs : JobStep(j)
  <2>1. CASE RecoverBury(p)
    <3>1. BuryStale(StaleJobs)
      BY <2>1 DEF RecoverBury, Disturb, Tame
    <3>2. \A j \in Jobs : \/ row'[j] = row[j]
                          \/ row[j].status = "running" /\ row'[j].status = "dead"
      BY <1>1, <3>1 DEF BuryStale, Row
    <3> QED  BY <3>2 DEF JobStep
  <2>2. CASE RecoverRelease(p)
    <3>1. ReleaseStale(cut[p])
      BY <2>2 DEF RecoverRelease, Disturb, Tame
    <3>2. \A j \in Jobs : \/ row'[j] = row[j]
                          \/ row[j].status = "running" /\ row'[j].status = "failed"
      BY <1>1, <3>1 DEF ReleaseStale, Row
    <3> QED  BY <3>2 DEF JobStep
  <2>3. ASSUME NEW j \in Jobs, Claim(j) PROVE \A k \in Jobs : JobStep(k)
    <3>1. /\ row[j].status \in Waiting /\ row'[j].status = "running"
          /\ \A k \in Jobs \ {j} : row'[k] = row[k]
      BY <1>1, <2>3 DEF Claim, Ready, QueueTypeOK, Row
    <3> QED  BY <3>1 DEF JobStep
  <2> QED
    BY <1>2, <1>3, <1>4, <2>1, <2>2, <2>3
       DEF LoopStep, Start, ClaimJob, IdlePoll, StopClaiming, Return,
           Disruption, Expire, HangUp, Crash, ClaimFails
<1>5. ASSUME NEW e \in exec, ExecStep(e) \/ HandlerPanics(e)
      PROVE  \A j \in Jobs : JobStep(j)
  <2>1. /\ e.job \in Jobs /\ row[e.job].status = "running"
        /\ e.step # "panicked" /\ row[e.job].status \in InTable
    BY HolderFacts DEF InTable
  <2>2. ASSUME NEW n, UpdateRow(e.job, n), n.status \in {"failed", "dead"}
        PROVE  \A j \in Jobs : JobStep(j)
    BY <1>1, <2>1, <2>2, UpdateEffect DEF JobStep
  <2>3. ASSUME NEW n, UpdateRow(e.job, n), n.status = "done",
               e.job \in UnknownType \/ sent[e.job] # {}
        PROVE  \A j \in Jobs : JobStep(j)
    BY <1>1, <2>1, <2>3, UpdateEffect DEF JobStep
  <2>4. /\ \A d : [row[e.job] EXCEPT !.status = "failed", !.due = d].status = "failed"
        /\ [row[e.job] EXCEPT !.status = "dead"].status = "dead"
        /\ [row[e.job] EXCEPT !.status = "done", !.payload = FALSE].status = "done"
    BY <1>1, <2>1 DEF Row
  <2>5. CASE RecordFailure(e)
    BY <1>2, <2>2, <2>4, <2>5 DEF RecordFailure, Dead, Fail
  <2>6. CASE RecordSuccess(e)
    <3>1. sent[e.job] # {}
      BY <2>6 DEF RecordSuccess, HolderInv, SentInv, OutcomeIsTrue
    <3> QED
      BY <1>2, <2>3, <2>4, <2>6, <3>1 DEF RecordSuccess, Complete
  <2>7. CASE SkipUnknown(e)
    BY <1>2, <2>3, <2>4, <2>7 DEF SkipUnknown, Complete
  <2>8. ~RecordPanic(e) /\ ~HandlerPanics(e)
    BY <2>1 DEF RecordPanic, HandlerPanics, Disturb, Tame
  <2> QED
    BY <1>2, <1>5, <2>5, <2>6, <2>7, <2>8
       DEF ExecStep, Acquire, HandlerSucceeds, HandlerFails, CountFailure,
           ResetFailures
<1>6. ASSUME NEW j \in Jobs, EnqueueJob(j) \/ QueueRetry(j) \/ QueueDismiss(j)
      PROVE  \A k \in Jobs : JobStep(k)
  <2>1. Enqueue(j)
    BY <1>6 DEF EnqueueJob, QueueRetry, QueueDismiss, Disturb, Tame
  <2>2. /\ \A k \in Jobs \ {j} : row'[k] = row[k]
        /\ row[j].status = "none" /\ row'[j].status = "pending"
    BY <1>1, <2>1 DEF Enqueue, QueueTypeOK
  <2> QED  BY <2>2 DEF JobStep
<1>7. CASE (\E d \in Domains : BlockDomain(d)) \/ QueueVacuum
  BY <1>3, <1>7 DEF BlockDomain, QueueVacuum
<1>8. CASE Tick
  BY <1>1, <1>8, SettlingStatements DEF Tick, JobStep
<1>9. CASE UNCHANGED vars
  BY <1>2, <1>9 DEF vars
<1> QED
  BY <1>4, <1>5, <1>6, <1>7, <1>8, <1>9 DEF Next

\* A finished job stays finished until Cleanup deletes it.
THEOREM SettledStays == ASSUME Undisturbed PROVE Spec => SettledIsFinal
<1>1. HolderInv /\ [Next]_vars =>
        [\A j \in Jobs : row[j].status \in Settled =>
            row'[j].status \in {row[j].status, "deleted"}]_vars
  BY JobSteps DEF Undisturbed, JobStep, Settled, Waiting
<1> QED
  BY <1>1, HolderInvInvariant, PTL DEF Spec, SettledIsFinal

\* Sending is done by an execution that holds its row, and writes no row.
LEMMA SendSteps ==
  ASSUME Tame, HolderInv, [Next]_vars, NEW j \in Jobs, sent'[j] # sent[j]
  PROVE  row[j].status = "running" /\ row' = row /\ sent'[j] # {}
<1>1. TypeOK
  BY DEF HolderInv, SentInv, ClaimInv
<1>2. PICK e \in exec : HandlerSucceeds(e) \/ HandlerFails(e)
  BY DEF Next, LoopStep, Start, RecoverBury, RecoverRelease, ClaimJob, IdlePoll,
         StopClaiming, Return, Disruption, Expire,
              HangUp, Crash, ClaimFails, ExecStep, Acquire,
         SkipUnknown,
         CountFailure, RecordFailure, ResetFailures, RecordSuccess, RecordPanic,
         HandlerPanics, EnqueueJob, QueueRetry, QueueDismiss, BlockDomain,
         QueueVacuum, Tick, others, vars
<1>3. row' = row /\ sent' = [sent EXCEPT ![e.job] = @ \cup {e.attempt}]
  BY <1>2 DEF HandlerSucceeds, HandlerFails
<1>4. j = e.job /\ sent'[j] = sent[j] \cup {e.attempt}
  BY <1>1, <1>3 DEF TypeOK
<1> QED
  BY <1>3, <1>4, HolderFacts

\* Nothing leaves the server on behalf of a job that is not running.
THEOREM OnlyRunningJobsSend ==
  ASSUME Undisturbed PROVE Spec => SendsOnlyWhileRunning
<1>1. HolderInv /\ [Next]_vars =>
        [\A j \in Jobs : sent'[j] # sent[j] => row[j].status = "running"]_vars
  BY SendSteps DEF Undisturbed
<1> QED
  BY <1>1, HolderInvInvariant, PTL DEF Spec, SendsOnlyWhileRunning

LEMMA LifecycleInit == Init => Abstract!Init
<1> SUFFICES ASSUME Init PROVE Abstract!Init
  OBVIOUS
<1>1. \A j \in Jobs : row[j].status = "none" /\ sent[j] = {}
  BY DEF Init, QueueInit, NoRow
<1>2. \A j \in Jobs : Phase(row[j].status) = "absent"
  BY <1>1 DEF Phase, Settled
<1>3. [j \in Jobs |-> Phase(row[j].status)] = [j \in Jobs |-> "absent"]
  BY <1>2
<1>4. \A j \in Jobs : (sent[j] # {}) <=> FALSE
  BY <1>1
<1>5. [j \in Jobs |-> sent[j] # {}] = [j \in Jobs |-> FALSE]
  BY <1>4
<1> QED
  BY <1>3, <1>5 DEF Abstract!Init

LEMMA LifecycleStep ==
  ASSUME Tame, HolderInv, [Next]_vars PROVE [Abstract!Next]_(Abstract!vars)
<1> SUFFICES ASSUME NEW j \in Jobs
             PROVE  \/ Abstract!Submit(j) \/ Abstract!Send(j)
                    \/ Abstract!Settle(j) \/ Abstract!Forget(j)
                    \/ Abstract!Keep(j)
  BY DEF Abstract!Next
<1>1. JobStep(j)
  BY JobSteps
<1>2. CASE sent'[j] # sent[j]
  <2>1. row[j].status = "running" /\ row' = row /\ sent'[j] # {}
    BY <1>2, SendSteps
  <2> QED
    BY <2>1 DEF Abstract!Send, Phase, Settled
<1>3. CASE sent'[j] = sent[j]
  <2>1. row[j].status = "none" => sent[j] = {}
    BY DEF HolderInv, SentInv, ClaimInv, UnusedIsBlank
  <2> QED
    BY <1>1, <1>3, <2>1
       DEF JobStep, Phase, Settled, Waiting, Abstract!Submit, Abstract!Send,
           Abstract!Settle, Abstract!Forget, Abstract!Keep
<1> QED
  BY <1>2, <1>3

\* The queue and its workers implement the abstract lifecycle of a job.
THEOREM WorkerImplementsLifecycle ==
  ASSUME Undisturbed PROVE Spec => ImplementsLifecycle
<1>1. HolderInv /\ [Next]_vars => [Abstract!Next]_(Abstract!vars)
  BY LifecycleStep DEF Undisturbed
<1> QED
  BY <1>1, LifecycleInit, HolderInvInvariant, PTL
     DEF Spec, ImplementsLifecycle, Abstract!Spec
=============================================================================
