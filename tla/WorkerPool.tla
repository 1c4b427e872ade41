----------------------------- MODULE WorkerPool -----------------------------
(***************************************************************************)
(* The semaphore of Worker.Run: a channel whose capacity follows the       *)
(* pressure of the queue.  To change the capacity the loop makes a new     *)
(* channel and assigns it to sem.  The goroutines release "<-sem", the     *)
(* variable, not the channel they acquired: one that outlives the change   *)
(* takes a token it did not put there, or waits for one that nobody puts.  *)
(* wg.Wait before the change is what rules that out.                       *)
(*                                                                         *)
(* Module Worker has one number of slots for each process; this module     *)
(* leaves out the queue and looks at how that number changes.              *)
(***************************************************************************)
EXTENDS Integers

CONSTANTS
  MinC, MaxC,       \* minConcurrency, maxConcurrency
  ReevalInterval,   \* concurrencyReevalInterval
  MaxGoroutines     \* bound on the goroutines that exist at a time

\* New gives the limits these properties.
ASSUME WorkerPoolAssumption ==
  /\ MinC \in Nat \ {0}
  /\ MaxC \in Nat
  /\ MinC <= MaxC
  /\ ReevalInterval \in Nat \ {0}
  /\ MaxGoroutines \in Nat

VARIABLES
  pc,             \* where the loop stands
  concurrency,    \* the capacity of sem
  newC,           \* what decideConcurrency returned
  sinceLastEval,
  tokens,         \* elements in the channel sem refers to now
  running,        \* goroutines between "sem <-" and "<-sem"
  ending,         \* goroutines between "<-sem" and wg.Done
  wg,             \* the counter of the WaitGroup
  cancelled       \* ctx is done

vars == <<pc, concurrency, newC, sinceLastEval, tokens, running, ending, wg,
          cancelled>>

-----------------------------------------------------------------------------
(* The loop claims; with a job it may resize and then acquires a slot for  *)
(* it; without one it may resize and then sleeps.                          *)

PCs == {"claim", "resizeForJob", "acquire", "resizeIdle", "sleep", "closing",
        "stopped"}

Init ==
  /\ pc = "claim"
  /\ concurrency = MinC
  /\ newC = MinC
  /\ sinceLastEval = 0
  /\ tokens = 0 /\ running = 0 /\ ending = 0 /\ wg = 0
  /\ cancelled = FALSE

pool == <<tokens, running, ending, wg>>

(* Wrong variants of definitions below, which no specification uses.       *)

\* The loop replaces the channel without waiting for the goroutines.
ResizeAtOnce ==
  /\ pc \in {"resizeForJob", "resizeIdle"}
  /\ concurrency' = newC
  /\ tokens' = 0
  /\ pc' = IF pc = "resizeForJob" THEN "acquire" ELSE "sleep"
  /\ UNCHANGED <<newC, sinceLastEval, running, ending, wg, cancelled>>

\* The middle level without its parentheses.
DecideUnparenthesised(c) == c \in {MinC, MinC + MaxC \div 2, MaxC}

\* The release is not deferred: a panic skips it.
ReleaseUnlessPanic ==
  /\ running > 0
  /\ tokens > 0
  /\ tokens' \in {tokens - 1, tokens}
  /\ running' = running - 1
  /\ ending' = ending + 1
  /\ UNCHANGED <<pc, concurrency, newC, sinceLastEval, wg, cancelled>>

-----------------------------------------------------------------------------

Levels == {MinC, (MinC + MaxC) \div 2, MaxC}

\* The level depends on the number of pending jobs, any number here; Stats
\* fails once the context is done.
DecideConcurrency(c) == c \in IF cancelled THEN {MinC} ELSE Levels

\* Claim returned a job.
ClaimJob ==
  /\ pc = "claim"
  /\ ~cancelled
  /\ IF sinceLastEval + 1 < ReevalInterval
     THEN /\ sinceLastEval' = sinceLastEval + 1
          /\ pc' = "acquire"
          /\ UNCHANGED newC
     ELSE /\ sinceLastEval' = 0
          /\ DecideConcurrency(newC')
          /\ pc' = IF newC' = concurrency THEN "acquire" ELSE "resizeForJob"
  /\ UNCHANGED <<concurrency, pool, cancelled>>

\* Claim returned no job, or an error.
ClaimNothing ==
  /\ pc = "claim"
  /\ sinceLastEval' = 0
  /\ DecideConcurrency(newC')
  /\ pc' = IF newC' = concurrency THEN "sleep" ELSE "resizeIdle"
  /\ UNCHANGED <<concurrency, pool, cancelled>>

\* wg.Wait returned: a new channel.
Resize ==
  /\ pc \in {"resizeForJob", "resizeIdle"}
  /\ wg = 0
  /\ concurrency' = newC
  /\ tokens' = 0
  /\ pc' = IF pc = "resizeForJob" THEN "acquire" ELSE "sleep"
  /\ UNCHANGED <<newC, sinceLastEval, running, ending, wg, cancelled>>

\* "sem <-", wg.Add(1), go func.
Acquire ==
  /\ pc = "acquire"
  /\ tokens < concurrency
  /\ wg < MaxGoroutines
  /\ tokens' = tokens + 1
  /\ wg' = wg + 1
  /\ running' = running + 1
  /\ pc' = "claim"
  /\ UNCHANGED <<concurrency, newC, sinceLastEval, ending, cancelled>>

\* A goroutine's deferred "<-sem": it waits while the channel is empty.
Release ==
  /\ running > 0
  /\ tokens > 0
  /\ tokens' = tokens - 1
  /\ running' = running - 1
  /\ ending' = ending + 1
  /\ UNCHANGED <<pc, concurrency, newC, sinceLastEval, wg, cancelled>>

\* Its deferred wg.Done, which runs after that.
Done ==
  /\ ending > 0
  /\ ending' = ending - 1
  /\ wg' = wg - 1
  /\ UNCHANGED <<pc, concurrency, newC, sinceLastEval, tokens, running, cancelled>>

WakeUp ==
  /\ pc = "sleep"
  /\ pc' = "claim"
  /\ UNCHANGED <<concurrency, newC, sinceLastEval, pool, cancelled>>

\* The select sees the end of the context.
Close ==
  /\ pc = "sleep"
  /\ cancelled
  /\ pc' = "closing"
  /\ UNCHANGED <<concurrency, newC, sinceLastEval, pool, cancelled>>

\* wg.Wait returned: Run returns.
Stop ==
  /\ pc = "closing"
  /\ wg = 0
  /\ pc' = "stopped"
  /\ UNCHANGED <<concurrency, newC, sinceLastEval, pool, cancelled>>

Cancel ==
  /\ ~cancelled
  /\ cancelled' = TRUE
  /\ UNCHANGED <<pc, concurrency, newC, sinceLastEval, pool>>

LoopStep == ClaimJob \/ ClaimNothing \/ Resize \/ Acquire \/ WakeUp \/ Stop

Next == LoopStep \/ Close \/ Release \/ Done \/ Cancel

Spec == Init /\ [][Next]_vars

\* Goroutines run, and handlers return.  The end of the context is ready at
\* once whenever the select is entered, the timer only after PollInterval:
\* strong fairness of Close.
FairSpec ==
  /\ Spec
  /\ WF_vars(LoopStep) /\ WF_vars(Release) /\ WF_vars(Done) /\ SF_vars(Close)

-----------------------------------------------------------------------------

TypeOK ==
  /\ pc \in PCs
  /\ concurrency \in MinC..MaxC
  /\ newC \in MinC..MaxC
  /\ sinceLastEval \in 0..(ReevalInterval - 1)
  /\ tokens \in Nat /\ running \in Nat /\ ending \in Nat /\ wg \in Nat
  /\ cancelled \in BOOLEAN

\* Across every change of the level, each goroutine that executes a job has
\* its own token in the channel it will release to, and the WaitGroup counts
\* the goroutines: the inductive invariant.
SlotsAccounted ==
  /\ tokens = running
  /\ wg = running + ending
  /\ tokens <= concurrency

\* Never more jobs are executed at a time than the present level allows, also
\* right after the level was lowered.
WithinLimit == running <= concurrency

\* A job that has been claimed gets a slot, whatever the level does meanwhile.
ClaimedJobRuns == pc \in {"resizeForJob", "acquire"} ~> pc = "claim"

\* After the signal, Run returns.
StopsWhenCancelled == cancelled ~> pc = "stopped"
=============================================================================
