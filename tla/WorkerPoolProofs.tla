-------------------------- MODULE WorkerPoolProofs --------------------------
(***************************************************************************)
(* Proofs about module WorkerPool, for every pair of limits.               *)
(***************************************************************************)
EXTENDS WorkerPool, TLAPS

\* Every level decideConcurrency returns lies between the limits.
LEMMA LevelsInRange == \A c \in Levels : c \in MinC..MaxC
<1>1. (MinC + MaxC) \div 2 \in MinC..MaxC
  BY WorkerPoolAssumption
<1> QED
  BY <1>1, WorkerPoolAssumption DEF Levels

LEMMA DecisionInRange ==
  ASSUME NEW c, DecideConcurrency(c) PROVE c \in MinC..MaxC
  BY LevelsInRange, WorkerPoolAssumption DEF DecideConcurrency

PoolInv == TypeOK /\ SlotsAccounted

LEMMA PoolInvInit == Init => PoolInv
<1> SUFFICES ASSUME Init PROVE PoolInv
  OBVIOUS
<1>1. MinC \in MinC..MaxC /\ 0 \in 0..(ReevalInterval - 1) /\ 0 <= MinC
  BY WorkerPoolAssumption
<1>2. TypeOK
  BY <1>1 DEF Init, TypeOK, PCs
<1>3. SlotsAccounted
  BY <1>1 DEF Init, SlotsAccounted
<1> QED
  BY <1>2, <1>3 DEF PoolInv

\* The step that matters is Resize: wg = 0 leaves no goroutine that could
\* hold a token of the channel that is given up.
LEMMA PoolInvStep == PoolInv /\ [Next]_vars => PoolInv'
<1> SUFFICES ASSUME PoolInv, [Next]_vars PROVE PoolInv'
  OBVIOUS
<1> USE WorkerPoolAssumption DEF PoolInv, TypeOK, SlotsAccounted, PCs, pool
<1>1. CASE ClaimJob
  <2>1. CASE sinceLastEval + 1 < ReevalInterval
    BY <1>1, <2>1 DEF ClaimJob
  <2>2. CASE ~(sinceLastEval + 1 < ReevalInterval)
    BY <1>1, <2>2, DecisionInRange DEF ClaimJob
  <2> QED
    BY <2>1, <2>2
<1>2. CASE ClaimNothing
  BY <1>2, DecisionInRange DEF ClaimNothing
<1>3. CASE Resize
  <2>1. running = 0 /\ ending = 0
    BY <1>3 DEF Resize
  <2> QED
    BY <1>3, <2>1 DEF Resize
<1>4. CASE Acquire
  BY <1>4 DEF Acquire
<1>5. CASE Release
  BY <1>5 DEF Release
<1>6. CASE Done
  BY <1>6 DEF Done
<1>7. CASE WakeUp \/ Close \/ Stop \/ Cancel \/ UNCHANGED vars
  BY <1>7 DEF WakeUp, Close, Stop, Cancel, vars
<1> QED
  BY <1>1, <1>2, <1>3, <1>4, <1>5, <1>6, <1>7 DEF Next, LoopStep

LEMMA PoolInvInvariant == Spec => []PoolInv
  BY PoolInvInit, PoolInvStep, PTL DEF Spec

\* Whatever decideConcurrency answers and whenever the context ends, the level
\* stays between the limits, no goroutine releases a token it has not got, and
\* the WaitGroup does not go below zero.
THEOREM PoolTypes == Spec => []TypeOK
<1>1. PoolInv => TypeOK
  BY DEF PoolInv
<1> QED
  BY <1>1, PoolInvInvariant, PTL

\* Tokens, goroutines and the WaitGroup agree through every change of level.
THEOREM SlotsAreAccounted == Spec => []SlotsAccounted
<1>1. PoolInv => SlotsAccounted
  BY DEF PoolInv
<1> QED
  BY <1>1, PoolInvInvariant, PTL

\* No more jobs are executed at a time than the present level allows.
THEOREM LimitIsKept == Spec => []WithinLimit
<1>1. PoolInv => WithinLimit
  BY DEF PoolInv, TypeOK, SlotsAccounted, WithinLimit
<1> QED
  BY <1>1, PoolInvInvariant, PTL
=============================================================================
