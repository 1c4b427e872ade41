---------------------------- MODULE AccountProofs ----------------------------
(***************************************************************************)
(* Proofs about module Account, for any limit of logins and any number of  *)
(* secrets, names, processes and faults.                                   *)
(***************************************************************************)
EXTENDS Account, FiniteSetTheorems, TLAPS

\* What a process may have left to do, beside the lists of Account.
Comparing == <<"CompareSecrets">>
Recording == <<"RecordLoginFailure">>
Opening == <<"CreateSession">>
Activating == <<"Activate", "ClearPending">>
Clearing == <<"ClearPending">>
Saving == <<"SaveSettings">>
Marking == <<"RecordReset", "RemoveFile">>
Removing == <<"RemoveFile">>

Todos ==
  {<<>>, AuthLogin, Comparing, Rejected, Recording, Accepted, Opening, TotpVerify, Activating,
   Clearing, TotpDisable, SetupSubmit, Saving, ResetSubmit, Marking, Removing}

Requests ==
  [todo : Todos, keys : SUBSET SetupKeys, count : 0..MaxAttempts \cup {None},
   key : Secrets \cup {None}, name : Names \cup {None}]

\* What a request has read, and what was there when it began, still holds.
RequestOK(r) ==
  /\ r \in Requests
  /\ r.todo = Recording => r.count \in 0..MaxAttempts
  /\ r.todo = Activating => r.key \in proven
  /\ r.todo = SetupSubmit => r.name \in Names /\ r.keys = SetupKeys
  /\ r.todo = Saving => personas # {} /\ SetupKeys \ r.keys \subseteq settings
  /\ r.todo \in {AuthLogin, Comparing} => Complete
  /\ r.todo \in {Accepted, Opening} => {"password_hash", "setup_complete"} \subseteq settings
  /\ r.todo \in {Marking, Removing} => ~wanted

DataOK ==
  /\ settings \subseteq SetupKeys /\ personas \subseteq Names
  /\ fails \in 0..MaxAttempts /\ locked \in BOOLEAN /\ session \in BOOLEAN
  /\ secret \in Secrets \cup {None} /\ pending \in Secrets \cup {None}
  /\ resetFile \in {"none", "new", "spent"} /\ faults \in 0..MaxFaults
  /\ guesses \in Nat /\ proven \subseteq Secrets /\ wanted \in BOOLEAN /\ cut \in BOOLEAN

SetupOK ==
  /\ Complete => personas # {}
  /\ Complete /\ ~cut => settings = SetupKeys \/ \E q \in Procs : run[q].todo = Saving
  /\ session => {"password_hash", "setup_complete"} \subseteq settings

AccountInv ==
  /\ run \in [Procs -> Requests]
  /\ \A q \in Procs : RequestOK(run[q])
  /\ DataOK /\ SetupOK /\ ActiveSecretIsProven /\ ResetIsNotLost

-----------------------------------------------------------------------------
(* The lists.                                                              *)

\* Each begins with another statement.
LEMMA Heads ==
  /\ Head(AuthLogin) = "CheckLock" /\ Head(Comparing) = "CompareSecrets"
  /\ Head(Rejected) = "GetLoginAttempt" /\ Head(Recording) = "RecordLoginFailure"
  /\ Head(Accepted) = "ClearLoginAttempts" /\ Head(Opening) = "CreateSession"
  /\ Head(TotpVerify) = "GetPending" /\ Head(Activating) = "Activate"
  /\ Head(Clearing) = "ClearPending" /\ Head(TotpDisable) = "Deactivate"
  /\ Head(SetupSubmit) = "CreatePersona" /\ Head(Saving) = "SaveSettings"
  /\ Head(ResetSubmit) = "StorePassword" /\ Head(Marking) = "RecordReset"
  /\ Head(Removing) = "RemoveFile"
BY DEF AuthLogin, Comparing, Rejected, Recording, Accepted, Opening, TotpVerify, Activating,
       Clearing, TotpDisable, SetupSubmit, Saving, ResetSubmit, Marking, Removing

LEMMA NoneIsEmpty == <<>> \notin Todos \ {<<>>} /\ \A l \in {AuthLogin, Comparing, Rejected,
  Recording, Accepted, Opening, TotpVerify, Activating, Clearing, TotpDisable, SetupSubmit,
  Saving, ResetSubmit, Marking, Removing} : l # <<>>
BY DEF AuthLogin, Comparing, Rejected, Recording, Accepted, Opening, TotpVerify, Activating,
       Clearing, TotpDisable, SetupSubmit, Saving, ResetSubmit, Marking, Removing

LEMMA Rests ==
  /\ Len(AuthLogin) # 1 /\ Tail(AuthLogin) = Comparing
  /\ Len(Rejected) # 1 /\ Tail(Rejected) = Recording
  /\ Len(Accepted) # 1 /\ Tail(Accepted) = Opening
  /\ Len(TotpVerify) # 1 /\ Tail(TotpVerify) = Activating
  /\ Len(Activating) # 1 /\ Tail(Activating) = Clearing
  /\ Len(TotpDisable) # 1 /\ Tail(TotpDisable) = Clearing
  /\ Len(SetupSubmit) # 1 /\ Tail(SetupSubmit) = Saving
  /\ Len(ResetSubmit) # 1 /\ Tail(ResetSubmit) = Marking
  /\ Len(Marking) # 1 /\ Tail(Marking) = Removing
  /\ Len(Saving) = 1
BY DEF AuthLogin, Comparing, Rejected, Recording, Accepted, Opening, TotpVerify, Activating,
       Clearing, TotpDisable, SetupSubmit, Saving, ResetSubmit, Marking, Removing

\* So the statement a process is at tells its list.
LEMMA Positions ==
  ASSUME NEW q \in Procs, run[q].todo \in Todos
  PROVE  /\ At(q, "CheckLock") <=> run[q].todo = AuthLogin
         /\ At(q, "CompareSecrets") <=> run[q].todo = Comparing
         /\ At(q, "GetLoginAttempt") <=> run[q].todo = Rejected
         /\ At(q, "RecordLoginFailure") <=> run[q].todo = Recording
         /\ At(q, "ClearLoginAttempts") <=> run[q].todo = Accepted
         /\ At(q, "CreateSession") <=> run[q].todo = Opening
         /\ At(q, "GetPending") <=> run[q].todo = TotpVerify
         /\ At(q, "Activate") <=> run[q].todo = Activating
         /\ At(q, "ClearPending") <=> run[q].todo = Clearing
         /\ At(q, "Deactivate") <=> run[q].todo = TotpDisable
         /\ At(q, "CreatePersona") <=> run[q].todo = SetupSubmit
         /\ At(q, "SaveSettings") <=> run[q].todo = Saving
         /\ At(q, "StorePassword") <=> run[q].todo = ResetSubmit
         /\ At(q, "RecordReset") <=> run[q].todo = Marking
         /\ At(q, "RemoveFile") <=> run[q].todo = Removing
BY Heads, NoneIsEmpty DEF At, Todos

LEMMA TurnedIs ==
  ASSUME NEW r \in Requests, NEW todo \in Todos
  PROVE  /\ Turned(r, todo) \in Requests /\ Turned(r, todo).todo = todo
         /\ Turned(r, todo).keys = r.keys /\ Turned(r, todo).count = r.count
         /\ Turned(r, todo).key = r.key /\ Turned(r, todo).name = r.name
BY DEF Turned, Request, Requests

LEMMA RestOfRequest ==
  ASSUME NEW r \in Requests
  PROVE  /\ r.todo = AuthLogin => Rest(r) = Turned(r, Comparing)
         /\ r.todo = Accepted => Rest(r) = Turned(r, Opening)
         /\ r.todo \in {Activating, TotpDisable} => Rest(r) = Turned(r, Clearing)
         /\ r.todo = SetupSubmit => Rest(r) = Turned(r, Saving)
         /\ r.todo = ResetSubmit => Rest(r) = Turned(r, Marking)
         /\ r.todo = Marking => Rest(r) = Turned(r, Removing)
         /\ r.todo = Saving => Rest(r) = Idle
BY Rests DEF Rest

\* Most lists need nothing.
LEMMA PlainOK ==
  ASSUME NEW s \in Requests,
         s.todo \in {<<>>, Rejected, TotpVerify, Clearing, TotpDisable, ResetSubmit}
  PROVE  RequestOK(s) /\ RequestOK(s)'
BY Heads, NoneIsEmpty DEF RequestOK

LEMMA IdleOK ==
  /\ Idle \in Requests /\ Idle.todo = <<>> /\ Idle.keys = {} /\ Idle.key = None
  /\ RequestOK(Idle) /\ RequestOK(Idle)'
<1>1. Idle \in Requests /\ Idle.todo = <<>> /\ Idle.keys = {} /\ Idle.key = None
  BY DEF Idle, Request, Requests, Todos
<1> QED
  BY <1>1, PlainOK

-----------------------------------------------------------------------------
(* What one request does leaves the others as they are.                    *)

LEMMA Others ==
  ASSUME AccountInv, NEW q \in Procs, NEW s \in Requests, Becomes(q, s), RequestOK(s)',
         settings \subseteq settings', personas \subseteq personas', proven \subseteq proven',
         wanted' => wanted
  PROVE  /\ run' \in [Procs -> Requests] /\ run'[q] = s
         /\ \A p \in Procs \ {q} : run'[p] = run[p]
         /\ \A p \in Procs : RequestOK(run[p])'
<1>1. run' \in [Procs -> Requests] /\ run'[q] = s /\ \A p \in Procs \ {q} : run'[p] = run[p]
  BY DEF AccountInv, Becomes
<1>2. ASSUME NEW p \in Procs \ {q} PROVE RequestOK(run[p])'
  <2>1. run'[p] = run[p] /\ RequestOK(run[p])
    BY <1>1 DEF AccountInv
  <2> QED
    BY <2>1 DEF RequestOK, Complete
<1>3. RequestOK(run[q])'
  BY <1>1 DEF RequestOK, Complete
<1> QED
  BY <1>1, <1>2, <1>3

\* A step that does not save settings of the set-up.
LEMMA OtherSteps ==
  ASSUME AccountInv, NEW q \in Procs, NEW s \in Requests, Becomes(q, s), RequestOK(s)', DataOK',
         settings \subseteq settings', Complete' => Complete,
         personas \subseteq personas', proven \subseteq proven', wanted' => wanted, cut => cut',
         run[q].todo = Saving => cut',
         session' => session \/ {"password_hash", "setup_complete"} \subseteq settings,
         ActiveSecretIsProven', ResetIsNotLost'
  PROVE  AccountInv'
<1>1. Complete' /\ ~cut' => settings' = SetupKeys \/ \E p \in Procs : run'[p].todo = Saving
  <2> SUFFICES ASSUME Complete', ~cut', settings' # SetupKeys
               PROVE  \E p \in Procs : run'[p].todo = Saving
    OBVIOUS
  <2>1. settings # SetupKeys
    BY DEF DataOK
  <2>2. PICK p \in Procs : run[p].todo = Saving
    BY <2>1 DEF AccountInv, SetupOK
  <2> QED
    BY <2>2, Others
<1>2. SetupOK'
  BY <1>1 DEF AccountInv, SetupOK
<1> QED
  BY <1>2, Others DEF AccountInv

LEMMA FaultCounted == ASSUME DataOK, Fault PROVE faults' \in 0..MaxFaults
BY LimitsArePositive DEF DataOK, Fault

-----------------------------------------------------------------------------
(* The statements.                                                         *)

LEMMA CheckLockStep == ASSUME AccountInv, NEW q \in Procs, CheckLock(q) PROVE AccountInv'
<1> USE DEF AccountInv
<1>1. run[q].todo = AuthLogin /\ run[q] \in Requests /\ Complete
  BY Positions DEF CheckLock, RequestOK, Requests
<1>2. UNCHANGED <<settings, personas, secret, pending, fails, locked, session, resetFile>>
      /\ UNCHANGED <<guesses, proven, wanted, cut>> /\ (UNCHANGED faults \/ Fault)
  BY DEF CheckLock, rows, login, history
<1>3. DataOK' /\ ActiveSecretIsProven' /\ ResetIsNotLost' /\ run[q].todo # Saving
  BY <1>1, <1>2, FaultCounted, Heads DEF DataOK, ActiveSecretIsProven, ResetIsNotLost
<1> PICK s : s = Turned(run[q], Comparing)
  OBVIOUS
<1>4. s \in Requests /\ s.todo = Comparing /\ (Becomes(q, s) \/ Becomes(q, Idle))
  BY <1>1, TurnedIs, RestOfRequest DEF CheckLock, GoOn, Return, Todos
<1>5. RequestOK(s)'
  BY <1>1, <1>2, <1>4, Heads DEF RequestOK, Complete
<1>6. CASE Becomes(q, s)
  BY <1>2, <1>3, <1>4, <1>5, <1>6, OtherSteps DEF Complete
<1>7. CASE Becomes(q, Idle)
  BY <1>2, <1>3, <1>7, IdleOK, OtherSteps DEF Complete
<1> QED
  BY <1>4, <1>6, <1>7

LEMMA CompareSecretsStep ==
  ASSUME AccountInv, NEW q \in Procs, CompareSecrets(q) PROVE AccountInv'
<1> USE DEF AccountInv
<1>1. run[q].todo = Comparing /\ run[q] \in Requests /\ Complete
  BY Positions DEF CompareSecrets, RequestOK, Requests
<1>2. UNCHANGED <<settings, personas, secret, pending, fails, locked, session, resetFile>>
      /\ UNCHANGED <<guesses, proven, wanted, cut, faults>>
  BY DEF CompareSecrets, rows, login, history
<1>3. DataOK' /\ ActiveSecretIsProven' /\ ResetIsNotLost' /\ run[q].todo # Saving
  BY <1>1, <1>2, Heads DEF DataOK, ActiveSecretIsProven, ResetIsNotLost
<1>4. ASSUME NEW next \in {Rejected, Accepted}, "password_hash" \in settings,
             Becomes(q, Turned(run[q], next))
      PROVE  AccountInv'
  <2> PICK s : s = Turned(run[q], next)
    OBVIOUS
  <2>1. s \in Requests /\ s.todo = next
    BY <1>1, TurnedIs DEF Todos
  <2>2. RequestOK(s)'
    BY <1>1, <1>2, <1>4, <2>1, Heads DEF RequestOK, Complete
  <2> QED
    BY <1>2, <1>3, <1>4, <2>1, <2>2, OtherSteps DEF Complete
<1>5. CASE Becomes(q, Idle)
  BY <1>2, <1>3, <1>5, IdleOK, OtherSteps DEF Complete
<1> QED
  BY <1>4, <1>5 DEF CompareSecrets, Return

LEMMA GetLoginAttemptStep ==
  ASSUME AccountInv, NEW q \in Procs, GetLoginAttempt(q) PROVE AccountInv'
<1> USE DEF AccountInv
<1>1. run[q].todo = Rejected /\ run[q] \in Requests
  BY Positions DEF GetLoginAttempt, Requests
<1>2. UNCHANGED <<settings, personas, secret, pending, fails, locked, session, resetFile>>
      /\ UNCHANGED <<guesses, proven, wanted, cut>> /\ (UNCHANGED faults \/ Fault)
  BY DEF GetLoginAttempt, rows, login, history
<1>3. DataOK' /\ ActiveSecretIsProven' /\ ResetIsNotLost' /\ run[q].todo # Saving
  BY <1>1, <1>2, FaultCounted, Heads DEF DataOK, ActiveSecretIsProven, ResetIsNotLost
<1>4. PICK count \in {fails, 0} : Read(q, count, None)
  BY DEF GetLoginAttempt
<1>5. count \in 0..MaxAttempts
  BY LimitsArePositive DEF DataOK
<1> PICK s : s = Request(Recording, run[q].keys, count, None, run[q].name)
  OBVIOUS
<1>6. s \in Requests /\ s.todo = Recording /\ s.count = count /\ Becomes(q, s)
  BY <1>1, <1>4, <1>5, Rests DEF Read, Request, Requests, Todos
<1>7. RequestOK(s)'
  BY <1>5, <1>6, Heads DEF RequestOK
<1> QED
  BY <1>2, <1>3, <1>6, <1>7, OtherSteps DEF Complete

LEMMA RecordLoginFailureStep ==
  ASSUME AccountInv, NEW q \in Procs, RecordLoginFailure(q) PROVE AccountInv'
<1> USE DEF AccountInv
<1>1. run[q].todo = Recording /\ run[q].count \in 0..MaxAttempts
  BY Positions DEF RecordLoginFailure, RequestOK, Requests
<1>2. UNCHANGED <<settings, personas, secret, pending, session, resetFile, proven, wanted, cut>>
      /\ Becomes(q, Idle)
  BY DEF RecordLoginFailure, rows, Return
<1>3. DataOK'
  <2>1. fails' \in 0..MaxAttempts /\ guesses' \in Nat
    BY LimitsArePositive DEF DataOK, RecordLoginFailure, CountUp
  <2>2. locked' \in BOOLEAN
    <3>1. locked' \in {locked, run[q].count + 1 >= MaxAttempts}
      BY Zenon DEF RecordLoginFailure
    <3>2. (run[q].count + 1 >= MaxAttempts) \in BOOLEAN
      OBVIOUS
    <3> QED
      BY <3>1, <3>2, Zenon DEF DataOK
  <2>3. faults' \in 0..MaxFaults
    BY FaultCounted DEF RecordLoginFailure, DataOK
  <2> QED
    BY <1>2, <2>1, <2>2, <2>3 DEF DataOK
<1>4. ActiveSecretIsProven' /\ ResetIsNotLost' /\ run[q].todo # Saving
  BY <1>1, <1>2, Heads DEF ActiveSecretIsProven, ResetIsNotLost
<1> QED
  BY <1>2, <1>3, <1>4, IdleOK, OtherSteps DEF Complete

LEMMA ClearLoginAttemptsStep ==
  ASSUME AccountInv, NEW q \in Procs, ClearLoginAttempts(q) PROVE AccountInv'
<1> USE DEF AccountInv
<1>1. run[q].todo = Accepted /\ run[q] \in Requests
      /\ {"password_hash", "setup_complete"} \subseteq settings
  BY Positions DEF ClearLoginAttempts, RequestOK, Requests
<1>2. UNCHANGED <<settings, personas, secret, pending, session, resetFile, proven, wanted, cut>>
  BY DEF ClearLoginAttempts, rows
<1>3. DataOK'
  <2>1. fails' \in 0..MaxAttempts /\ guesses' \in Nat
    BY LimitsArePositive DEF DataOK, ClearLoginAttempts
  <2>2. locked' \in BOOLEAN
    BY Zenon DEF DataOK, ClearLoginAttempts
  <2>3. faults' \in 0..MaxFaults
    BY FaultCounted DEF ClearLoginAttempts, DataOK
  <2> QED
    BY <1>2, <2>1, <2>2, <2>3 DEF DataOK
<1>4. ActiveSecretIsProven' /\ ResetIsNotLost' /\ run[q].todo # Saving
  BY <1>1, <1>2, Heads DEF ActiveSecretIsProven, ResetIsNotLost
<1> PICK s : s = Turned(run[q], Opening)
  OBVIOUS
<1>5. s \in Requests /\ s.todo = Opening /\ Becomes(q, s)
  BY <1>1, TurnedIs, RestOfRequest DEF ClearLoginAttempts, GoOn, Todos
<1>6. RequestOK(s)'
  BY <1>1, <1>2, <1>5, Heads DEF RequestOK, Complete
<1> QED
  BY <1>2, <1>3, <1>4, <1>5, <1>6, OtherSteps DEF Complete

LEMMA CreateSessionStep ==
  ASSUME AccountInv, NEW q \in Procs, CreateSession(q) PROVE AccountInv'
<1> USE DEF AccountInv
<1>1. run[q].todo = Opening /\ {"password_hash", "setup_complete"} \subseteq settings
  BY Positions DEF CreateSession, RequestOK, Requests
<1>2. UNCHANGED <<settings, personas, secret, pending, fails, locked, resetFile>>
      /\ UNCHANGED <<guesses, proven, wanted, cut>> /\ Becomes(q, Idle)
      /\ session' \in {session, TRUE} /\ (UNCHANGED faults \/ Fault)
  BY DEF CreateSession, rows, history, Return
<1>3. DataOK' /\ ActiveSecretIsProven' /\ ResetIsNotLost' /\ run[q].todo # Saving
  BY <1>1, <1>2, FaultCounted, Heads DEF DataOK, ActiveSecretIsProven, ResetIsNotLost
<1> QED
  BY <1>1, <1>2, <1>3, IdleOK, OtherSteps DEF Complete

LEMMA GetPendingStep == ASSUME AccountInv, NEW q \in Procs, GetPending(q) PROVE AccountInv'
<1> USE DEF AccountInv
<1>1. run[q].todo = TotpVerify /\ run[q] \in Requests
  BY Positions DEF GetPending, Requests
<1>2. UNCHANGED <<settings, personas, secret, pending, fails, locked, session, resetFile>>
      /\ UNCHANGED <<guesses, wanted, cut, faults>>
  BY DEF GetPending, rows, login
<1>3. CASE Return(q) /\ UNCHANGED proven
  <2>1. DataOK' /\ ActiveSecretIsProven' /\ ResetIsNotLost' /\ run[q].todo # Saving
    BY <1>1, <1>2, <1>3, Heads DEF DataOK, ActiveSecretIsProven, ResetIsNotLost
  <2> QED
    BY <1>2, <1>3, <2>1, IdleOK, OtherSteps DEF Complete, Return
<1>4. CASE pending # None /\ Read(q, None, pending) /\ proven' = proven \cup {pending}
  <2>1. DataOK' /\ ActiveSecretIsProven' /\ ResetIsNotLost' /\ run[q].todo # Saving
        /\ pending \in Secrets
    BY <1>1, <1>2, <1>4, Heads DEF DataOK, ActiveSecretIsProven, ResetIsNotLost
  <2> PICK s : s = Request(Activating, run[q].keys, None, pending, run[q].name)
    OBVIOUS
  <2>2. s \in Requests /\ s.todo = Activating /\ s.key = pending /\ Becomes(q, s)
    BY <1>1, <1>4, <2>1, Rests DEF Read, Request, Requests, Todos
  <2>3. RequestOK(s)'
    BY <1>4, <2>2, Heads DEF RequestOK
  <2> QED
    BY <1>2, <1>4, <2>1, <2>2, <2>3, OtherSteps DEF Complete
<1> QED
  BY <1>3, <1>4 DEF GetPending

LEMMA ActivateStep == ASSUME AccountInv, NEW q \in Procs, Activate(q) PROVE AccountInv'
<1> USE DEF AccountInv
<1>1. run[q].todo = Activating /\ run[q] \in Requests /\ run[q].key \in proven
  BY Positions DEF Activate, RequestOK, Requests
<1>2. UNCHANGED <<settings, personas, pending, fails, locked, session, resetFile>>
      /\ UNCHANGED <<guesses, proven, wanted, cut>> /\ (UNCHANGED faults \/ Fault)
      /\ secret' \in {secret, run[q].key}
  BY DEF Activate, login, history
<1>3. DataOK' /\ ActiveSecretIsProven' /\ ResetIsNotLost' /\ run[q].todo # Saving
  BY <1>1, <1>2, FaultCounted, Heads DEF DataOK, ActiveSecretIsProven, ResetIsNotLost
<1> PICK s : s = Turned(run[q], Clearing)
  OBVIOUS
<1>4. s \in Requests /\ s.todo = Clearing /\ (Becomes(q, s) \/ Becomes(q, Idle))
  BY <1>1, TurnedIs, RestOfRequest DEF Activate, GoOn, Return, Todos
<1> QED
  BY <1>2, <1>3, <1>4, PlainOK, IdleOK, OtherSteps DEF Complete

LEMMA ClearPendingStep == ASSUME AccountInv, NEW q \in Procs, ClearPending(q) PROVE AccountInv'
<1> USE DEF AccountInv
<1>1. run[q].todo = Clearing
  BY Positions DEF ClearPending, Requests
<1>2. UNCHANGED <<settings, personas, secret, fails, locked, session, resetFile>>
      /\ UNCHANGED <<guesses, proven, wanted, cut>> /\ (UNCHANGED faults \/ Fault)
      /\ pending' \in {pending, None} /\ Becomes(q, Idle)
  BY DEF ClearPending, login, history, Return
<1>3. DataOK' /\ ActiveSecretIsProven' /\ ResetIsNotLost' /\ run[q].todo # Saving
  BY <1>1, <1>2, FaultCounted, Heads DEF DataOK, ActiveSecretIsProven, ResetIsNotLost
<1> QED
  BY <1>2, <1>3, IdleOK, OtherSteps DEF Complete

LEMMA DeactivateStep == ASSUME AccountInv, NEW q \in Procs, Deactivate(q) PROVE AccountInv'
<1> USE DEF AccountInv
<1>1. run[q].todo = TotpDisable /\ run[q] \in Requests
  BY Positions DEF Deactivate, Requests
<1>2. UNCHANGED <<settings, personas, pending, fails, locked, session, resetFile>>
      /\ UNCHANGED <<guesses, proven, wanted, cut>> /\ (UNCHANGED faults \/ Fault)
      /\ secret' \in {secret, None}
  BY DEF Deactivate, login, history
<1>3. DataOK' /\ ActiveSecretIsProven' /\ ResetIsNotLost' /\ run[q].todo # Saving
  BY <1>1, <1>2, FaultCounted, Heads DEF DataOK, ActiveSecretIsProven, ResetIsNotLost
<1> PICK s : s = Turned(run[q], Clearing)
  OBVIOUS
<1>4. s \in Requests /\ s.todo = Clearing /\ Becomes(q, s)
  BY <1>1, TurnedIs, RestOfRequest DEF Deactivate, GoOn, Todos
<1> QED
  BY <1>2, <1>3, <1>4, PlainOK, OtherSteps DEF Complete

LEMMA CreatePersonaStep ==
  ASSUME AccountInv, NEW q \in Procs, CreatePersona(q) PROVE AccountInv'
<1> USE DEF AccountInv
<1> DEFINE r == run[q]
<1>1. r.todo = SetupSubmit /\ r \in Requests /\ r.name \in Names /\ r.keys = SetupKeys
  BY Positions DEF CreatePersona, RequestOK, Requests
<1>2. UNCHANGED <<settings, secret, pending, fails, locked, session, resetFile>>
      /\ UNCHANGED <<guesses, proven, wanted, cut>> /\ (UNCHANGED faults \/ Fault)
      /\ personas' \in {personas, personas \cup {r.name}}
  BY DEF CreatePersona, login, history
<1>3. DataOK' /\ ActiveSecretIsProven' /\ ResetIsNotLost' /\ r.todo # Saving
  BY <1>1, <1>2, FaultCounted, Heads DEF DataOK, ActiveSecretIsProven, ResetIsNotLost
<1> PICK s : s = Turned(r, Saving)
  OBVIOUS
<1>4. s \in Requests /\ s.todo = Saving /\ s.keys = SetupKeys
      /\ ((Becomes(q, s) /\ personas' # {}) \/ Becomes(q, Idle))
  BY <1>1, TurnedIs, RestOfRequest DEF CreatePersona, GoOn, Return, Todos
<1>5. CASE Becomes(q, s) /\ personas' # {}
  <2>1. RequestOK(s)'
    BY <1>4, <1>5, Heads DEF RequestOK
  <2> QED
    BY <1>2, <1>3, <1>4, <1>5, <2>1, OtherSteps DEF Complete
<1>6. CASE Becomes(q, Idle)
  BY <1>2, <1>3, <1>6, IdleOK, OtherSteps DEF Complete
<1> QED
  BY <1>4, <1>5, <1>6

LEMMA SaveSettingsStep == ASSUME AccountInv, NEW q \in Procs, SaveSettings(q) PROVE AccountInv'
<1> USE DEF AccountInv
<1> DEFINE r == run[q]
<1>1. r.todo = Saving /\ r \in Requests /\ personas # {} /\ SetupKeys \ r.keys \subseteq settings
  BY Positions DEF SaveSettings, RequestOK, Requests
<1>2. UNCHANGED <<personas, secret, pending, fails, locked, session, resetFile>>
      /\ UNCHANGED <<guesses, proven, wanted>>
  BY DEF SaveSettings, login
<1>3. CASE Fault /\ Return(q) /\ cut' = TRUE /\ UNCHANGED settings
  <2>1. DataOK' /\ ActiveSecretIsProven' /\ ResetIsNotLost'
    BY <1>2, <1>3, FaultCounted DEF DataOK, ActiveSecretIsProven, ResetIsNotLost
  <2> QED
    BY <1>2, <1>3, <2>1, IdleOK, OtherSteps DEF Complete, Return
<1>4. ASSUME NEW k \in r.keys, settings' = settings \cup {k}, UNCHANGED <<faults, cut>>,
             IF r.keys = {k} THEN GoOn(q)
             ELSE Becomes(q, Request(r.todo, r.keys \ {k}, r.count, r.key, r.name))
      PROVE  AccountInv'
  <2>1. k \in SetupKeys /\ settings \subseteq settings'
    BY <1>1, <1>4 DEF Requests
  <2>2. DataOK' /\ ActiveSecretIsProven' /\ ResetIsNotLost'
    BY <1>2, <1>4, <2>1 DEF DataOK, ActiveSecretIsProven, ResetIsNotLost
  <2>3. PICK s \in Requests : /\ Becomes(q, s) /\ RequestOK(s)'
                              /\ s.todo = Saving \/ settings' = SetupKeys
    <3>1. CASE r.keys = {k}
      <4>1. Becomes(q, Idle)
        BY <1>1, <1>4, <3>1, RestOfRequest DEF GoOn
      <4>2. settings' = SetupKeys
        BY <1>1, <1>4, <2>1, <3>1 DEF DataOK
      <4> QED
        BY <4>1, <4>2, IdleOK
    <3>2. CASE r.keys # {k}
      <4> PICK s : s = Request(r.todo, r.keys \ {k}, r.count, r.key, r.name)
        OBVIOUS
      <4>1. s \in Requests /\ s.todo = Saving /\ s.keys = r.keys \ {k} /\ Becomes(q, s)
        BY <1>1, <1>4, <3>2 DEF Request, Requests
      <4>2. SetupKeys \ s.keys \subseteq settings'
        BY <1>1, <1>4, <4>1
      <4>3. RequestOK(s)'
        BY <1>1, <1>2, <4>1, <4>2, Heads DEF RequestOK
      <4> QED
        BY <4>1, <4>3
    <3> QED
      BY <3>1, <3>2
  <2>4. run' \in [Procs -> Requests] /\ run'[q] = s /\ \A p \in Procs : RequestOK(run[p])'
    BY <1>2, <2>1, <2>3, Others
  <2>5. SetupOK'
    BY <1>1, <1>2, <2>1, <2>3, <2>4 DEF SetupOK
  <2> QED
    BY <2>2, <2>4, <2>5
<1> QED
  BY <1>3, <1>4 DEF SaveSettings

LEMMA StorePasswordStep ==
  ASSUME AccountInv, NEW q \in Procs, StorePassword(q) PROVE AccountInv'
<1> USE DEF AccountInv
<1>1. run[q].todo = ResetSubmit /\ run[q] \in Requests
  BY Positions DEF StorePassword, Requests
<1>2. UNCHANGED <<personas, secret, pending, fails, locked, session, resetFile>>
      /\ UNCHANGED <<guesses, proven, cut>> /\ (UNCHANGED faults \/ Fault)
  BY DEF StorePassword, login
<1>3. \/ settings' = settings \cup {"password_hash"} /\ wanted' = FALSE /\ GoOn(q)
      \/ Return(q) /\ UNCHANGED <<settings, wanted>>
  BY DEF StorePassword
<1>4. DataOK'
  BY <1>2, <1>3, FaultCounted DEF DataOK, SetupKeys
<1>5. ActiveSecretIsProven' /\ ResetIsNotLost' /\ run[q].todo # Saving
  BY <1>1, <1>2, <1>3, Heads DEF ActiveSecretIsProven, ResetIsNotLost
<1>6. settings \subseteq settings' /\ (Complete' => Complete) /\ (wanted' => wanted)
  BY <1>3 DEF Complete
<1>7. CASE settings' = settings \cup {"password_hash"} /\ wanted' = FALSE /\ GoOn(q)
  <2> PICK s : s = Turned(run[q], Marking)
    OBVIOUS
  <2>1. s \in Requests /\ s.todo = Marking /\ Becomes(q, s)
    BY <1>1, <1>7, TurnedIs, RestOfRequest DEF GoOn, Todos
  <2>2. RequestOK(s)'
    BY <1>7, <2>1, Heads DEF RequestOK
  <2> QED
    BY <1>2, <1>4, <1>5, <1>6, <2>1, <2>2, OtherSteps
<1>8. CASE Return(q) /\ UNCHANGED <<settings, wanted>>
  BY <1>2, <1>4, <1>5, <1>6, <1>8, IdleOK, OtherSteps DEF Return
<1> QED
  BY <1>3, <1>7, <1>8

LEMMA RecordResetStep == ASSUME AccountInv, NEW q \in Procs, RecordReset(q) PROVE AccountInv'
<1> USE DEF AccountInv
<1>1. run[q].todo = Marking /\ run[q] \in Requests /\ ~wanted
  BY Positions DEF RecordReset, RequestOK, Requests
<1>2. UNCHANGED <<settings, personas, secret, pending, fails, locked, session>>
      /\ UNCHANGED <<guesses, proven, wanted, cut>> /\ (UNCHANGED faults \/ Fault)
      /\ resetFile' \in {resetFile, "spent"}
  BY DEF RecordReset, rows, login, history
<1>3. DataOK' /\ ActiveSecretIsProven' /\ ResetIsNotLost' /\ run[q].todo # Saving
  BY <1>1, <1>2, FaultCounted, Heads DEF DataOK, ActiveSecretIsProven, ResetIsNotLost
<1> PICK s : s = Turned(run[q], Removing)
  OBVIOUS
<1>4. s \in Requests /\ s.todo = Removing /\ (Becomes(q, s) \/ Becomes(q, Idle))
  BY <1>1, TurnedIs, RestOfRequest DEF RecordReset, GoOn, Return, Todos
<1>5. RequestOK(s)'
  BY <1>1, <1>2, <1>4, Heads DEF RequestOK
<1> QED
  BY <1>2, <1>3, <1>4, <1>5, IdleOK, OtherSteps DEF Complete

LEMMA RemoveFileStep == ASSUME AccountInv, NEW q \in Procs, RemoveFile(q) PROVE AccountInv'
<1> USE DEF AccountInv
<1>1. run[q].todo = Removing /\ ~wanted
  BY Positions DEF RemoveFile, RequestOK, Requests
<1>2. UNCHANGED <<settings, personas, secret, pending, fails, locked, session>>
      /\ UNCHANGED <<guesses, proven, wanted, cut>> /\ (UNCHANGED faults \/ Fault)
      /\ resetFile' \in {resetFile, "none"} /\ Becomes(q, Idle)
  BY DEF RemoveFile, rows, login, history, Return
<1>3. DataOK' /\ ActiveSecretIsProven' /\ ResetIsNotLost' /\ run[q].todo # Saving
  BY <1>1, <1>2, FaultCounted, Heads DEF DataOK, ActiveSecretIsProven, ResetIsNotLost
<1> QED
  BY <1>2, <1>3, IdleOK, OtherSteps DEF Complete

LEMMA StatementStep == ASSUME AccountInv, NEW q \in Procs, Statement(q) PROVE AccountInv'
BY CheckLockStep, CompareSecretsStep, GetLoginAttemptStep, RecordLoginFailureStep,
   ClearLoginAttemptsStep, CreateSessionStep, GetPendingStep, ActivateStep, ClearPendingStep,
   DeactivateStep, CreatePersonaStep, SaveSettingsStep, StorePasswordStep, RecordResetStep,
   RemoveFileStep DEF Statement

-----------------------------------------------------------------------------
(* Requests, and what happens beside them.                                 *)

\* A request begins.
LEMMA BeginStep ==
  ASSUME AccountInv, NEW q \in Procs, NEW s \in Requests, run[q] = Idle, Becomes(q, s),
         UNCHANGED <<rows, login, resetFile, history>>, UNCHANGED faults \/ Fault,
         \/ s.todo = AuthLogin /\ Complete
         \/ s.todo \in {TotpVerify, TotpDisable, ResetSubmit}
         \/ s.todo = SetupSubmit /\ s.name \in Names /\ s.keys = SetupKeys
  PROVE  AccountInv'
<1> USE DEF AccountInv
<1>1. UNCHANGED <<settings, personas, secret, pending, fails, locked, session, resetFile>>
      /\ UNCHANGED <<guesses, proven, wanted, cut>>
  BY DEF rows, login, history
<1>2. DataOK' /\ ActiveSecretIsProven' /\ ResetIsNotLost' /\ run[q].todo # Saving
  BY <1>1, FaultCounted, IdleOK, NoneIsEmpty DEF DataOK, ActiveSecretIsProven, ResetIsNotLost
<1>3. RequestOK(s)'
  BY <1>1, Heads, PlainOK DEF RequestOK, Complete
<1> QED
  BY <1>1, <1>2, <1>3, OtherSteps DEF Complete

LEMMA CallStep ==
  ASSUME AccountInv, NEW q \in Procs,
         \/ CallLogin(q) \/ CallVerify(q) \/ CallDisable(q) \/ CallReset(q)
         \/ \E name \in Names : CallSetup(q, name)
  PROVE  AccountInv'
<1>1. ASSUME NEW todo \in {AuthLogin, TotpVerify, TotpDisable, ResetSubmit},
             todo = AuthLogin => Complete, run[q] = Idle, Becomes(q, Turned(Idle, todo)),
             UNCHANGED <<rows, login, resetFile, history>>, UNCHANGED faults \/ Fault
      PROVE  AccountInv'
  <2> PICK s : s = Turned(Idle, todo)
    OBVIOUS
  <2>1. s \in Requests /\ s.todo = todo
    BY IdleOK, TurnedIs DEF Todos
  <2> QED
    BY <1>1, <2>1, BeginStep
<1>2. CASE CallLogin(q) \/ CallVerify(q) \/ CallDisable(q) \/ CallReset(q)
  <2>1. PICK todo \in {AuthLogin, TotpVerify, TotpDisable, ResetSubmit} :
          /\ todo = AuthLogin => Complete
          /\ run[q] = Idle /\ Becomes(q, Turned(Idle, todo))
          /\ UNCHANGED <<rows, login, resetFile, history>> /\ (UNCHANGED faults \/ Fault)
    BY <1>2, Heads DEF CallLogin, CallVerify, CallDisable, CallReset, Begin
  <2> QED
    BY <1>1, <2>1
<1>3. ASSUME NEW name \in Names, CallSetup(q, name) PROVE AccountInv'
  <2> PICK s : s = Request(SetupSubmit, SetupKeys, None, None, name)
    OBVIOUS
  <2>1. s \in Requests /\ s.todo = SetupSubmit /\ s.name = name /\ s.keys = SetupKeys
    BY DEF Request, Requests, Todos
  <2> QED
    BY <1>3, <2>1, BeginStep DEF CallSetup
<1> QED
  BY <1>2, <1>3

LEMMA KillStep == ASSUME AccountInv, NEW q \in Procs, Kill(q) PROVE AccountInv'
<1> USE DEF AccountInv
<1>1. UNCHANGED <<settings, personas, secret, pending, fails, locked, session, resetFile>>
      /\ UNCHANGED <<guesses, proven, wanted>> /\ Fault /\ Becomes(q, Idle)
  BY DEF Kill, rows, login, Return
<1>2. cut' \in {TRUE, cut} /\ (cut => cut') /\ (run[q].todo = Saving => cut')
  <2>1. At(q, "SaveSettings") <=> run[q].todo = Saving
    BY Positions DEF Requests
  <2>2. cut \in BOOLEAN
    BY DEF DataOK
  <2> QED
    BY <2>1, <2>2 DEF Kill, At
<1>3. DataOK' /\ ActiveSecretIsProven' /\ ResetIsNotLost'
  BY <1>1, <1>2, FaultCounted DEF DataOK, ActiveSecretIsProven, ResetIsNotLost
<1> QED
  BY <1>1, <1>2, <1>3, IdleOK, OtherSteps DEF Complete

\* What leaves all processes as they are.
LEMMA StillStep ==
  ASSUME AccountInv, UNCHANGED <<settings, personas, run, cut>>, DataOK', session' => session,
         \A q \in Procs : run[q].todo = Activating => run[q].key \in proven',
         wanted' => \A q \in Procs : run[q].todo \notin {Marking, Removing},
         ActiveSecretIsProven', ResetIsNotLost'
  PROVE  AccountInv'
<1> USE DEF AccountInv
<1>1. ASSUME NEW q \in Procs PROVE RequestOK(run[q])'
  <2>1. RequestOK(run[q])
    OBVIOUS
  <2> QED
    BY <2>1 DEF RequestOK, Complete
<1>2. SetupOK'
  BY DEF SetupOK, Complete
<1> QED
  BY <1>1, <1>2

LEMMA CallTotpSetupStep ==
  ASSUME AccountInv, NEW k \in Secrets, CallTotpSetup(k) PROVE AccountInv'
<1> USE DEF AccountInv
<1>1. /\ UNCHANGED <<settings, personas, secret, fails, locked, session, resetFile>>
      /\ UNCHANGED <<run, faults, guesses, wanted, cut>>
      /\ k # secret /\ (\A q \in Procs : run[q].key # k) /\ pending' = k /\ proven' = proven \ {k}
  BY DEF CallTotpSetup, login
<1>2. DataOK' /\ ActiveSecretIsProven' /\ ResetIsNotLost'
  BY <1>1 DEF DataOK, ActiveSecretIsProven, ResetIsNotLost
<1> QED
  BY <1>1, <1>2, StillStep DEF RequestOK

LEMMA WriteResetFileStep == ASSUME AccountInv, WriteResetFile PROVE AccountInv'
<1> USE DEF AccountInv
<1>1. /\ UNCHANGED <<settings, personas, secret, pending, fails, locked, session>>
      /\ UNCHANGED <<run, faults, guesses, proven, cut>>
      /\ resetFile' = "new" /\ wanted' = TRUE
  BY DEF WriteResetFile, rows, login
<1>2. \A q \in Procs : run[q].todo \notin {Marking, Removing}
  BY Positions DEF WriteResetFile, Requests
<1>3. DataOK' /\ ActiveSecretIsProven' /\ ResetIsNotLost'
  BY <1>1 DEF DataOK, ActiveSecretIsProven, ResetIsNotLost
<1> QED
  BY <1>1, <1>2, <1>3, StillStep DEF RequestOK

LEMMA OtherEvents ==
  ASSUME AccountInv, SessionEnds \/ LockExpires \/ UNCHANGED vars PROVE AccountInv'
<1> USE DEF AccountInv
<1>1. /\ UNCHANGED <<settings, personas, secret, pending, resetFile, run, faults>>
      /\ UNCHANGED <<fails, proven, wanted, cut>>
  BY DEF SessionEnds, LockExpires, vars, rows, login, history
<1>2. locked' \in BOOLEAN /\ session' \in BOOLEAN /\ guesses' \in Nat /\ (session' => session)
  <2>1. CASE SessionEnds
    BY <2>1 DEF SessionEnds, login, history, DataOK
  <2>2. CASE LockExpires
    BY <2>2 DEF LockExpires, DataOK
  <2>3. CASE UNCHANGED vars
    BY <2>3 DEF vars, login, history, DataOK
  <2> QED
    BY <2>1, <2>2, <2>3
<1>3. DataOK' /\ ActiveSecretIsProven' /\ ResetIsNotLost'
  BY <1>1, <1>2 DEF DataOK, ActiveSecretIsProven, ResetIsNotLost
<1> QED
  BY <1>1, <1>2, <1>3, StillStep DEF RequestOK

LEMMA AccountInvInit == Init => AccountInv
<1> SUFFICES ASSUME Init PROVE AccountInv
  OBVIOUS
<1>1. run \in [Procs -> Requests] /\ \A q \in Procs : RequestOK(run[q])
  BY IdleOK DEF Init
<1>2. DataOK
  <2>1. locked \in BOOLEAN /\ session \in BOOLEAN /\ wanted \in BOOLEAN /\ cut \in BOOLEAN
    BY Zenon DEF Init
  <2>2. fails \in 0..MaxAttempts /\ faults \in 0..MaxFaults /\ guesses \in Nat
    BY LimitsArePositive DEF Init
  <2> QED
    BY <2>1, <2>2 DEF Init, DataOK
<1>3. SetupOK /\ ActiveSecretIsProven /\ ResetIsNotLost
  BY DEF Init, SetupOK, Complete, ActiveSecretIsProven, ResetIsNotLost
<1> QED
  BY <1>1, <1>2, <1>3 DEF AccountInv

LEMMA AccountInvStep == AccountInv /\ [Next]_vars => AccountInv'
BY StatementStep, CallStep, KillStep, CallTotpSetupStep, WriteResetFileStep, OtherEvents DEF Next

LEMMA AccountInvInvariant == Spec => []AccountInv
BY AccountInvInit, AccountInvStep, PTL DEF Spec

-----------------------------------------------------------------------------
(* What the runs check.                                                    *)

\* Every variable keeps its type, and a request that is about to record a failure or
\* to activate a secret has read a count or a secret before.
THEOREM AccountTypes == Spec => []TypeOK
<1>1. ASSUME AccountInv PROVE TypeOK
  <2>1. ASSUME NEW q \in Procs
        PROVE  /\ run[q].keys \subseteq SetupKeys
               /\ At(q, "RecordLoginFailure") => run[q].count \in 0..MaxAttempts
               /\ At(q, "Activate") => run[q].key \in Secrets
    BY <1>1, Positions DEF AccountInv, RequestOK, Requests, DataOK
  <2> QED
    BY <1>1, <2>1 DEF AccountInv, DataOK, TypeOK
<1> QED
  BY <1>1, AccountInvInvariant, PTL

\* However set-ups overlap, fail or are killed, setup_complete is stored only after a
\* persona, the settings are whole unless one was cut short, and sessions begin only
\* in a server that is set up (handleSetupSubmit, rpcAuthLogin).
THEOREM SetupsAreWhole == Spec => []SetupIsWhole
<1>1. AccountInv => SetupIsWhole
  BY Positions DEF AccountInv, SetupOK, SetupIsWhole, Requests
<1> QED
  BY <1>1, AccountInvInvariant, PTL

\* The secret in totp_secret is one that a code was accepted for, although another
\* totp.setup may replace the pending one while totp.verify is under way.
THEOREM ActiveSecretsAreProven == Spec => []ActiveSecretIsProven
<1>1. AccountInv => ActiveSecretIsProven
  BY DEF AccountInv
<1> QED
  BY <1>1, AccountInvInvariant, PTL

\* A reset that is cut short before it stored the password leaves murlog.reset as new as
\* it was, so that it can be repeated (handleResetSubmit).
THEOREM ResetsAreNotLost == Spec => []ResetIsNotLost
<1>1. AccountInv => ResetIsNotLost
  BY DEF AccountInv
<1> QED
  BY <1>1, AccountInvInvariant, PTL

-----------------------------------------------------------------------------
(* Guesses.  Logins that have read a low count will unlock the client, each *)
(* once; the others that are past the lock will be rejected, each once.     *)

LowRead(r) == r.todo = Recording /\ r.count + 1 < MaxAttempts
PastLock(r) == r.todo \in {Comparing, Rejected, Recording} /\ ~LowRead(r)

Low == {q \in Procs : LowRead(run[q])}
High == {q \in Procs : PastLock(run[q])}

Size == Cardinality(Procs)

\* Twice what l logins that have read a low count will allow for: Size - l + 1
\* rejections until the first of them has unlocked, one more until the next.
Credit(l) == l * (2 * Size - l + 1)

Total == 2 * MaxAttempts - 2 + Credit(Size - 1)

Counted(failed, lock, rejected, l, h) ==
  IF failed + 1 < MaxAttempts THEN rejected <= failed
  ELSE /\ l < Size
       /\ ~lock => 2 * rejected + Credit(l) <= Total
       /\ lock /\ l > 0 => 2 * rejected + 2 * h + 2 + Credit(l - 1) <= Total

GuessInv == faults = 0 => Counted(fails, locked, guesses, Cardinality(Low), Cardinality(High))

LEMMA SizeIsPositive == Size \in Nat \ {0}
BY SomeProcesses, FS_CardinalityType, FS_EmptySet DEF Size

LEMMA CreditFacts ==
  ASSUME NEW l \in 0..Size
  PROVE  /\ Credit(l) \in Nat
         /\ l < Size => Credit(l) <= Credit(Size - 1)
         /\ l > 0 => Credit(l) = Credit(l - 1) + 2 * (Size - l + 1)
         /\ Total \in Nat /\ Credit(0) = 0 /\ (l < Size => Credit(l) <= Total)
<1>1. Size \in Nat /\ Size > 0 /\ l \in Nat /\ l <= Size
  BY SizeIsPositive
<1>2. Credit(l) \in Nat
  BY <1>1 DEF Credit
<1>3. l < Size => Credit(l) <= Credit(Size - 1)
  <2> SUFFICES ASSUME l < Size PROVE Credit(l) <= Credit(Size - 1)
    OBVIOUS
  <2>1. PICK d \in Nat : l = Size - 1 - d
    <3>1. Size - 1 - l \in Nat /\ l = Size - 1 - (Size - 1 - l)
      BY <1>1
    <3> QED
      BY <3>1
  <2>2. Credit(Size - 1) - Credit(l) = 3 * d + d * d
    BY <1>1, <2>1 DEF Credit
  <2> QED
    BY <1>1, <1>2, <2>1, <2>2 DEF Credit
<1>4. l > 0 => Credit(l) = Credit(l - 1) + 2 * (Size - l + 1)
  BY <1>1 DEF Credit
<1>5. Total \in Nat /\ Credit(0) = 0
  BY <1>1, LimitsArePositive DEF Total, Credit
<1>6. l < Size => Credit(l) <= Total
  BY <1>1, <1>2, <1>3, <1>5, LimitsArePositive DEF Total, Credit
<1> QED
  BY <1>2, <1>3, <1>4, <1>5, <1>6

\* How a step of one request moves it between the two.
LEMMA Moves ==
  ASSUME AccountInv, NEW q \in Procs, NEW s \in Requests, Becomes(q, s)
  PROVE  /\ Low' = IF LowRead(s) THEN Low \cup {q} ELSE Low \ {q}
         /\ High' = IF PastLock(s) THEN High \cup {q} ELSE High \ {q}
         /\ q \in Low <=> LowRead(run[q])
         /\ q \in High <=> PastLock(run[q])
<1>1. run'[q] = s /\ \A p \in Procs \ {q} : run'[p] = run[p]
  BY DEF AccountInv, Becomes
<1>2. ASSUME NEW p \in Procs
      PROVE  /\ p \in Low' <=> IF p = q THEN LowRead(s) ELSE p \in Low
             /\ p \in High' <=> IF p = q THEN PastLock(s) ELSE p \in High
  BY <1>1 DEF Low, High, LowRead, PastLock
<1>3. Low \subseteq Procs /\ High \subseteq Procs /\ Low' \subseteq Procs /\ High' \subseteq Procs
  BY DEF Low, High
<1>4. (q \in Low <=> LowRead(run[q])) /\ (q \in High <=> PastLock(run[q]))
  BY DEF Low, High
<1>5. Low' = IF LowRead(s) THEN Low \cup {q} ELSE Low \ {q}
  BY <1>2, <1>3
<1>6. High' = IF PastLock(s) THEN High \cup {q} ELSE High \ {q}
  BY <1>2, <1>3
<1> QED
  BY <1>4, <1>5, <1>6

LEMMA Numbers ==
  /\ IsFiniteSet(Low) /\ IsFiniteSet(High)
  /\ Cardinality(Low) \in Nat /\ Cardinality(High) \in Nat
  /\ Cardinality(Low) + Cardinality(High) <= Size
<1>1. Low \subseteq Procs /\ High \subseteq Procs /\ Low \cap High = {}
  BY DEF Low, High, PastLock
<1>2. IsFiniteSet(Low) /\ IsFiniteSet(High) /\ IsFiniteSet(Low \cup High)
  BY <1>1, SomeProcesses, FS_Subset
<1>3. Cardinality(Low \cup High) <= Size
  BY <1>1, SomeProcesses, FS_Subset DEF Size
<1>4. Cardinality(Low) \in Nat /\ Cardinality(High) \in Nat
  BY <1>2, FS_CardinalityType
<1>5. Cardinality(Low \cup High) = Cardinality(Low) + Cardinality(High)
  BY <1>1, <1>2, <1>4, FS_Union, FS_EmptySet
<1> QED
  BY <1>2, <1>3, <1>4, <1>5

\* The same of the next state.
LEMMA NumbersNext ==
  ASSUME AccountInv, NEW q \in Procs, NEW s \in Requests, Becomes(q, s)
  PROVE  /\ Cardinality(Low') = IF LowRead(s) THEN IF q \in Low THEN Cardinality(Low) ELSE Cardinality(Low) + 1
                                ELSE IF q \in Low THEN Cardinality(Low) - 1 ELSE Cardinality(Low)
         /\ Cardinality(High') = IF PastLock(s) THEN IF q \in High THEN Cardinality(High) ELSE Cardinality(High) + 1
                                 ELSE IF q \in High THEN Cardinality(High) - 1 ELSE Cardinality(High)
BY Moves, Numbers, FS_AddElement, FS_RemoveElement

\* What a rejected login does to the numbers: one that has read a low count, and
\* another.
LEMMA LowRejected ==
  ASSUME NEW failed \in 0..MaxAttempts, NEW lock, NEW rejected \in Nat,
         NEW l \in Nat, NEW h \in Nat, l > 0, l <= Size,
         Counted(failed, lock, rejected, l, h)
  PROVE  Counted(CountUp(failed), FALSE, rejected + 1, l - 1, h)
<1>1. Size \in Nat /\ MaxAttempts \in Nat /\ MaxAttempts > 0 /\ failed \in Nat
  BY SizeIsPositive, LimitsArePositive
<1>2. Credit(l) \in Nat /\ Credit(l - 1) \in Nat /\ Credit(l) = Credit(l - 1) + 2 * (Size - l + 1)
      /\ Credit(l - 1) <= Credit(Size - 1) /\ Total \in Nat
  <2>1. l \in 0..Size /\ l - 1 \in 0..Size /\ l - 1 < Size
    BY <1>1
  <2> QED
    BY <2>1, CreditFacts
<1>3. Credit(Size - 1) = Total - 2 * MaxAttempts + 2 /\ Credit(Size - 1) \in Nat
  <2>1. Credit(Size - 1) \in Nat
    BY <1>1, CreditFacts
  <2> QED
    BY <1>1, <2>1 DEF Total
<1> QED
  BY <1>1, <1>2, <1>3 DEF Counted, CountUp

LEMMA HighRejected ==
  ASSUME NEW failed \in 0..MaxAttempts, NEW lock, NEW rejected \in Nat,
         NEW l \in Nat, NEW h \in Nat, h > 0, l + h <= Size,
         Counted(failed, lock, rejected, l, h)
  PROVE  Counted(CountUp(failed), TRUE, rejected + 1, l, h - 1)
<1>1. Size \in Nat /\ MaxAttempts \in Nat /\ MaxAttempts > 0 /\ failed \in Nat
  BY SizeIsPositive, LimitsArePositive
<1>2. /\ l > 0 => Credit(l - 1) \in Nat /\ Credit(l) = Credit(l - 1) + 2 * (Size - l + 1)
      /\ Credit(l) \in Nat /\ Credit(l) <= Credit(Size - 1) /\ Total \in Nat
  <2>1. l \in 0..Size /\ l < Size /\ (l > 0 => l - 1 \in 0..Size)
    BY <1>1
  <2> QED
    BY <2>1, CreditFacts
<1>3. Credit(Size - 1) = Total - 2 * MaxAttempts + 2 /\ Credit(Size - 1) \in Nat
  <2>1. Credit(Size - 1) \in Nat
    BY <1>1, CreditFacts
  <2> QED
    BY <1>1, <2>1 DEF Total
<1> QED
  BY <1>1, <1>2, <1>3 DEF Counted, CountUp

\* Without a fault every step keeps the count.
LEMMA NoFault == ASSUME AccountInv, Fault PROVE faults' # 0
BY LimitsArePositive DEF AccountInv, DataOK, Fault

LEMMA Fewer ==
  ASSUME NEW failed, NEW lock, NEW rejected \in Nat, NEW l \in Nat, NEW h \in Nat, NEW k \in Nat, k <= h,
         Counted(failed, lock, rejected, l, h)
  PROVE  Counted(failed, lock, rejected, l, k)
<1>1. l > 0 /\ l < Size => Credit(l - 1) \in Nat /\ Total \in Nat
  BY SizeIsPositive, CreditFacts
<1> QED
  BY <1>1 DEF Counted

\* A step that rejects no login, lets none past the lock, and leaves none that
\* is about to be rejected.
LEMMA QuietStep ==
  ASSUME AccountInv, GuessInv, NEW q \in Procs, NEW s \in Requests, Becomes(q, s),
         UNCHANGED <<fails, locked, guesses>>, faults' = 0 => faults = 0,
         ~LowRead(s), PastLock(s) => PastLock(run[q]) \/ ~locked, ~LowRead(run[q])
  PROVE  GuessInv'
<1> SUFFICES ASSUME faults' = 0
             PROVE  Counted(fails, locked, guesses, Cardinality(Low'), Cardinality(High'))
  BY DEF GuessInv, Counted, Total, Credit, Size
<1>1. Counted(fails, locked, guesses, Cardinality(Low), Cardinality(High)) /\ guesses \in Nat
  BY DEF GuessInv, AccountInv, DataOK
<1>2. Cardinality(Low') = Cardinality(Low)
  BY Moves, NumbersNext
<1>3. CASE ~locked
  BY <1>1, <1>2, <1>3 DEF Counted
<1>4. CASE locked
  <2>1. Cardinality(High') \in Nat /\ Cardinality(High') <= Cardinality(High)
    <3>1. Cardinality(High) \in Nat /\ (q \in High => Cardinality(High) > 0)
      BY Numbers, FS_EmptySet
    <3> QED
      BY <1>4, <3>1, Moves, NumbersNext
  <2> QED
    BY <1>1, <1>2, <2>1, Numbers, Fewer
<1> QED
  BY <1>3, <1>4

\* What is neither about logins nor a request that begins.
LEMMA OtherMoves ==
  ASSUME AccountInv, NEW q \in Procs,
         \/ CreateSession(q) \/ GetPending(q) \/ Activate(q) \/ ClearPending(q) \/ Deactivate(q)
         \/ CreatePersona(q) \/ SaveSettings(q)
         \/ StorePassword(q) \/ RecordReset(q) \/ RemoveFile(q)
  PROVE  /\ UNCHANGED <<fails, locked, guesses>> /\ run[q].todo # Recording
         /\ \E s : Becomes(q, s) /\ s.todo \in {<<>>, Activating, Clearing, Saving, Marking, Removing}
<1> DEFINE r == run[q]
<1>1. r \in Requests /\ r.todo \in Todos
  BY DEF AccountInv, Requests
<1>2. /\ Turned(r, Clearing).todo = Clearing /\ Turned(r, Saving).todo = Saving
      /\ Turned(r, Marking).todo = Marking /\ Turned(r, Removing).todo = Removing
  BY DEF Turned, Request
<1>3. CASE CreateSession(q) \/ ClearPending(q) \/ RemoveFile(q)
  <2>1. Becomes(q, Idle) /\ r.todo \in {Opening, Clearing, Removing}
    BY <1>1, <1>3, Positions DEF CreateSession, ClearPending, RemoveFile, Return
  <2>2. UNCHANGED <<fails, locked, guesses>>
    BY <1>3 DEF CreateSession, ClearPending, RemoveFile, login, history
  <2> QED
    BY <2>1, <2>2, IdleOK, Heads
<1>4. CASE GetPending(q)
  <2>1. r.todo = TotpVerify /\ UNCHANGED <<fails, locked, guesses>>
    BY <1>1, <1>4, Positions DEF GetPending, login
  <2>2. CASE Return(q)
    BY <2>1, <2>2, IdleOK, Heads DEF Return
  <2>3. CASE Read(q, None, pending)
    <3> DEFINE s == Request(Activating, r.keys, None, pending, r.name)
    <3>1. Becomes(q, s) /\ s.todo = Activating
      BY <2>1, <2>3, Rests DEF Read, Request
    <3> QED
      BY <2>1, <3>1, Heads
  <2> QED
    BY <1>4, <2>2, <2>3 DEF GetPending
<1>5. CASE Activate(q) \/ Deactivate(q) \/ CreatePersona(q) \/ StorePassword(q) \/ RecordReset(q)
  <2>1. r.todo \in {Activating, TotpDisable, SetupSubmit, ResetSubmit, Marking}
    BY <1>1, <1>5, Positions DEF Activate, Deactivate, CreatePersona, StorePassword, RecordReset
  <2>2. UNCHANGED <<fails, locked, guesses>>
    BY <1>5 DEF Activate, Deactivate, CreatePersona, StorePassword, RecordReset, login, history
  <2>3. GoOn(q) \/ Return(q)
    BY <1>5 DEF Activate, Deactivate, CreatePersona, StorePassword, RecordReset
  <2>4. Rest(r).todo \in {Clearing, Saving, Marking, Removing}
    BY <1>1, <1>2, <2>1, RestOfRequest
  <2>5. \E s : Becomes(q, s) /\ s.todo \in {<<>>, Clearing, Saving, Marking, Removing}
    BY <2>3, <2>4, IdleOK DEF GoOn, Return
  <2> QED
    BY <2>1, <2>2, <2>5, Heads
<1>6. CASE SaveSettings(q)
  <2>1. r.todo = Saving /\ UNCHANGED <<fails, locked, guesses>>
    BY <1>1, <1>6, Positions DEF SaveSettings, login
  <2>2. \E s : Becomes(q, s) /\ s.todo \in {<<>>, Saving}
    <3>1. CASE Return(q) \/ GoOn(q)
      BY <1>1, <2>1, <3>1, RestOfRequest, IdleOK DEF Return, GoOn
    <3>2. ASSUME NEW k \in r.keys, Becomes(q, Request(r.todo, r.keys \ {k}, r.count, r.key, r.name))
          PROVE  \E s : Becomes(q, s) /\ s.todo \in {<<>>, Saving}
      BY <2>1, <3>2 DEF Request
    <3> QED
      BY <1>6, <3>1, <3>2 DEF SaveSettings
  <2> QED
    BY <2>1, <2>2, Heads
<1> QED
  BY <1>3, <1>4, <1>5, <1>6

LEMMA CallMoves ==
  ASSUME AccountInv, NEW q \in Procs,
         \/ CallLogin(q) \/ CallVerify(q) \/ CallDisable(q) \/ CallReset(q)
         \/ \E name \in Names : CallSetup(q, name)
  PROVE  /\ UNCHANGED <<fails, locked, guesses>> /\ run[q].todo # Recording
         /\ \E s : Becomes(q, s) /\ s.todo \in {AuthLogin, TotpVerify, TotpDisable, SetupSubmit, ResetSubmit}
<1>1. run[q] = Idle /\ UNCHANGED <<fails, locked, guesses>>
  BY DEF CallLogin, CallVerify, CallDisable, CallReset, CallSetup, Begin, login, history
<1>2. \A name : Request(SetupSubmit, SetupKeys, None, None, name).todo = SetupSubmit
  BY DEF Request
<1>3. \A todo : Turned(Idle, todo).todo = todo
  BY DEF Turned, Request
<1>4. \E s : Becomes(q, s) /\ s.todo \in {AuthLogin, TotpVerify, TotpDisable, SetupSubmit, ResetSubmit}
  BY <1>2, <1>3 DEF CallLogin, CallVerify, CallDisable, CallReset, CallSetup, Begin
<1> QED
  BY <1>1, <1>4, IdleOK, NoneIsEmpty

\* With no request before a login that is rejected, and none that is locked.
LEMMA FreshCount ==
  ASSUME NEW failed \in 0..MaxAttempts, NEW l \in Nat, NEW h, l < Size \/ failed + 1 < MaxAttempts
  PROVE  Counted(failed, FALSE, 0, l, h)
<1>1. l < Size => Credit(l) <= Total /\ Credit(l) \in Nat
  BY SizeIsPositive, CreditFacts
<1> QED
  BY <1>1, SizeIsPositive, LimitsArePositive DEF Counted

LEMMA GuessQuietStep ==
  ASSUME AccountInv, AccountInv', GuessInv, NEW q \in Procs, faults' = 0 => faults = 0,
         UNCHANGED <<fails, locked, guesses>>, run[q].todo # Recording,
         NEW s, Becomes(q, s), s.todo \notin {Comparing, Rejected, Recording}
  PROVE  GuessInv'
<1>1. s \in Requests
  BY DEF AccountInv, Becomes
<1> QED
  BY <1>1, QuietStep DEF LowRead, PastLock

LEMMA GuessLoginStep ==
  ASSUME AccountInv, GuessInv, NEW q \in Procs, faults' = 0,
         CheckLock(q) \/ CompareSecrets(q) \/ GetLoginAttempt(q)
  PROVE  GuessInv'
<1> USE DEF AccountInv
<1> DEFINE r == run[q]
<1>1. UNCHANGED <<fails, locked, guesses>> /\ faults = 0 /\ r \in Requests /\ r.todo \in Todos
  BY NoFault DEF CheckLock, CompareSecrets, GetLoginAttempt, login, history, Requests
<1>2. CASE Return(q)
  <2>1. r.todo \in {AuthLogin, Comparing, Rejected}
    BY <1>1, Positions DEF CheckLock, CompareSecrets, GetLoginAttempt
  <2> QED
    BY <1>1, <1>2, <2>1, IdleOK, NoneIsEmpty, Heads, QuietStep DEF Return, LowRead, PastLock
<1>3. CASE CheckLock(q) /\ ~Return(q)
  <2> PICK s : s = Turned(r, Comparing)
    OBVIOUS
  <2>1. r.todo = AuthLogin /\ ~locked /\ Becomes(q, s) /\ s \in Requests /\ s.todo = Comparing
    BY <1>1, <1>3, NoFault, Positions, TurnedIs, RestOfRequest DEF CheckLock, GoOn, Todos
  <2> QED
    BY <1>1, <2>1, Heads, QuietStep DEF LowRead, PastLock
<1>4. CASE CompareSecrets(q) /\ ~Return(q)
  <2>1. r.todo = Comparing
    BY <1>1, <1>4, Positions DEF CompareSecrets
  <2>2. PICK next \in {Rejected, Accepted} : Becomes(q, Turned(r, next))
    BY <1>4 DEF CompareSecrets
  <2> PICK s : s = Turned(r, next)
    OBVIOUS
  <2>3. s \in Requests /\ s.todo = next
    BY <1>1, TurnedIs DEF Todos
  <2> QED
    BY <1>1, <2>1, <2>2, <2>3, Heads, QuietStep DEF LowRead, PastLock
<1>5. CASE GetLoginAttempt(q)
  <2> PICK s : s = Request(Recording, r.keys, fails, None, r.name)
    OBVIOUS
  <2>1. r.todo = Rejected /\ Read(q, fails, None)
    BY <1>1, <1>5, NoFault, Positions DEF GetLoginAttempt
  <2>2. Becomes(q, s) /\ s \in Requests /\ s.todo = Recording /\ s.count = fails
    BY <1>1, <2>1, Rests DEF Read, Request, Requests, Todos, DataOK
  <2>3. CASE fails + 1 < MaxAttempts
    BY <1>1, <2>3 DEF GuessInv, Counted
  <2>4. CASE ~(fails + 1 < MaxAttempts)
    BY <1>1, <2>1, <2>2, <2>4, Heads, QuietStep DEF LowRead, PastLock
  <2> QED
    BY <2>3, <2>4
<1> QED
  BY <1>2, <1>3, <1>4, <1>5

LEMMA GuessRejectStep ==
  ASSUME AccountInv, GuessInv, NEW q \in Procs, faults' = 0, RecordLoginFailure(q)
  PROVE  GuessInv'
<1> USE DEF AccountInv
<1> DEFINE r == run[q]
           l == Cardinality(Low)
           h == Cardinality(High)
<1>1. r \in Requests /\ r.todo = Recording /\ r.count \in 0..MaxAttempts
  BY Positions DEF RecordLoginFailure, RequestOK, Requests
<1>2. /\ fails' = CountUp(fails) /\ locked' = (r.count + 1 >= MaxAttempts) /\ faults = 0
      /\ Becomes(q, Idle) /\ guesses' = guesses + 1
  BY NoFault DEF RecordLoginFailure, Return
<1>3. ~LowRead(Idle) /\ ~PastLock(Idle)
  BY IdleOK, NoneIsEmpty DEF LowRead, PastLock
<1>4. Counted(fails, locked, guesses, l, h) /\ fails \in 0..MaxAttempts /\ guesses \in Nat
      /\ l \in Nat /\ h \in Nat /\ l + h <= Size
  BY <1>2, Numbers DEF GuessInv, DataOK
<1>5. CASE LowRead(r)
  <2>1. ~(r.count + 1 >= MaxAttempts)
    BY <1>1, <1>5, LimitsArePositive DEF LowRead
  <2>2. q \in Low /\ q \notin High /\ ~locked'
    BY <1>2, <1>5, <2>1, Zenon DEF Low, High, PastLock
  <2>3. l > 0 /\ l <= Size
    BY <1>4, <2>2, Numbers, FS_EmptySet, SizeIsPositive
  <2>4. Cardinality(Low') = l - 1 /\ Cardinality(High') = h
    BY <1>2, <1>3, <2>2, IdleOK, NumbersNext
  <2>5. Counted(CountUp(fails), FALSE, guesses + 1, l - 1, h)
    BY <1>4, <2>3, LowRejected
  <2> QED
    BY <1>2, <2>2, <2>4, <2>5 DEF GuessInv, Counted, Total, Credit, Size
<1>6. CASE ~LowRead(r)
  <2>1. r.count + 1 >= MaxAttempts
    BY <1>1, <1>6, LimitsArePositive DEF LowRead
  <2>2. q \notin Low /\ q \in High /\ locked'
    BY <1>1, <1>2, <1>6, <2>1, Zenon DEF Low, High, PastLock
  <2>3. h > 0
    BY <1>4, <2>2, Numbers, FS_EmptySet
  <2>4. Cardinality(Low') = l /\ Cardinality(High') = h - 1
    BY <1>2, <1>3, <2>2, IdleOK, NumbersNext
  <2>5. Counted(CountUp(fails), TRUE, guesses + 1, l, h - 1)
    BY <1>4, <2>3, HighRejected
  <2> QED
    BY <1>2, <2>2, <2>4, <2>5 DEF GuessInv, Counted, Total, Credit, Size
<1> QED
  BY <1>5, <1>6

LEMMA GuessClearStep ==
  ASSUME AccountInv, AccountInv', GuessInv, NEW q \in Procs, faults' = 0, ClearLoginAttempts(q)
  PROVE  GuessInv'
<1>1. fails' = 0 /\ locked' = FALSE /\ guesses' = 0
  BY NoFault DEF ClearLoginAttempts
<1>2. Low' = {} \/ 0 + 1 < MaxAttempts
  <2> SUFFICES ASSUME ~(0 + 1 < MaxAttempts) PROVE Low' = {}
    OBVIOUS
  <2>1. \A p \in Procs : ~LowRead(run'[p])
    BY LimitsArePositive DEF AccountInv, RequestOK, LowRead
  <2> QED
    BY <2>1 DEF Low
<1>3. Cardinality(Low') \in Nat /\ (Low' = {} => Cardinality(Low') < Size)
  <2>1. Low' \subseteq Procs
    BY DEF Low
  <2> QED
    BY <2>1, SomeProcesses, FS_Subset, FS_CardinalityType, FS_EmptySet, SizeIsPositive
<1>4. Counted(0, FALSE, 0, Cardinality(Low'), Cardinality(High'))
  <2>1. 0 \in 0..MaxAttempts
    BY LimitsArePositive
  <2> QED
    BY <1>2, <1>3, <2>1, FreshCount
<1> QED
  BY <1>1, <1>4 DEF GuessInv, Counted, Total, Credit, Size

LEMMA GuessIdleStep ==
  ASSUME AccountInv, GuessInv, UNCHANGED run, UNCHANGED faults,
         \/ UNCHANGED <<fails, locked, guesses>>
         \/ UNCHANGED fails /\ locked' = FALSE /\ guesses' = 0
  PROVE  GuessInv'
<1> SUFFICES ASSUME faults = 0
             PROVE  Counted(fails', locked', guesses', Cardinality(Low), Cardinality(High))
  BY DEF GuessInv, Counted, Total, Credit, Size, Low, High, LowRead, PastLock
<1>1. Counted(fails, locked, guesses, Cardinality(Low), Cardinality(High)) /\ fails \in 0..MaxAttempts
  BY DEF GuessInv, AccountInv, DataOK
<1>2. CASE UNCHANGED <<fails, locked, guesses>>
  BY <1>1, <1>2
<1>3. CASE UNCHANGED fails /\ locked' = FALSE /\ guesses' = 0
  <2>1. Cardinality(Low) < Size \/ fails + 1 < MaxAttempts
    BY <1>1 DEF Counted
  <2>2. Counted(fails, FALSE, 0, Cardinality(Low), Cardinality(High))
    BY <1>1, <2>1, Numbers, FreshCount
  <2> QED
    BY <1>3, <2>2
<1> QED
  BY <1>2, <1>3

LEMMA GuessInvInit == Init => GuessInv
<1> SUFFICES ASSUME Init PROVE GuessInv
  OBVIOUS
<1>1. Low = {}
  BY IdleOK, NoneIsEmpty DEF Init, Low, LowRead
<1>2. Cardinality(Low) < Size /\ Cardinality(Low) \in Nat
  BY <1>1, SizeIsPositive, FS_EmptySet
<1>3. Counted(0, FALSE, 0, Cardinality(Low), Cardinality(High))
  <2>1. 0 \in 0..MaxAttempts
    BY LimitsArePositive
  <2> QED
    BY <1>2, <2>1, FreshCount
<1> QED
  BY <1>3 DEF Init, GuessInv

LEMMA GuessInvStep == AccountInv /\ AccountInv' /\ GuessInv /\ [Next]_vars => GuessInv'
<1> SUFFICES ASSUME AccountInv, AccountInv', GuessInv, [Next]_vars, faults' = 0 PROVE GuessInv'
  BY DEF GuessInv
<1>1. faults = 0 /\ ~Fault
  <2>1. ~Fault
    BY NoFault
  <2>2. UNCHANGED faults
    BY <2>1
       DEF Next, Statement, CheckLock, CompareSecrets, GetLoginAttempt, RecordLoginFailure,
           ClearLoginAttempts, CreateSession, GetPending, Activate, ClearPending, Deactivate,
           CreatePersona, SaveSettings, StorePassword, RecordReset, RemoveFile, Kill, CallLogin,
           CallVerify, CallDisable, CallReset, CallSetup, Begin, CallTotpSetup, SessionEnds,
           LockExpires, WriteResetFile, vars
  <2> QED
    BY <2>1, <2>2
<1>2. ASSUME NEW q \in Procs, Statement(q) PROVE GuessInv'
  <2>1. CASE CheckLock(q) \/ CompareSecrets(q) \/ GetLoginAttempt(q)
    BY <2>1, GuessLoginStep
  <2>2. CASE RecordLoginFailure(q)
    BY <2>2, GuessRejectStep
  <2>3. CASE ClearLoginAttempts(q)
    BY <2>3, GuessClearStep
  <2>4. CASE \/ CreateSession(q) \/ GetPending(q) \/ Activate(q) \/ ClearPending(q) \/ Deactivate(q)
             \/ CreatePersona(q) \/ SaveSettings(q)
             \/ StorePassword(q) \/ RecordReset(q) \/ RemoveFile(q)
    BY <1>1, <2>4, OtherMoves, GuessQuietStep, Heads, NoneIsEmpty
  <2> QED
    BY <1>2, <2>1, <2>2, <2>3, <2>4 DEF Statement
<1>3. ASSUME NEW q \in Procs,
             \/ CallLogin(q) \/ CallVerify(q) \/ CallDisable(q) \/ CallReset(q)
             \/ \E name \in Names : CallSetup(q, name)
      PROVE  GuessInv'
  BY <1>1, <1>3, CallMoves, GuessQuietStep, Heads
<1>4. ASSUME NEW q \in Procs, Kill(q) PROVE GuessInv'
  BY <1>1, <1>4 DEF Kill
<1>5. CASE (\E k \in Secrets : CallTotpSetup(k)) \/ SessionEnds \/ LockExpires \/ WriteResetFile
  BY <1>5, GuessIdleStep DEF CallTotpSetup, SessionEnds, LockExpires, WriteResetFile, login, history
<1>6. CASE UNCHANGED vars
  BY <1>6, GuessIdleStep DEF vars, login, history
<1> QED
  BY <1>2, <1>3, <1>4, <1>5, <1>6 DEF Next

\* Without faults, whatever the number of processes and the limit, the logins that are
\* rejected before the client is locked for good exceed the limit by Overshoot at
\* most: a bound on the race between GetLoginAttempt and RecordLoginFailure.
THEOREM GuessesAreBounded == Spec => []GuessesBounded
<1>1. ASSUME AccountInv, GuessInv PROVE GuessesBounded
  <2> SUFFICES ASSUME ~locked, faults = 0 PROVE guesses < MaxAttempts + Overshoot
    BY DEF GuessesBounded
  <2>1. Counted(fails, locked, guesses, Cardinality(Low), Cardinality(High)) /\ guesses \in Nat
        /\ fails \in 0..MaxAttempts
    BY <1>1 DEF AccountInv, GuessInv, DataOK
  <2>2. Size \in Nat /\ Size > 0 /\ MaxAttempts \in Nat
    BY SizeIsPositive, LimitsArePositive
  <2>3. PICK m : m = Size * (Size + 1) /\ m \in Nat /\ m >= 2 /\ Credit(Size - 1) = m - 2
    BY <2>2 DEF Credit
  <2>4. Overshoot = (m \div 2) - 1
    BY <2>3 DEF Overshoot, Size
  <2>5. fails + 1 < MaxAttempts \/ 2 * guesses <= 2 * MaxAttempts - 2 + m - 2
    BY <2>1, <2>2, <2>3, Numbers, CreditFacts DEF Counted, Total
  <2> QED
    BY <2>1, <2>2, <2>3, <2>4, <2>5 DEF Counted
<1> QED
  BY <1>1, AccountInvInit, AccountInvStep, GuessInvInit, GuessInvStep, PTL DEF Spec

=============================================================================
