------------------------------- MODULE Account -------------------------------
(***************************************************************************)
(* The account of the administrator: the second step of the set-up, logins *)
(* and their limit, sessions, TOTP and the reset of the password.  All of  *)
(* it is rows of the tables settings, personas, login_attempts and         *)
(* sessions, and one file.  As in Media a handler is a list of statements  *)
(* that are atomic one by one, in any process of the server.               *)
(***************************************************************************)
EXTENDS Naturals, Sequences, FiniteSets

CONSTANTS
  MaxAttempts,   \* loginMaxAttempts
  Secrets,       \* TOTP secrets
  Names,         \* usernames the set-up may be submitted with
  Procs,
  MaxFaults,     \* bound on kills and on errors of the database or the disk
  None

ASSUME LimitsArePositive == MaxAttempts \in Nat \ {0} /\ MaxFaults \in Nat

\* The server is at least one process.
ASSUME SomeProcesses == IsFiniteSet(Procs) /\ Procs # {}

SetupKeys == {"domain", "protocol", "password_hash", "setup_complete"}

VARIABLES
  settings,      \* keys of the set-up that have a value
  personas,      \* usernames of the personas
  fails,         \* fail_count of the client, counted up to MaxAttempts
  locked,        \* locked_until of the client is to come
  session,       \* there is a session that has not expired
  secret,        \* totp_secret
  pending,       \* totp_secret_pending
  resetFile,     \* "none", "new" for isResetMode, or "spent"
  run,           \* what each process is at
  faults,
  guesses,       \* history: rejected logins since the last success or unlocking
  proven,        \* history: secrets a code was accepted for
  wanted,        \* history: the file was written, and no password stored since
  cut            \* history: a set-up ended half-way

rows == <<settings, personas, secret, pending>>
login == <<fails, locked, session>>
history == <<guesses, proven, wanted, cut>>
vars == <<rows, login, resetFile, run, faults, history>>

(* Wrong variants of lists below, which no specification uses.             *)
RejectedUnread == <<"RecordLoginFailure">>
SettingsFirst == <<"SaveSettings", "CreatePersona">>
RecordFirst == <<"RecordReset", "StorePassword", "RemoveFile">>

\* The statements of the handlers, in their order; a login goes on as Rejected
\* or as Accepted.
AuthLogin == <<"CheckLock", "CompareSecrets">>
Rejected == <<"GetLoginAttempt", "RecordLoginFailure">>
Accepted == <<"ClearLoginAttempts", "CreateSession">>
TotpVerify == <<"GetPending", "Activate", "ClearPending">>
TotpDisable == <<"Deactivate", "ClearPending">>

SetupSubmit == <<"CreatePersona", "SaveSettings">>
ResetSubmit == <<"StorePassword", "RecordReset", "RemoveFile">>

\* A process: what is left to do, the settings to save, the count of failures
\* and the secret it has read, the name of the persona.
Request(todo, keys, count, key, name) ==
  [todo |-> todo, keys |-> keys, count |-> count, key |-> key, name |-> name]

Idle == Request(<<>>, {}, None, None, None)

At(q, statement) == run[q].todo # <<>> /\ Head(run[q].todo) = statement

TypeOK ==
  /\ settings \subseteq SetupKeys /\ personas \subseteq Names
  /\ fails \in 0..MaxAttempts /\ locked \in BOOLEAN /\ session \in BOOLEAN
  /\ secret \in Secrets \cup {None} /\ pending \in Secrets \cup {None}
  /\ resetFile \in {"none", "new", "spent"} /\ faults \in 0..MaxFaults
  /\ guesses \in Nat /\ proven \subseteq Secrets /\ wanted \in BOOLEAN /\ cut \in BOOLEAN
  /\ \A q \in Procs :
       /\ run[q].keys \subseteq SetupKeys
       /\ At(q, "RecordLoginFailure") => run[q].count \in 0..MaxAttempts
       /\ At(q, "Activate") => run[q].key \in Secrets

Init ==
  /\ settings = {} /\ personas = {} /\ secret = None /\ pending = None
  /\ fails = 0 /\ locked = FALSE /\ session = FALSE /\ resetFile = "none"
  /\ run = [q \in Procs |-> Idle] /\ faults = 0
  /\ guesses = 0 /\ proven = {} /\ wanted = FALSE /\ cut = FALSE

Complete == "setup_complete" \in settings

-----------------------------------------------------------------------------

Becomes(q, request) == run' = [run EXCEPT ![q] = request]

Return(q) == Becomes(q, Idle)

\* A request with another list of statements before it.
Turned(r, todo) == Request(todo, r.keys, r.count, r.key, r.name)

\* What is left of a request after its next statement.
Rest(r) == IF Len(r.todo) = 1 THEN Idle ELSE Turned(r, Tail(r.todo))

GoOn(q) == Becomes(q, Rest(run[q]))

Fault == faults < MaxFaults /\ faults' = faults + 1

Read(q, count, key) ==
  Becomes(q, Request(Tail(run[q].todo), run[q].keys, count, key, run[q].name))

CountUp(n) == IF n < MaxAttempts THEN n + 1 ELSE n

(* Wrong variants of statements below, which no specification uses.        *)

\* The count that was read is written, one higher.
RecordReadFailure(q) ==
  /\ At(q, "RecordLoginFailure") /\ Return(q)
  /\ fails' = CountUp(run[q].count) /\ locked' = (run[q].count + 1 >= MaxAttempts)
  /\ guesses' = guesses + 1
  /\ UNCHANGED <<rows, session, resetFile, faults, proven, wanted, cut>>

\* What is pending by now becomes active.
ActivatePending(q) ==
  /\ At(q, "Activate") /\ GoOn(q)
  /\ secret' = pending
  /\ UNCHANGED <<settings, personas, pending, login, resetFile, faults, history>>

-----------------------------------------------------------------------------
(* Logins.                                                                 *)

\* An error of the read is not looked at: there is no lock then.
CheckLock(q) ==
  /\ At(q, "CheckLock")
  /\ IF locked THEN (Return(q) /\ UNCHANGED faults) \/ (GoOn(q) /\ Fault)
     ELSE GoOn(q) /\ UNCHANGED faults
  /\ UNCHANGED <<rows, login, resetFile, history>>

\* The password, and the code if TOTP is on, are right, wrong or missing.
CompareSecrets(q) ==
  /\ At(q, "CompareSecrets")
  /\ \/ Return(q)
     \/ /\ "password_hash" \in settings
        /\ \E next \in {Rejected, Accepted} : Becomes(q, Turned(run[q], next))
  /\ UNCHANGED <<rows, login, resetFile, faults, history>>

GetLoginAttempt(q) ==
  /\ At(q, "GetLoginAttempt")
  /\ \/ Read(q, fails, None) /\ UNCHANGED faults
     \/ Read(q, 0, None) /\ Fault
  /\ UNCHANGED <<rows, login, resetFile, history>>

\* One upsert counts, and replaces locked_until by what the count that was read
\* calls for.
RecordLoginFailure(q) ==
  /\ At(q, "RecordLoginFailure") /\ Return(q)
  /\ \/ fails' = CountUp(fails) /\ locked' = (run[q].count + 1 >= MaxAttempts) /\ UNCHANGED faults
     \/ Fault /\ UNCHANGED <<fails, locked>>
  /\ guesses' = guesses + 1
  /\ UNCHANGED <<rows, session, resetFile, proven, wanted, cut>>

ClearLoginAttempts(q) ==
  /\ At(q, "ClearLoginAttempts") /\ GoOn(q)
  /\ \/ fails' = 0 /\ locked' = FALSE /\ guesses' = 0 /\ UNCHANGED faults
     \/ Fault /\ UNCHANGED <<fails, locked, guesses>>
  /\ UNCHANGED <<rows, session, resetFile, proven, wanted, cut>>

CreateSession(q) ==
  /\ At(q, "CreateSession") /\ Return(q)
  /\ \/ session' = TRUE /\ UNCHANGED faults
     \/ Fault /\ UNCHANGED session
  /\ UNCHANGED <<rows, fails, locked, resetFile, history>>

-----------------------------------------------------------------------------
(* TOTP.                                                                   *)

\* The code is checked against the pending secret.
GetPending(q) ==
  /\ At(q, "GetPending")
  /\ \/ Return(q) /\ UNCHANGED proven
     \/ pending # None /\ Read(q, None, pending) /\ proven' = proven \cup {pending}
  /\ UNCHANGED <<rows, login, resetFile, faults, guesses, wanted, cut>>

Activate(q) ==
  /\ At(q, "Activate")
  /\ \/ secret' = run[q].key /\ GoOn(q) /\ UNCHANGED faults
     \/ Return(q) /\ Fault /\ UNCHANGED secret
  /\ UNCHANGED <<settings, personas, pending, login, resetFile, history>>

\* Nobody looks at an error of the two statements below.
ClearPending(q) ==
  /\ At(q, "ClearPending") /\ Return(q)
  /\ (pending' = None /\ UNCHANGED faults) \/ (Fault /\ UNCHANGED pending)
  /\ UNCHANGED <<settings, personas, secret, login, resetFile, history>>

Deactivate(q) ==
  /\ At(q, "Deactivate") /\ GoOn(q)
  /\ (secret' = None /\ UNCHANGED faults) \/ (Fault /\ UNCHANGED secret)
  /\ UNCHANGED <<settings, personas, pending, login, resetFile, history>>

-----------------------------------------------------------------------------
(* Set-up and reset.                                                       *)

\* Usernames are UNIQUE.
CreatePersona(q) ==
  /\ At(q, "CreatePersona")
  /\ \/ /\ run[q].name \notin personas
        /\ personas' = personas \cup {run[q].name} /\ GoOn(q) /\ UNCHANGED faults
     \/ run[q].name \in personas /\ Return(q) /\ UNCHANGED <<personas, faults>>
     \/ Fault /\ Return(q) /\ UNCHANGED personas
  /\ UNCHANGED <<settings, secret, pending, login, resetFile, history>>

\* In the order of a Go map: any.
SaveSettings(q) ==
  LET r == run[q] IN
  /\ At(q, "SaveSettings")
  /\ \/ \E k \in r.keys :
          /\ settings' = settings \cup {k}
          /\ IF r.keys = {k} THEN GoOn(q)
             ELSE Becomes(q, Request(r.todo, r.keys \ {k}, r.count, r.key, r.name))
          /\ UNCHANGED <<faults, cut>>
     \/ Fault /\ Return(q) /\ cut' = TRUE /\ UNCHANGED settings
  /\ UNCHANGED <<personas, secret, pending, login, resetFile, guesses, proven, wanted>>

StorePassword(q) ==
  /\ At(q, "StorePassword")
  /\ \/ /\ settings' = settings \cup {"password_hash"}
        /\ wanted' = FALSE /\ GoOn(q) /\ UNCHANGED faults
     \/ Fault /\ Return(q) /\ UNCHANGED <<settings, wanted>>
  /\ UNCHANGED <<personas, secret, pending, login, resetFile, guesses, proven, cut>>

\* The time is recorded in whole seconds: a file of the same second stays new.
RecordReset(q) ==
  /\ At(q, "RecordReset")
  /\ \/ /\ resetFile' \in {resetFile, IF resetFile = "new" THEN "spent" ELSE resetFile}
        /\ GoOn(q) /\ UNCHANGED faults
     \/ Fault /\ Return(q) /\ UNCHANGED resetFile
  /\ UNCHANGED <<rows, login, history>>

RemoveFile(q) ==
  /\ At(q, "RemoveFile") /\ Return(q)
  /\ (resetFile' = "none" /\ UNCHANGED faults) \/ (Fault /\ UNCHANGED resetFile)
  /\ UNCHANGED <<rows, login, history>>

Statement(q) ==
  \/ CheckLock(q) \/ CompareSecrets(q) \/ GetLoginAttempt(q) \/ RecordLoginFailure(q)
  \/ ClearLoginAttempts(q) \/ CreateSession(q)
  \/ GetPending(q) \/ Activate(q) \/ ClearPending(q) \/ Deactivate(q)
  \/ CreatePersona(q) \/ SaveSettings(q)
  \/ StorePassword(q) \/ RecordReset(q) \/ RemoveFile(q)

-----------------------------------------------------------------------------
(* Requests.  Until the set-up is complete only /admin/ is served, and what *)
(* needs a session is refused without one.                                 *)

Begin(q, todo) ==
  /\ run[q] = Idle
  /\ Becomes(q, Turned(Idle, todo))
  /\ UNCHANGED <<rows, login, resetFile, faults, history>>

CallLogin(q) == Complete /\ Begin(q, AuthLogin)
CallVerify(q) == session /\ Begin(q, TotpVerify)
CallDisable(q) == session /\ Begin(q, TotpDisable)

\* An error of the read counts as a set-up that is not complete, and below as
\* no reset so far.
CallSetup(q, n) ==
  /\ run[q] = Idle
  /\ (~Complete /\ UNCHANGED faults) \/ (Complete /\ Fault)
  /\ Becomes(q, Request(SetupSubmit, SetupKeys, None, None, n))
  /\ UNCHANGED <<rows, login, resetFile, history>>

CallReset(q) ==
  /\ run[q] = Idle
  /\ (resetFile = "new" /\ UNCHANGED faults) \/ (resetFile = "spent" /\ Fault)
  /\ Becomes(q, Turned(Idle, ResetSubmit))
  /\ UNCHANGED <<rows, login, resetFile, history>>

\* totp.setup: a secret of its own replaces what was pending.
CallTotpSetup(k) ==
  /\ session
  /\ k \notin {secret, pending} \cup {run[q].key : q \in Procs}
  /\ pending' = k /\ proven' = proven \ {k}
  /\ UNCHANGED <<settings, personas, secret, login, resetFile, run, faults, guesses, wanted, cut>>

\* auth.logout, or the expiry of a session: others may be left.
SessionEnds ==
  /\ session /\ session' \in BOOLEAN
  /\ UNCHANGED <<rows, fails, locked, resetFile, run, faults, history>>

\* loginLockDuration is over.
LockExpires ==
  /\ locked /\ locked' = FALSE /\ guesses' = 0
  /\ UNCHANGED <<rows, fails, session, resetFile, run, faults, proven, wanted, cut>>

\* The administrator writes murlog.reset when no reset is under way.
WriteResetFile ==
  /\ \A q \in Procs : \A s \in {"StorePassword", "RecordReset", "RemoveFile"} : ~At(q, s)
  /\ resetFile' = "new" /\ wanted' = TRUE
  /\ UNCHANGED <<rows, login, run, faults, guesses, proven, cut>>

\* A CGI process is killed, or the machine stops.
Kill(q) ==
  /\ run[q] # Idle /\ Fault /\ Return(q)
  /\ cut' = (cut \/ At(q, "SaveSettings"))
  /\ UNCHANGED <<rows, login, resetFile, guesses, proven, wanted>>

Next ==
  \/ \E q \in Procs :
       \/ Statement(q) \/ Kill(q)
       \/ CallLogin(q) \/ CallVerify(q) \/ CallDisable(q) \/ CallReset(q)
       \/ \E n \in Names : CallSetup(q, n)
  \/ \E k \in Secrets : CallTotpSetup(k)
  \/ SessionEnds \/ LockExpires \/ WriteResetFile

Spec == Init /\ [][Next]_vars

-----------------------------------------------------------------------------
(* Properties.                                                             *)

\* A client that is not locked has had fewer than MaxAttempts logins rejected
\* since its last success or unlocking.  Of processes that handle logins at the
\* same time each may have read a low count and erase a lock once, after as many
\* of them as are free again have been rejected: Overshoot.
Overshoot == LET n == Cardinality(Procs) IN ((n * (n + 1)) \div 2) - 1

GuessesBounded == ~locked /\ faults = 0 => guesses < MaxAttempts + Overshoot

\* The set-up is complete only with a persona, whatever is cut short or repeated;
\* with none under way and none cut short it has all its settings; and nobody is
\* logged in to an account that has none.
SetupIsWhole ==
  /\ Complete => personas # {}
  /\ Complete /\ ~cut /\ (\A q \in Procs : ~At(q, "SaveSettings")) => settings = SetupKeys
  /\ session => {"password_hash", "setup_complete"} \subseteq settings

\* The secret that logins ask a code of is one the administrator has shown to
\* have: no other call makes an unverified one active.
ActiveSecretIsProven == secret # None => secret \in proven

\* A reset that is cut short before it stored a password can be repeated.
ResetIsNotLost == wanted => resetFile = "new"

=============================================================================
