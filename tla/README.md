# murlog in TLA+

murlog is a single-user ActivityPub server: one Go binary that runs as a CGI
program, as `murlog serve`, or as a `murlog worker`, over one SQLite file. This
directory models the parts of it whose correctness depends on order, failure
and concurrency, checks them with TLC on small instances, and proves what
matters most with TLAPS for all instances.

## The system

Component | State | Operations | What makes it correct
--- | --- | --- | ---
Job queue (`queue/sqlqueue`) | table `queue_jobs`: status, attempts, next_run_at, payload | Enqueue, Claim, Complete, Fail, Dead, Retry, RecoverStale, Cleanup, CancelByDomain; each one SQL statement, RecoverStale two | a claim is exclusive; a job is not lost, not finished unsent, not revived; attempts are bounded
Worker (`worker/worker.go`) | the loops `Run` and `RunBatch`, one goroutine per claimed job, a semaphore | claim, execute, record the outcome, back off, recover from panics, clean up | at most one executor per job; every job is settled in the end; concurrency is bounded and never deadlocks
Processes (`cmd/murlog`) | the worker lock, spawned children | CGI request, `worker --once`, `worker`, `serve`, worker-tick | one `--once` worker at a time; due jobs find a worker
Fan-out and circuit breaker (`fanoutToFollowers`, `domain_failures`) | follower pages, failure counters per domain | enqueue one job per follower, skip dead domains | each follower gets one job, whatever starts over; a fan-out ends
Follow graph (`handler/activitypub.go`, `api_mur_follows.go`, `api_mur_blocks.go`) | follows, followers, blocks, cached counters | inbound Follow, Undo, Accept, Reject, Block, Delete; outbound follow, unfollow, approve, reject, block | both sides agree once messages settle; nobody blocked follows; counters match
Posts (`api_mur_posts.go`, `store/sqlite/post.go`) | posts, tags, pin, counters | create, edit, delete, pin, inbound Create, Update, Delete | what is deleted stays deleted; what is private is not shown
Interactions (`api_mur_interactions.go`) | favourites, reblogs, wrappers, notifications | like, reblog, their Undo, both directions | one row per actor and post; Undo takes back what was done
Media (`api_mur_media.go`) | attachment rows, files | upload, attach, delete, orphan clean-up | an attached file exists; an orphan goes away
Account (`api_mur_auth.go`, `api_mur_totp.go`, `reset.go`, `setup.go`) | failed attempts, lock, sessions, TOTP secret, reset file, settings, personas | login, logout, TOTP, reset, the two set-up steps | few guesses before a lock; the active TOTP secret is one the administrator has; a set-up or a reset that is cut short is repaired
Migrations, remote actor cache, identifiers, text parsing, signatures, RPC dispatch, SSR | | | see `PROJECT.json`, with the reason for each part left out

Components meet in the queue: every handler that has something to tell another
server enqueues a job in the request that changes the database, usually without
looking at the error, and a worker in the same or another process executes it
some time later, possibly more than once.

## Modules

Module | Models
--- | ---
`JobQueue` | `queue_jobs` and its statements. Operators constrain `row'` only; a caller adds its own variables
`Worker` | extends `JobQueue` with the loops, the executions and what disturbs them; states the properties
`JobLifecycle` | the abstract specification: what the queue promises a handler that enqueues a job
`WorkerInvariants` | inductive invariants, and the condition `Undisturbed`
`WorkerProofs` | the proofs
`MCWorker` | instances of `Worker` for TLC
`WorkerPool`, `WorkerPoolProofs` | the semaphore of `Run`, whose size follows the queue's pressure, and the proofs about it
`CgiSpawn` | extends `Worker` with the processes of a CGI installation: requests, spawned workers, `worker.lock`, ticks
`CgiSpawnProofs`, `MCCgiSpawn` | the proofs about it and its instances for TLC
`Fanout`, `FanoutProofs`, `MCFanout` | the jobs that tell every follower, page by page, their deliveries, and the circuit breaker
`FollowGraph`, `FollowGraphProofs`, `MCFollowGraph` | follows, followers, blocks and the cached counters of two servers
`Posts`, `PostsProofs`, `MCPosts` | a post, its copy on another server, and the edits, pins, favourites, reblogs, notifications and deletion of both
`Media`, `MediaProofs`, `MCMedia` | uploaded files and their rows
`Account`, `AccountProofs`, `MCAccount` | logins and their limit, sessions, TOTP, reset and set-up

`Worker` and `CgiSpawn` say how jobs are executed: possibly late, again, or
never. The modules of the handlers take this from them as the ways in which a
job may be executed there, and leave the queue out. None of them needs the
state of another: `Posts` has one follower, whom a fan-out reaches in one step,
and `Fanout` any number and no copies.

### The queue

`row[j]` is the row of job `j`: `status` with the five values of the code and
"none" and "deleted" for an identity without a row; `attempts`; `payload`,
whether the payload column still holds its document or was cleared by
`Complete`; and `due`, which is `next_run_at` minus the present in units of
30 s. Relative time turns every comparison with `now()` into one with 0 and
every retry delay into a number; the clock action `Elapse` moves all rows. The
code tells no two times apart below the stale cutoff except by the order in
which `Claim` takes jobs, so `due` stops one unit below it (`StaleTime`): jobs
that are older may be claimed in any order.

`Complete`, `Dead`, `Fail` and `Retry` have `WHERE id = ?` and nothing else,
and the model keeps that: they overwrite whatever status the row has. The two
statements of `RecoverStale` are two steps that share the cutoff computed
before the first.

### The worker

A process is one activation of a loop: `Run` (members of `Daemons`) or
`RunBatch` (the others: `worker --once`, worker-tick). An execution is a record
in `exec` from the claim to the last statement that records the outcome, with
the attempt number the claim returned. Its steps are the points between which
other processes run: waiting for the semaphore, the handler, the failure
counter, the outcome. `sent` is a history variable: the attempts of a job whose
activity left the server. A handler that fails may have sent it.

A statement of an execution whose context has ended does nothing; under the
fault "lostWrite" it may also fail before that, as `JobTimeout` and
`SQLITE_BUSY` make it. The writes of the recover() handlers have a context of
their own, and the model gives them one. `ClaimFails` is a `Claim` that returns an
error, with or without the row updated: the update and the reading of the row
are one statement, so a claim may be made that nobody executes. `Expire` is the
end of a context while `RunBatch` claims or waits, `HangUp` its end during
`RecoverStale`, which runs in the caller's context. `Crash` is the death of a
process at any point, which is also what `runServe` does to its worker when it
returns without waiting for it.

Faults are named in the constant `Faults`, so that each run says under which of
them its properties hold, and counted against `MaxDisturbances` where they
could go on for ever.

### The semaphore of Run

`WorkerPool` leaves out the queue and keeps what `Run` does to `sem`, `wg` and
`concurrency`. `tokens` is the number of elements in the channel `sem` refers to
at present: a goroutine releases `<-sem`, the variable, so after an assignment
to `sem` it would release to a channel it never acquired. A goroutine counts as
`running` until that receive and as `ending` until `wg.Done`. What
`decideConcurrency` returns depends on the number of pending jobs, which may be
anything: the action chooses one of the three levels. `MaxGoroutines` is a
bound for TLC, on the goroutines that exist at once.

### Processes under CGI

`CgiSpawn` adds to `Worker` where each worker process stands in `runWorker`
(`life`), who has the lock, whose `workerMaxLifetime` is over, and where each
request stands in `runCGI`. An absent process may be spawned by a request
(`SpawnWorker`, after `HasPending`), by cron if `Cron`, or be a request to
`/api/worker-tick` if `Ticks`, which calls `RunBatch` without the lock. Its
steps within a batch are the actions of `Worker`, so every step of `CgiSpawn` is
a step of `Worker` or leaves its variables alone (`CgiStepIsWorkerStep`), and
the properties and the refinement of `Worker` are stated unchanged. The lock is
a `flock`: the kernel frees it with the process (`Kill`). The end of the
lifetime ends the context of the batch and nothing else: `RunBatch` still waits
for its goroutines, under the lock. The end of a batch's timeout and of a
lifetime are modelled while jobs are executed or in a recovery, where time
passes.

### Fan-outs and the circuit breaker

A fan-out is a record `fan[j]` with the variables of `fanoutToFollowers`: the
cursor, the cache of dead domains, the set of actors who have a delivery
already, the page that was read. `ReadPage` and `WritePage` are the two
statements of its loop; `FailPage` is an error of either and `Crash` a death
between any two, after which the walk starts over. A post mentions accts
(`Mentioned`), which resolve to actors (`ActorOf`), two of them possibly to the
same one; deliveries are enqueued for each acct before the walk, and the actors
they go to are what the walk leaves out. Followers have the id of their row,
since the walk goes by id; some of them (`Restless`) leave and come back, with
a higher id. Deliveries are jobs that succeed or fail in any order, and count
for or against their domain in `failures`; `recent` is whether the last failure
is within `deadWindow`. So do the fan-outs whose payload names an actor, the two
that announce (`PayloadDomains`): their end resets the counter of that domain and
their error raises it. Deliveries enqueued before the walk do not ask whether the
domain is dead. The six kinds of fan-out differ in whom they tell before
the walk and in what they do when the post is gone. `stayed`, `enqueued`,
`wasDead` and `lost` are history of the present attempt.

### Two servers: follows and posts

`FollowGraph` and `Posts` have two murlog servers that run the same handlers.
A handler is a list of statements, as in `FollowsCreate`; each is atomic in the
database and none is in a transaction with the next, so any other request may
come in between. `run[s][k]` is what the request in slot `k` has left to do and
what it has read. A job in `jobs` is executed once, several times, out of order
or never, and puts an activity on the `wire`; the other side receives it in its
inbox slot. In `FollowGraph` `host` says how the URI of each server's actor writes
its host: as a plain domain, with a port, or with a character that `isValidDomain`
refuses. A block of the domain matches all three in `IsBlocked`, but its removals
find the rows of a plain one only, and end in an ignored error for the last
(`RowsOfDomain`, `GoOnFromDomain`). `slipped` marks the one race that lets a row in
past a block, and `orderly` histories in which requests began one at a time. In
`Posts` `smooth` marks histories in which jobs were delivered in their order,
`created` and `refused` what happened to the post. A text is a number that grows
with each edit; a post is public or for followers.

### Uploads

`Media` has processes that run lists of statements too, and a file store beside
the database: `file` is what the store has, `row` what the table says. A process
may be killed between any two statements, and a statement of the store or of the
database may fail; the code looks at the error or not as the model does.
`HourPasses` makes an unattached upload one the clean-up takes. The names of
deleted posts are used again, which stands for posts that come and go for ever.

### The account

`Account` has the rows of `settings` that its handlers write, the count and the
lock of one client, one file, and processes that run the statements of logins,
TOTP, reset and set-up. Which password was given and what it is makes no
difference to any property: a login is rejected or accepted. `fails` is counted
up to the limit, the only number it is compared with. The settings of the set-up
are written in the order of a Go map, that is in any. Until it is complete only
`/admin/` is served, and TOTP needs a session; both are guards of the requests.

### Fairness

`FairSpec` assumes that a loop that can take its next step does so, that every
execution ends, that the clock runs, and that a batch which has returned is
started again (cron, worker-tick, the worker of the next request). `ClaimJob`
gets strong fairness because `Expire` may end any batch: `RunBatch` claims
directly after its recovery, so not every context of 25 or 30 s ends before
that. Nothing is assumed of faults, of handlers being successful, or of what the
rest of the program enqueues.

`WorkerPool!FairSpec` assumes the loop, the releases and the ends of goroutines
(handlers return), and strong fairness of `Close`: the end of the context is
ready at every select while the timer takes `PollInterval`. `CgiFairSpec`
assumes that requests and cron keep coming and all processes run. Strong
fairness is assumed of what needs luck only once: a process trying the lock
while it is free, a `HasPending` that does not fail, a claim before the batch
ends.

`Fanout` assumes that workers go on with the fan-outs there are (`Work`), and
nothing of deliveries, followers, servers and the clock. `Media` assumes that a
process that has begun a handler goes on with it, and `OrphansGo` says what
follows if clean-ups begin again and again: nothing in the repository calls
`/api/worker-tick` by itself, which is left to the administrator's cron.
`FollowGraph`, `Posts` and `Account` have no fairness: their properties are about
states at rest.

## Runs

Every run is listed in `PROJECT.json` with its properties. Bounds: one or two
jobs and two processes are enough for every pair of actors in the code to meet
(two executors of one job; an executor and a recovery; two recoveries; an
executor and the administrator), two attempts distinguish a first, a last and
an extra attempt, and a stale timeout of one unit lets a claim be fresh, old
and stale. Two worker processes give a holder of the lock and a contender; the
run for liveness has one at a time, a batch of two, and two faults. The semaphore takes the levels 4, 5 and 6 and is
replaced while up to 8 goroutines exist, so that a level drops below the number
of goroutines.

`Fanout` has pages of two and three actors, so that a walk has a full page, a
last page and a page that was emptied, and two domains, one of which refuses; the
post mentions one actor by two accts, who may also be the author replied to or
announced, a follower, and the one who leaves and returns. `MaxId` bounds how often
followers join: a walk that new followers prolonged for ever is not among the
behaviours of `FanoutEnds`. In `FollowGraph` both hosts are plain, or one has a
port and the other is refused (`Pairs`); all nine pairs were checked once too. Between two servers two requests of any kind, from every state the follow
relations or the post may be in, interleave with each other and with what the
first ones send; a third request meets no state that two do not leave behind,
but for an edit of an edit. Two processes and one fault in `Media` and `Account`
let every handler be cut short, and meet every other; two posts may name the same
upload. Three failures lock a client: with two the overshoot would hide a lost
count. `GuessesBounded` was checked for three processes too, where it is tight.

Run | Question
--- | ---
`worker_safety` | daemon and batch, a job of a domain that may be blocked and one of an unknown type, a crash, lost writes, handlers that end in time: is a job executed by one goroutine at a time, at most `MaxAttempts` times, marked done only once sent, are finished jobs final, and is `JobLifecycle` implemented?
`worker_faults` | daemon and batch, slow handlers and every fault, retries and dismissals of running and finished jobs included: are claims still exclusive, and only exhausted jobs given up?
`worker_pool` | are the slots accounted for across every change of the level, does every claimed job run, does `Run` return?
`cgi_safety` | with handlers of any duration, kills and lifetimes that end: one batch at a time, and recoveries that touch nothing alive?
`cgi_liveness` | with requests and cron, ticks and faults, is every job settled in the end?
`fanout` | with followers that move, attempts that start over and domains that die: is everybody told who followed all the while (`EveryFollowerServed`), does the walk add nothing to what was enqueued before it (`ServedOnce`), and does every fan-out end (`FanoutEnds`)?
`follow_graph` | do blocks hold for the rows they cover (`BlockHolds`), do the cached counters settle (`CountersSettle`), do the two sides agree once all is said (`SidesAgree`)?
`posts` | do counters, wrappers and outbox settle (`OwnPostsSettle`), is what is pinned or listed there (`PinnedIsServed`), does the copy follow the post (`CopySettles`), do the numbers of favourites and reblogs (`InteractionsSettle`), and are notifications founded and sent (`NoticesAreFounded`, `MentionIsTold`)?
`media` | does an attachment keep its file beside clean-ups (`AttachedIsServed`), is no file left behind without a reason (`FilesAreAccounted`), do orphans go (`OrphansGo`)?
`account` | how many logins are rejected before a lock (`GuessesBounded`), is a set-up whole (`SetupIsWhole`), was the active TOTP secret verified (`ActiveSecretIsProven`), can a reset that was cut short be repeated (`ResetIsNotLost`)?

Each property has a wrong variant of a definition (the sections "Wrong
variants" of the modules) with which TLC finds it violated.

The runs that end in a violation show disagreements between the code and what
its comments or documents say:

Run | What it shows
--- | ---
`posts_delete_refused` | foreign keys refuse to delete a post that somebody favourited or reblogged: `posts.delete` unpins it and fails
`media_avatar` | the clean-up takes a profile picture for an orphan an hour after its upload and deletes its file

Further disagreements met while modelling, without a run of their own.

Of the queue and its workers:

- `Run`, the loop of `serve` and of the daemon, never calls `RecoverStale`
  (`worker.go:87`): a job that was running when it crashed stays so for ever,
  unless a batch comes. `docs/architecture.md:193` says stale jobs are reset.
- The recover() handlers retry a panicking job without looking at its attempts
  (`worker.go:129`); `murlog.go:15` calls MaxJobAttempts the maximum.
- A job dismissed while it is executed fails afterwards and comes back, without
  its payload (`api_mur_queue.go:109`: dismissing gives a job up).
- `JobTimeout` does not end a handler, since its HTTP requests take no context;
  after the stale timeout its job is executed twice at once (`worker.go:41`).
- A worker spawned while another one is leaving finds the lock taken and exits,
  and its job waits for another request (`docs/architecture.md:141`).
- `queue.retry` of a job that was completed in the meantime makes it pending
  with the empty payload `Complete` left (`WaitingHasPayload` fails with the
  fault "retry"); `queue.go:56` says it resets a failed job.
- `worker-tick` runs a batch beside the worker that has `worker.lock`
  (`OneBatch` fails with `Ticks`); `docs/architecture.md:155` says one worker
  process at a time.
- Without cron a killed worker's running job is never recovered under CGI,
  however many requests come, since `HasPending` does not count it
  (`EventuallySettled` fails with `Cron = FALSE`): the gap of the daemon above
  by another way.
- Retry delays are 30 s, 1 m, 2 m, 4 m (`worker.go:323`); the comment above and
  `docs/architecture.md:191` say 30 s, 2 m, 8 m, 32 m.

Of what the jobs and the inbox do:

- Every error of a delivery counts against its domain, that the post is gone
  included (`worker.go:314`): two followers on one server suffice to have it taken
  for dead for an hour, and the Delete leave it out. `docs/architecture.md:200`
  speaks of failed deliveries. An error of an announcing fan-out in the server's
  own database counts against the domain of the author too, and its end counts as a
  success of it. Direct deliveries never ask whether a domain is dead, and each
  failure of one keeps it dead for another hour.
- Two accts of one actor in a post give the actor two deliveries in one attempt:
  the handler asks what it has resolved by acct, and not by actor
  (`worker.go:456`, `:498`); the comment at `worker.go:436` says that who was
  delivered to is tracked to avoid it.
- A domain block removes the rows that `LIKE '%://domain/%'` finds, while
  `IsBlocked` compares host names without their ports: follows and followers at
  `host:port` stay, although `follow.go:96` says that all of the domain go. So do
  those of a domain with a character such as an underscore, which `isValidDomain`
  refuses with an error that `domain_blocks.create` ignores. `BlockHolds` fails with
  `IsBlockedBy` in place of `BlockCovers`.
- An Accept or a Reject is applied to whatever follow of the actor is there when
  it arrives (`activitypub.go:248`), also to one made after the follow it answers;
  the comment at `:244` says the corresponding one.
- An inbox Update never looks at the tags; and an edit without tags keeps the old
  ones.
- The Undo of an Announce looks for a local post only: the wrapper of a remote one
  stays in the timeline (`docs/domain.md:302`), and an Announce that is repeated
  makes another. Taking a reblog back deletes the wrappers of others' reblogs too.
- The Undo of a Like refers to the id of its own job, not to that of the Like.

Of posts and files:

- A pinned post that an edit makes private stays in the featured collection;
  posts.pin refuses such a post (`docs/frontend.md:280`).
- An edit that makes a post public sends an Update of something followers were
  never sent, which they ignore.
- posts.update adds up to four attachments to those the post has, and looks at
  their number only after it has saved the text (`docs/murlog-api.md:355`: at
  most 4). posts.delete leaves the files of the attachments in the store, and a new
  profile picture those of the old one.

Of the account:

- A set-up killed between its settings may leave `setup_complete` without a
  password, which only `murlog.reset` repairs, or a persona whose name makes the
  second try fail. Two submits at once create two primary personas.
- The first step of the set-up exchanges the handler's store and closes the old
  one (`setup.go:316`), but `serve` has given that to its worker too, which goes
  on with the closed store until the restart.
- A recorded reset time has whole seconds: a file written in the same second
  stays valid if it cannot be removed (`docs/auth.md:27` says that a used file is
  harmless). The model has it so.
- The count of failures outlives the lock: after five minutes one more failure
  locks again (`docs/auth.md:35` says five).

## Proofs

For every number of jobs, processes, followers, follows, requests, edits and files,
every limit, timeout, page size and concurrency, and any number of disturbances:

Theorem | Assumes
--- | ---
`TypeCorrect` | nothing
`ClaimsAreUnique`: no two executions hold the same attempt of a job | nothing
`DeadJobsAreExhausted`: only a job without attempts left is given up | nothing
`DoneJobsWereSent`: a job marked done was sent | no dismissal
`OneExecutor`, `AttemptsAreCapped`, `PayloadIsKept`, `SettledStays`, `OnlyRunningJobsSend`, `WorkerImplementsLifecycle` | `Undisturbed`
`PoolTypes` | nothing
`SlotsAreAccounted`, `LimitIsKept` | what `New` ensures of the limits
`CgiTypes` | nothing
`OneBatchAtATime`, `RecoveryHitsOnlyOrphans` | no ticks
`CgiOneExecutor`, `CgiImplementsLifecycle` | `Tame`, and no ticks or timely handlers
`FanoutTypes`, `FollowersAreServedOnce`, `FollowersAreServed` | `FanoutAssumption`, `IdsAreUnique`
`GraphTypes`, `CountersAreRight`, `BlocksHold`, `OneEpisodeAtATime`, `TheSidesAgree` | `TwoServers`, `FollowsAreCounted`, `HostsAreWritten`, `OpsAreMethods`
`PostsTypes`, `OwnPostsAreSettled`, `PinnedPostsAreServed`, `NoticesHaveReasons`, `InteractionsAreSettled`, `CopiesAreSettled`, `MentionsAreTold` | `ServersDiffer`, `BoundsAreNumbers`, `OpsAreMethods`
`MediaTypes`, `AttachmentsAreServed`, `FilesAreKnown` | `UploadsAreDistinct`, `PostsAreIds`, `FaultsAreCounted`
`AccountTypes`, `SetupsAreWhole`, `ActiveSecretsAreProven`, `ResetsAreNotLost`, `GuessesAreBounded` | `LimitsArePositive`, `SomeProcesses`

The assumptions with a name are on constants only, are stated where these are
declared, and say what the code gives: that ids are a primary key, that an upload
is new, that the limits are numbers.

The argument. The number of attempts of a row only grows, and an execution's
attempt is at most that number; so a new claim differs from every earlier one
(`ClaimInv`). Everything else rests on a fact the code nowhere checks: an
execution still holds the row it claimed when it writes the outcome
(`HoldersRun`). That is inductive only together with what `RecoverStale` relies
on (`RowsHealthy`): between its statements a row it will release has attempts
left. It holds as long as the system is `Tame` (nothing panics, the administrator
leaves the queue alone and no statement of RecoverStale is lost on its own;
crashes, lost outcomes, failing claims and contexts that end anywhere are
allowed) and no job is stale while it is executed when a recovery starts
(`RecoverySafe`). In `Worker` the second comes from timely handlers, whose claim
is younger than the stale timeout; both together are `Undisturbed`. What panics,
dismissals, retries and slow handlers break is listed under the disagreements.
`HolderInv` is the whole inductive invariant.

Under CGI the second comes from the lock instead: `LockInv` says that a batch
is run by the holder of the lock and that nothing is executed outside of one,
so a process that recovers is alone. That is why `CgiOneExecutor` and
`CgiImplementsLifecycle` hold for handlers of any duration, and need timely ones
only if ticks are used. `HolderInvStep` and `LifecycleStep` are used for both.

`WorkerPool`: `SlotsAccounted` is inductive; `wg.Wait` before the assignment
gives `running = 0` where `tokens` becomes 0.

`JobSteps` proves that every step moves a row along the lifecycle; the
refinement and the action properties follow from it.

The modules of the handlers have their statements in lists that a request works
off, and none of their properties is inductive: between two statements it rests on
what a request has read and is about to write. Each proof so begins with what may
be left of a list (`Todos`, `Good`) and says of every request that what it goes by
still holds (`RequestOK`).

- `Fanout`: `FanoutInv` says of a fan-out that walks the pages (`WalkOK`) that a
  follower who stayed since its start is given a delivery exactly if the cursor has
  passed his id or he was told before, unless his domain was dead (`Excused`); of the domains that what it remembers as
  dead was dead (`DeadIsKnown`); and of the ids that they are unique and new ones
  larger (`IdsOK`). Without the last, which UUIDv7 gives, the cursor could
  pass somebody or meet him twice. That each page ends the walk or moves the cursor
  takes least and greatest elements of finite sets, hence `LeastNumber`.
- `FollowGraph`: `Good` is what all lists have in common: a change of a table is
  followed by the refresh of its counter, a block by the removals, and a follow is
  changed right after it was read. So a counter is right or a request is about to
  refresh it (`FollowersOK`, `FollowingOK`); and whoever a block covers
  (`BlockCovers`: by name, or by a domain whose rows the pattern finds) is out of the
  tables, or a removal that finds the row is still to come
  (`BlocksOK`, `FollowRemovalsOf`, `FollowerRemovalsOf`), unless a request had
  passed `IsBlocked` before (`slipped`). A block is made only with the
  removals of its kind ahead (`BlockedRowsGo`).
  For `SidesAgree` it takes more: what every job, activity and request under way
  will still do to the other side. `OrderInv` says it. A request that is orderly begins
  when nothing is under way, so all there is belongs to one episode: `a` follows `b`, who
  answers at once or not (`Following`), unfollows (`Unfollowing`), answers a pending
  request (`Approving`, `Rejecting`), blocks or unblocks (`Blocks`, `Unblocks`). Each of
  these lists what may be left of the lists of statements, which activities
  may be about, repeated or not, and what makes up for a difference between
  the tables: while `follow[a]` and `follower[b]` do not agree there is an activity or
  a request to come that makes them. TLC found it to be invariant before it was proved,
  with one lemma for each statement (`EffectOn`), one for each episode (`...GoesOn`)
  and one for what begins, is sent, arrives, is given up and ends.
- `Posts`: `Good` says of what is left of a list which statement follows or came
  before which: a change of the persona's posts is followed by
  `RefreshPostCount`, a withdrawn favourite by the removal of its notification, and
  a post is read before it is pinned and unpinned before it is deleted. So the
  counter is right or the API request is about to refresh it, and the own reblog
  has its wrapper but for between the statements about the two (`ApiOK`); a
  notification has its reason or is about to go (`InboxOK`). `RowOK` is what the
  foreign keys give. A worker's list may lose its middle statement, and an
  Announce is answered as the post is there or not: hence one lemma for each list.
  That the post is created once (`FreshOK`: before that there is no job, no
  activity and no other request) is what keeps a second row out.
  What the two servers agree on is said of deliveries in order (`smooth`), and rests
  on what else may be left of a list and which side says what (`ListsInv`).
  - `InteractionsSettle`: favourites and reblogs are two conversations of the same
    form, so one definition (`Agrees`) and one set of lemmas serves both. Unless
    the reader's request is between changing its row and enqueueing (`said`,
    `unsaid`), the last word of the conversation in the queue is what the row says;
    if the queue is silent, the one activity on the wire says it, or the inbox is
    about to; if all are silent the rows agree (`TalkInv`). That repeated
    activities do no harm takes that only one is under way (`Single`).
  - `CopySettles`, `MentionIsTold`: `CopyInv` has a part for each thing that could go
    wrong. The post is delivered once and before anything else is said of it
    (`OnceInv`); a copy is there or coming as long as the post is, and no deletion
    is (`ThereInv`); unless an Update is still to be said, what is on its way, and
    the copy if nothing is, has the author's text (`TextInv`); of a post that is
    gone the copy is gone, or its deletion is coming or was refused (`GoneInv`);
    the mention is stored only once the job that tells of it is queued
    (`ResolvedInv`), and who is mentioned has been told or is told by the copy that
    is stored (`MentionInv`). Every step is first put into one of a few dozen
    kinds (`ApiSteps`, `WorkerSteps`, `BoxSteps`, `QueueSteps` or `Untouched`) by what
    it does to the copy, so that each part of `CopyInv` meets the kinds only, not
    the statements.

  TLC checked the parts of both invariants on the instance of `posts` (209 392
  states) before they were proved.
- `Media`: a file that a clean-up has chosen is an orphan nobody can attach in time,
  or its removal was asked for (`ChosenIsOrphan`); what is being uploaded is
  known to nobody else (`UploadsAreApart`, `FreshIsNew`); a file without a row has its
  upload under way or was leaked by a fault (`Accounted`).
- `Account`: a code was checked against the very secret that is about to be
  activated, a set-up is about to write what is missing, and a reset has stored the
  password before it marks or removes its file (`AccountInv`). For the guesses it is not
  enough to say what a request has read: one that has read a low count will write no
  lock, and so may lift the one that others set in between; those then guess again.
  `GuessInv` gives each such request credit for the guesses it may still let pass
  (`Credit`), and says that the guesses made and the credit left never exceed the
  total (`Counted`).

Only model-checked is liveness (`EventuallySettled`, `ClaimedJobRuns`,
`StopsWhenCancelled`, `FanoutEnds`, `OrphansGo`), which is out of the prover's
reach. Every other property of a passing run is a theorem.

## Not modelled

Of the worker: what the handlers do to the database and whom they send to (a
handler is one success or failure here); the change of the number of slots while
jobs go through the queue (a constant in `Worker`, the subject of `WorkerPool`);
`last_error` and `completed_at`; the age of rows in `Cleanup` (any settled row may be old
enough). `Stats` and `List` only read.

Of follows: notifications about them, kills and failing Enqueues between two
statements of a request, a deleted account, a domain blocked in another spelling of
its case, and IPv6 hosts. Of posts: more than one API and one inbox request at a
time on each server, an insertion of a wrapper that fails (`api_mur_interactions.go:227`
logs it and goes on, so that the reblog has none), visibilities other than public and
for followers, tags, reply targets, likes of wrappers, and the reading of
notifications. Of media: the attachments of remote posts, which are URLs, and S3,
which differs in the calls that may fail only; that the removal of a file after a
failed insertion fails too (`api_mur_media.go:184`) takes a second fault; in
the model it succeeds. Of the account: which password it
is and the change of it (`auth.change_password`, one read and one write), API
tokens, clients without an address, the first step of the set-up and the
migrations. Components without a module are listed in `PROJECT.json`.

## Plan

1. Done: `JobQueue`, `Worker`, `JobLifecycle`, their runs and proofs.
2. Done: `WorkerPool`, the semaphore of `Run`, with proofs.
3. Done: `CgiSpawn`, over `Worker`, with proofs.
4. Done: `Fanout`, `FollowGraph`, `Posts`, `Media`, `Account`, with proofs.
5. Done: proofs of what two servers agree on (`SidesAgree`, `InteractionsSettle`,
   `CopySettles`, `MentionIsTold`).
6. The first step of the set-up, with the worker that keeps the old store; the
   remote actor cache.
