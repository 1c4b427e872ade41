------------------------------- MODULE Fanout -------------------------------
(***************************************************************************)
(* Telling every follower: the jobs of package worker that walk through    *)
(* the followers page by page and enqueue one delivery for each, those     *)
(* deliveries, and the circuit breaker, which counts their failures for    *)
(* each domain and makes the walk leave out the followers of a dead one.   *)
(*                                                                         *)
(* A fan-out that fails or loses its process starts over from the first    *)
(* page; followers come, go and come back while it runs; deliveries of     *)
(* earlier fan-outs change the counters it reads, and so do the fan-outs   *)
(* that name an actor themselves.  How jobs are claimed and retried is the *)
(* subject of Worker: here a job is executed by one worker at a time and   *)
(* at most MaxAttempts times.                                              *)
(***************************************************************************)
EXTENDS Naturals, FiniteSets, FiniteSetsExt, Functions

CONSTANTS
  Actors,         \* remote actors, each a follower or not
  Domains,
  DomainOf,       \* the domain of each actor
  Refusing,       \* the domains whose servers may refuse deliveries
  Jobs,           \* the fan-out jobs
  Scenarios,      \* which kinds the jobs may have: functions on Jobs
  Mentioned,      \* the accts (user@domain) the post mentions
  ActorOf,        \* the actor each acct resolves to; two may share one
  Target,         \* author of the post it replies to, or that is announced
  PageSize,       \* fanoutPageSize
  DeadThreshold,  \* deadThreshold
  MaxAttempts,    \* MaxJobAttempts
  LostEnqueues,   \* may the Enqueue of a direct delivery fail?
  Initial,        \* the followers table at the start
  Restless,       \* bound: the actors that come and go
  MaxId           \* bound on the ids given to follower rows

VARIABLES
  follower,   \* the followers table: the id of an actor's row, 0 without one
  lastId,     \* the last id given: ids are UUIDv7 and grow
  post,       \* "live" or "gone": the post the fan-outs are about
  mentions,   \* the accts in its mentions_json: those deliver_post resolved
  fan,        \* the fan-out jobs and the variables of their handlers
  out,        \* the delivery jobs in the queue
  failures,   \* domain_failures: failure_count
  recent      \* was last_failure_at within deadWindow?

vars == <<follower, lastId, post, mentions, fan, out, failures, recent>>

Kinds == {"deliver_post", "update_post", "deliver_delete", "update_actor",
          "send_announce", "send_undo_announce"}

\* The type of the deliveries a fan-out enqueues.
ChildOf ==
  [k \in Kinds |->
     CASE k = "deliver_post" -> "deliver_note"
       [] k = "update_post" -> "deliver_update_note"
       [] k = "deliver_delete" -> "deliver_delete_note"
       [] k = "update_actor" -> "deliver_update"
       [] k \in {"send_announce", "send_undo_announce"} -> "deliver_announce"]

ASSUME FanoutAssumption ==
  /\ IsFiniteSet(Actors) /\ IsFiniteSet(Domains)
  /\ DomainOf \in [Actors -> Domains] /\ Refusing \subseteq Domains
  /\ Scenarios \subseteq [Jobs -> Kinds]
  /\ IsFiniteSet(Mentioned) /\ ActorOf \in [Mentioned -> Actors]
  /\ Target \subseteq Actors
  /\ {PageSize, DeadThreshold, MaxAttempts} \subseteq Nat \ {0}
  /\ MaxId \in Nat /\ Restless \subseteq Actors
  /\ LostEnqueues \in BOOLEAN
  /\ Initial \in [Actors -> 0..MaxId]

\* There is an actor, and the ids are the primary key of the followers table.
ASSUME IdsAreUnique ==
  /\ Actors # {}
  /\ \A a, b \in Actors : Initial[a] = Initial[b] /\ Initial[a] # 0 => a = b

(* A fan-out.  "idle": not requested yet; "waiting" and "done", "dead":    *)
(* statuses of the job; "reading" and "writing": its handler is before     *)
(* ListFollowersPaged or before EnqueueBatch.  stayed, enqueued, wasDead   *)
(* and lost are history of the present attempt.                            *)
Fan == [kind : Kinds,
        pc : {"idle", "waiting", "reading", "writing", "done", "dead"},
        attempts : 0..MaxAttempts,
        cursor : 0..MaxId,
        deadCache : [Domains -> {"unknown", "dead", "alive"}],
        delivered : SUBSET Actors,
        batch : SUBSET Actors,
        more : BOOLEAN,
        stayed : SUBSET Actors,
        enqueued : [Actors -> Nat],
        wasDead : SUBSET Domains,
        lost : SUBSET Actors]

\* A fan-out whose handler is not running.
Resting(kind, pc, attempts) ==
  [kind |-> kind, pc |-> pc, attempts |-> attempts, cursor |-> 0,
   deadCache |-> [d \in Domains |-> "unknown"], delivered |-> {}, batch |-> {},
   more |-> TRUE, stayed |-> {}, enqueued |-> [a \in Actors |-> 0],
   wasDead |-> {}, lost |-> {}]

\* A delivery job.  via is the acct it was enqueued for, if it was for one: a
\* set of them merges only those of two attempts that differ by nothing but id.
Delivery == [fan : Jobs, to : Actors, via : SUBSET Mentioned, tries : 0..MaxAttempts]

TypeOK ==
  /\ follower \in [Actors -> 0..MaxId] /\ lastId \in 0..MaxId
  /\ post \in {"live", "gone"} /\ mentions \subseteq Mentioned
  /\ fan \in [Jobs -> Fan] /\ out \subseteq Delivery
  /\ failures \in [Domains -> 0..DeadThreshold]
  /\ recent \in [Domains -> BOOLEAN]

Followers == {a \in Actors : follower[a] # 0}

\* The handler is at work on its pages.
Walking(r) == r.pc \in {"reading", "writing"}

Announcing(r) == r.kind \in {"send_announce", "send_undo_announce"}

\* domainFromPayload: of the fan-outs only the announcing ones name an actor.
PayloadDomains(r) == IF Announcing(r) THEN {DomainOf[a] : a \in Target} ELSE {}

-----------------------------------------------------------------------------
(* Wrong variants of queries below, which no specification uses.           *)

\* The page is taken by number instead of by id.
ListFollowersByOffset(cursor) ==
  {a \in Followers :
     LET before == Cardinality({b \in Followers : follower[b] < follower[a]})
     IN before \in cursor .. cursor + PageSize - 1}

\* The cursor is moved only when the page had something to enqueue.
NextCursorOfBatch(cursor, page, batch) ==
  IF batch = {} THEN cursor ELSE Max({follower[a] : a \in page})

-----------------------------------------------------------------------------
(* The queries and statements of the store and of the queue.               *)

\* ListFollowersPaged: the PageSize followers with the least ids above the
\* cursor.
ListFollowersPaged(cursor) ==
  {a \in Followers :
     /\ follower[a] > cursor
     /\ Cardinality({b \in Followers : follower[b] \in cursor + 1 .. follower[a]})
          <= PageSize}

IsDomainDead(d) == failures[d] >= DeadThreshold /\ recent[d]

\* The cursor after a page; batch is what the page gave to enqueue.
NextCursor(cursor, page, batch) ==
  IF page = {} THEN cursor ELSE Max({follower[a] : a \in page})

\* Whom jobs are made for: one for each acct, or one for each actor.
ToMentioned(accts) == {[to |-> ActorOf[m], via |-> {m}] : m \in accts}
ToActors(actors) == {[to |-> a, via |-> {}] : a \in actors}

NewJobs(j, whom) == {[fan |-> j, to |-> w.to, via |-> w.via, tries |-> 0] : w \in whom}

EnqueueBatch(jobs) == out' = out \cup jobs

\* For each domain of ds.  The count stops at the threshold, beyond which
\* nothing compares it.
IncrementDomainFailure(ds) ==
  /\ failures' = [d \in Domains |-> IF d \in ds /\ failures[d] < DeadThreshold
                                   THEN failures[d] + 1 ELSE failures[d]]
  /\ recent' = [d \in Domains |-> IF d \in ds THEN TRUE ELSE recent[d]]

ResetDomainFailure(ds) ==
  /\ failures' = [d \in Domains |-> IF d \in ds THEN 0 ELSE failures[d]]
  /\ recent' = [d \in Domains |-> IF d \in ds THEN FALSE ELSE recent[d]]

\* History: the domains that are dead after a step were so during the walks
\* that are on.
Noticed(fans) ==
  [j \in Jobs |->
     IF Walking(fans[j])
     THEN [fans[j] EXCEPT !.wasDead = @ \cup {d \in Domains : IsDomainDead(d)'}]
     ELSE fans[j]]

\* Earlier deliveries may have failed, the post may be gone before the fan-out
\* starts, and the post of an update has been delivered, so that some of its
\* mentions were resolved.
Init ==
  /\ follower = Initial
  /\ lastId = Max({Initial[a] : a \in Actors})
  /\ post \in {"live", "gone"}
  /\ \E kinds \in Scenarios :
       fan = [j \in Jobs |-> Resting(kinds[j], "idle", 0)]
  /\ mentions \in IF \E j \in Jobs : fan[j].kind = "update_post" THEN SUBSET Mentioned ELSE {{}}
  /\ out = {}
  /\ failures \in {f \in [Domains -> 0..DeadThreshold] :
                    \A d \in Domains \ Refusing : f[d] = 0}
  /\ recent \in {r \in [Domains -> BOOLEAN] :
                  \A d \in Domains : r[d] => failures[d] > 0}

breaker == <<failures, recent>>
table == <<follower, lastId>>

-----------------------------------------------------------------------------
(* Wrong variants of actions below.                                        *)

\* deliver_post does not remember whom it has told already.
DeliveredNobody(j, direct) == IF Announcing(fan[j]) THEN {w.to : w \in direct} ELSE {}

\* A fan-out whose process dies is started over without limit.
CrashForEver(j) ==
  /\ Walking(fan[j])
  /\ fan' = [fan EXCEPT ![j] = Resting(@.kind, "waiting", @.attempts)]
  /\ UNCHANGED <<table, post, mentions, out, breaker>>

-----------------------------------------------------------------------------
(* Fan-outs.                                                               *)

\* The handler's set of actors that have a delivery already.
Delivered(j, direct) == {w.to : w \in direct}

\* posts.create and the other methods enqueue the fan-out; posts.delete has
\* deleted the post before.
Request(j) ==
  /\ fan[j].pc = "idle"
  /\ fan[j].kind = "update_post" => post = "live"
  /\ post' = IF fan[j].kind = "deliver_delete" THEN "gone" ELSE post
  /\ fan' = [fan EXCEPT ![j].pc = "waiting"]
  /\ UNCHANGED <<table, mentions, out, breaker>>

\* A worker has claimed the job.
Claimed(j, kind) ==
  /\ fan[j].kind = kind
  /\ fan[j].pc = "waiting"

\* Those of direct get a delivery each before the walk begins; an error of
\* Enqueue is not looked at, and neither is whether the domain is dead.
Begin(j, direct) ==
  \E lost \in IF LostEnqueues THEN SUBSET direct ELSE {{}} :
    /\ fan' = [fan EXCEPT ![j] =
                [kind |-> @.kind, pc |-> "reading", attempts |-> @.attempts + 1, cursor |-> 0,
                 deadCache |-> [d \in Domains |-> "unknown"],
                 delivered |-> Delivered(j, direct), batch |-> {},
                 more |-> TRUE, stayed |-> Followers,
                 enqueued |-> [a \in Actors |-> Cardinality({w \in direct \ lost : w.to = a})],
                 wasDead |-> {d \in Domains : IsDomainDead(d)},
                 lost |-> {w.to : w \in lost}]]
    /\ EnqueueBatch(NewJobs(j, direct \ lost))

\* The job after an attempt that did not complete it; what it has enqueued stays.
AfterAttempt(j, attempts) ==
  [fan EXCEPT ![j] = Resting(@.kind, IF attempts = MaxAttempts THEN "dead" ELSE "waiting", attempts)]

\* The handler returns an error before it has done anything.  Its payload names
\* a post and no actor.
Refuse(j) ==
  /\ fan' = AfterAttempt(j, fan[j].attempts + 1)
  /\ UNCHANGED <<mentions, out>>

\* Some of the accts resolve (resolveActorByAcct); they are saved if any does.
\* Each gets a delivery, whether or not another has led to the same actor; the
\* author of the post replied to is looked up among the delivered.
DeliverPost(j) ==
  /\ Claimed(j, "deliver_post")
  /\ IF post = "gone" THEN Refuse(j)
     ELSE \E resolved \in SUBSET Mentioned :
            /\ Begin(j, ToMentioned(resolved)
                          \cup ToActors(Target \ {ActorOf[m] : m \in resolved}))
            /\ mentions' = IF resolved = {} THEN mentions ELSE resolved
  /\ UNCHANGED <<table, post, breaker>>

UpdatePost(j) ==
  /\ Claimed(j, "update_post")
  /\ IF post = "gone" THEN Refuse(j)
     ELSE /\ Begin(j, ToMentioned(mentions)
                        \cup ToActors(Target \ {ActorOf[m] : m \in mentions}))
          /\ UNCHANGED mentions
  /\ UNCHANGED <<table, post, breaker>>

UpdateActor(j) ==
  /\ Claimed(j, "update_actor")
  /\ Begin(j, {})
  /\ UNCHANGED <<table, post, mentions, breaker>>

DeliverDelete(j) ==
  /\ Claimed(j, "deliver_delete")
  /\ Begin(j, {})
  /\ UNCHANGED <<table, post, mentions, breaker>>

SendAnnounce(j) ==
  /\ Claimed(j, "send_announce")
  /\ Begin(j, ToActors(Target))
  /\ UNCHANGED <<table, post, mentions, breaker>>

SendUndoAnnounce(j) ==
  /\ Claimed(j, "send_undo_announce")
  /\ Begin(j, ToActors(Target))
  /\ UNCHANGED <<table, post, mentions, breaker>>

\* fanoutToFollowers reads a page.  What it learns of a domain it keeps until
\* it ends.  The announcing kinds put every actor they enqueue into delivered.
ReadPage(j) ==
  /\ fan[j].pc = "reading"
  /\ LET page == ListFollowersPaged(fan[j].cursor)
         known == [d \in Domains |->
                     IF fan[j].deadCache[d] # "unknown" \/ d \notin {DomainOf[a] : a \in page}
                     THEN fan[j].deadCache[d]
                     ELSE IF IsDomainDead(d) THEN "dead" ELSE "alive"]
         wanted == {a \in page : known[DomainOf[a]] = "alive"} \ fan[j].delivered
         told == IF Announcing(fan[j])
                 THEN fan[j].delivered \cup wanted ELSE fan[j].delivered
     IN fan' = [fan EXCEPT ![j] =
                 [@ EXCEPT !.pc = "writing", !.deadCache = known, !.batch = wanted,
                    !.delivered = told, !.more = Cardinality(page) = PageSize,
                    !.cursor = NextCursor(fan[j].cursor, page, wanted)]]
  /\ UNCHANGED <<table, post, mentions, out, breaker>>

\* One transaction for the deliveries of the page; then the next page, or the
\* end of the job, which process takes for a success of the domain it names.
WritePage(j) ==
  /\ fan[j].pc = "writing"
  /\ EnqueueBatch(NewJobs(j, ToActors(fan[j].batch)))
  /\ ResetDomainFailure(IF fan[j].more THEN {} ELSE PayloadDomains(fan[j]))
  /\ fan' = [fan EXCEPT ![j] =
              [@ EXCEPT !.pc = IF fan[j].more THEN "reading" ELSE "done", !.batch = {},
                 !.enqueued = [a \in Actors |->
                                 fan[j].enqueued[a] + IF a \in fan[j].batch THEN 1 ELSE 0]]]
  /\ UNCHANGED <<table, post, mentions>>

\* A query or the transaction fails: an error like any other, and it counts
\* against the domain the payload names.
FailPage(j) ==
  /\ Walking(fan[j])
  /\ IncrementDomainFailure(PayloadDomains(fan[j]))
  /\ fan' = Noticed(AfterAttempt(j, fan[j].attempts))
  /\ UNCHANGED <<table, post, mentions, out>>

\* The process dies and the job is recovered.
Crash(j) ==
  /\ Walking(fan[j])
  /\ fan' = AfterAttempt(j, fan[j].attempts)
  /\ UNCHANGED <<table, post, mentions, out, breaker>>

-----------------------------------------------------------------------------
(* Deliveries.                                                             *)

Type(x) == ChildOf[fan[x.fan].kind]

\* process: a delivery that returned nil resets the counter of the domain and
\* is completed; any error counts against the domain.
Succeed(x) ==
  /\ ResetDomainFailure({DomainOf[x.to]})
  /\ out' = out \ {x}
  /\ UNCHANGED <<table, post, mentions, fan>>

Fail(x) ==
  /\ IncrementDomainFailure({DomainOf[x.to]})
  /\ out' = IF x.tries + 1 = MaxAttempts THEN out \ {x}
            ELSE (out \ {x}) \cup {[x EXCEPT !.tries = @ + 1]}
  /\ fan' = Noticed(fan)
  /\ UNCHANGED <<table, post, mentions>>

\* resolveActor and activitypub.Deliver, which the server may refuse.
Send(x) ==
  \/ Succeed(x)
  \/ DomainOf[x.to] \in Refusing /\ Fail(x)

\* The Create and the Update carry the post as it is by now; that it is gone
\* is an error like any other.
DeliverNote(x) ==
  /\ Type(x) = "deliver_note"
  /\ IF post = "live" THEN Send(x) ELSE Fail(x)

DeliverUpdateNote(x) ==
  /\ Type(x) = "deliver_update_note"
  /\ IF post = "live" THEN Send(x) ELSE Fail(x)

DeliverDeleteNote(x) == Type(x) = "deliver_delete_note" /\ Send(x)

DeliverUpdate(x) == Type(x) = "deliver_update" /\ Send(x)

DeliverAnnounce(x) == Type(x) = "deliver_announce" /\ Send(x)

Deliver(x) ==
  \/ DeliverNote(x) \/ DeliverUpdateNote(x) \/ DeliverDeleteNote(x)
  \/ DeliverUpdate(x) \/ DeliverAnnounce(x)

-----------------------------------------------------------------------------
(* Followers, the clock and the administrator.                             *)

\* An Undo Follow, a block or followers.delete.
Leave(a) ==
  /\ a \in Followers \cap Restless
  /\ follower' = [follower EXCEPT ![a] = 0]
  /\ fan' = [j \in Jobs |-> [fan[j] EXCEPT !.stayed = @ \ {a}]]
  /\ UNCHANGED <<lastId, post, mentions, out, breaker>>

\* A Follow, possibly of someone who has left.
Join(a) ==
  /\ a \notin Followers
  /\ lastId < MaxId
  /\ lastId' = lastId + 1
  /\ follower' = [follower EXCEPT ![a] = lastId + 1]
  /\ UNCHANGED <<post, mentions, fan, out, breaker>>

\* deadWindow has passed since the last failure; below the threshold nothing
\* asks for it.
WindowPasses(d) ==
  /\ IsDomainDead(d)
  /\ recent' = [recent EXCEPT ![d] = FALSE]
  /\ UNCHANGED <<table, post, mentions, fan, out, failures>>

\* domains.reset_failure
ResetFailure(d) ==
  /\ failures[d] > 0
  /\ ResetDomainFailure({d})
  /\ UNCHANGED <<table, post, mentions, fan, out>>

Work(j) ==
  \/ DeliverPost(j) \/ UpdatePost(j) \/ UpdateActor(j) \/ DeliverDelete(j)
  \/ SendAnnounce(j) \/ SendUndoAnnounce(j)
  \/ ReadPage(j) \/ WritePage(j)

Next ==
  \/ \E j \in Jobs : Request(j) \/ Work(j) \/ FailPage(j) \/ Crash(j)
  \/ \E x \in out : Deliver(x)
  \/ \E a \in Actors : Leave(a) \/ Join(a)
  \/ \E d \in Domains : WindowPasses(d) \/ ResetFailure(d)

Spec == Init /\ [][Next]_vars

\* Workers execute the fan-outs that are in the queue.  Nothing is assumed of
\* deliveries, servers, followers and the clock.
FairSpec == Spec /\ \A j \in Jobs : WF_vars(Work(j))

-----------------------------------------------------------------------------
(* Properties.                                                             *)

\* A fan-out that ends has a delivery for everybody who followed from the
\* start of its last attempt to its end, unless their domain was dead at some
\* time of the attempt, or the delivery was one of those enqueued before the
\* walk and that Enqueue failed.
EveryFollowerServed ==
  \A j \in Jobs : fan[j].pc = "done" =>
    \A a \in fan[j].stayed :
      \/ fan[j].enqueued[a] > 0
      \/ DomainOf[a] \in fan[j].wasDead
      \/ a \in fan[j].lost

\* One attempt of a fan-out enqueues at most one delivery for an actor that
\* follows all the while, be it mentioned, replied to and a follower at once;
\* unless the post mentions it by several accts, each of which gets it one: to
\* those the walk adds none.
ServedOnce ==
  \A j \in Jobs : \A a \in fan[j].stayed :
    \/ fan[j].enqueued[a] <= 1
    \/ /\ fan[j].kind \in {"deliver_post", "update_post"}
       /\ fan[j].enqueued[a] <= Cardinality({m \in Mentioned : ActorOf[m] = a})

\* A fan-out that was requested ends, although it starts over from the first
\* page, although whole pages may have nothing for it to enqueue, and although
\* followers come back behind its cursor.
FanoutEnds ==
  \A j \in Jobs : fan[j].pc = "waiting" ~> fan[j].pc \in {"done", "dead"}

=============================================================================
