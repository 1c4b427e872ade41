----------------------------- MODULE FollowGraph ----------------------------
(***************************************************************************)
(* Follows, followers and blocks between two murlog servers with one       *)
(* persona each.  The same handlers run on both: the API methods of the    *)
(* administrator, the inbox, and the jobs that carry an activity to the    *)
(* other side.                                                             *)
(*                                                                         *)
(* A handler is a list of statements, each of which is atomic in the       *)
(* database and none of which is in a transaction with the next; one API   *)
(* request and one inbox request of a server run at the same time.  A job  *)
(* may be executed late, twice, after jobs enqueued later, or never.       *)
(***************************************************************************)
EXTENDS Naturals, Sequences, FiniteSets

CONSTANTS
  Servers,      \* two of them
  MaxFollows,   \* bound on the follows each server creates
  MaxOps,       \* bound on the API requests of both
  Ops,          \* the API methods used: a subset of Methods
  Hostings      \* how the hosts of the two may be written: functions to Hosts

ASSUME TwoServers == \E a, b \in Servers : a # b /\ Servers = {a, b}

ASSUME FollowsAreCounted == MaxFollows \in Nat \ {0} /\ MaxOps \in Nat

Slots == {"api", "inbox"}

Other(s) == CHOOSE t \in Servers : t # s

\* A plain host is a domain and nothing else.  A ported one has a port behind
\* the domain.  An odd one has a character that isValidDomain refuses, such as
\* an underscore.
Hosts == {"plain", "ported", "odd"}

ASSUME HostsAreWritten == Hostings \subseteq [Servers -> Hosts]

VARIABLES
  follow,      \* the row of table follows for the other side: id, accepted
  follower,    \* the row of table followers: "none", or pending or approved,
               \* and the Follow it answers (of)
  blocked,     \* the rows of blocks and domain_blocks that match the other
  followers, following,  \* the cached counters of the persona
  locked,      \* the persona approves followers by hand
  host,        \* how the URI of the server's actor writes its host
  run,         \* the requests under way
  jobs,        \* the jobs in the queue
  wire,        \* the activities on their way from a server
  nextFollow,  \* follow ids given so far
  ops,         \* API requests so far
  slipped,     \* history: rows inserted while their actor was blocked
  orderly      \* history: every API request began when nothing was under
               \* way, and said what it did to the other side

tables == <<follow, follower, blocked>>
counters == <<followers, following>>
vars == <<follow, follower, blocked, followers, following, locked, host,
          run, jobs, wire, nextFollow, ops, slipped, orderly>>

\* The statements of the API methods, in their order.
FollowsCreate == <<"IsBlocked", "CreateFollow", "RefreshFollowing", "SendFollow">>
FollowsDelete == <<"GetFollow", "DeleteFollow", "RefreshFollowing", "SendUndoFollow">>
FollowersDelete == <<"DeleteFollower", "RefreshFollowers">>
FollowersApprove == <<"GetFollower", "ApproveFollower", "RefreshFollowers", "SendAccept">>
FollowersReject == <<"GetFollower", "DeleteFollower", "RefreshFollowers", "SendReject">>
BlocksCreate ==
  <<"CreateBlock", "DeleteFollowerByActor", "RefreshFollowers",
    "GetFollowByTarget", "DeleteFollow", "RefreshFollowing", "SendBlock">>
BlocksDelete == <<"DeleteBlock", "SendUndoBlock">>
DomainBlocksCreate ==
  <<"CreateDomainBlock", "DeleteFollowsByDomain", "RefreshFollowing",
    "DeleteFollowersByDomain", "RefreshFollowers", "CancelByDomain">>
DomainBlocksDelete == <<"DeleteDomainBlock">>

Methods ==
  [follows_create |-> FollowsCreate, follows_delete |-> FollowsDelete,
   followers_delete |-> FollowersDelete, followers_approve |-> FollowersApprove,
   followers_reject |-> FollowersReject, blocks_create |-> BlocksCreate,
   blocks_delete |-> BlocksDelete, domain_blocks_create |-> DomainBlocksCreate,
   domain_blocks_delete |-> DomainBlocksDelete]

ASSUME OpsAreMethods == Ops \subseteq DOMAIN Methods

\* The statements of the inbox for each activity.  Undo and Block pass without
\* a look at the blocks; the Undo of a Block is ignored.
InboxFollow == <<"IsBlocked", "CreateFollower", "RefreshFollowers", "AutoAccept">>
InboxUndo == <<"DeleteFollowerByActor", "RefreshFollowers">>
InboxAccept == <<"IsBlocked", "GetFollowByTarget", "UpdateFollow">>
InboxReject == <<"IsBlocked", "GetFollowByTarget", "DeleteFollow", "RefreshFollowing">>
InboxBlock ==
  <<"DeleteFollowerByActor", "RefreshFollowers",
    "GetFollowByTarget", "DeleteFollow", "RefreshFollowing">>

Activities ==
  [Follow |-> InboxFollow, Undo |-> InboxUndo, Accept |-> InboxAccept,
   Reject |-> InboxReject, Block |-> InboxBlock, UndoBlock |-> <<>>]

Ids == 0..MaxFollows

\* of is the id of the Follow an activity is about, or is answered by; the
\* handlers look at it only where they send.
Activity == [type : DOMAIN Activities, of : Ids]

\* A request: what is left to do, the follow it found, the Follow it is about.
Idle == [op |-> "none", todo |-> <<>>, found |-> 0, of |-> 0]

NoFollow == [id |-> 0, accepted |-> FALSE]
NoFollower == [state |-> "none", of |-> 0]

TypeOK ==
  /\ follow \in [Servers -> [id : Ids, accepted : BOOLEAN]]
  /\ follower \in [Servers -> [state : {"none", "pending", "approved"}, of : Ids]]
  /\ blocked \in [Servers -> SUBSET {"actor", "domain"}]
  /\ followers \in [Servers -> 0..1] /\ following \in [Servers -> 0..1]
  /\ locked \in [Servers -> BOOLEAN] /\ host \in [Servers -> Hosts]
  /\ \A s \in Servers : \A k \in Slots :
       /\ run[s][k].op \in {"none"} \cup DOMAIN Methods \cup DOMAIN Activities
       /\ run[s][k].found \in Ids /\ run[s][k].of \in Ids
  /\ jobs \in [Servers -> SUBSET Activity] /\ wire \in [Servers -> SUBSET Activity]
  /\ nextFollow \in [Servers -> Ids] /\ ops \in 0..MaxOps
  /\ slipped \in BOOLEAN /\ orderly \in BOOLEAN

\* Each side follows the other, has asked to, or does not, and both know it.
Init ==
  \E stage \in [Servers -> {"none", "asked", "accepted"}] :
    /\ follow = [s \in Servers |->
                   IF stage[s] = "none" THEN NoFollow
                   ELSE [id |-> 1, accepted |-> stage[s] = "accepted"]]
    /\ follower = [s \in Servers |->
                     CASE stage[Other(s)] = "none" -> NoFollower
                       [] stage[Other(s)] = "asked" -> [state |-> "pending", of |-> 1]
                       [] stage[Other(s)] = "accepted" -> [state |-> "approved", of |-> 1]]
    /\ blocked = [s \in Servers |-> {}]
    /\ followers = [s \in Servers |-> IF follower[s].state = "approved" THEN 1 ELSE 0]
    /\ following = [s \in Servers |-> IF follow[s] = NoFollow THEN 0 ELSE 1]
    /\ locked \in [Servers -> BOOLEAN] /\ host \in Hostings
    /\ run = [s \in Servers |-> [k \in Slots |-> Idle]]
    /\ jobs = [s \in Servers |-> {}] /\ wire = [s \in Servers |-> {}]
    /\ nextFollow = [s \in Servers |-> follow[s].id]
    /\ ops = 0
    /\ slipped = FALSE /\ orderly = TRUE

Quiet ==
  \A s \in Servers :
    /\ jobs[s] = {} /\ wire[s] = {}
    /\ \A k \in Slots : run[s][k] = Idle

-----------------------------------------------------------------------------
(* What the lists show.                                                    *)

ListFollows(s) == {follow[s]} \ {NoFollow}
ListFollowers(s) == {f \in {follower[s]} : f.state = "approved"}
ListPendingFollowers(s) == {f \in {follower[s]} : f.state = "pending"}

-----------------------------------------------------------------------------
(* Requests and their statements.                                          *)

\* Request k of s is at a statement; it goes on, knowing found and of; it
\* returns early.
At(s, k, statement) ==
  run[s][k].todo # <<>> /\ Head(run[s][k].todo) = statement

GoOnWith(s, k, found, of) ==
  LET r == run[s][k] IN
  run' = [run EXCEPT ![s][k] =
            IF Tail(r.todo) = <<>> THEN Idle
            ELSE [r EXCEPT !.todo = Tail(@), !.found = found, !.of = of]]

GoOn(s, k) == GoOnWith(s, k, run[s][k].found, run[s][k].of)

\* Without the refresh that follows.
GoOnWithoutRefresh(s, k) ==
  LET r == run[s][k] IN
  run' = [run EXCEPT ![s][k] =
            IF Len(r.todo) <= 2 THEN Idle ELSE [r EXCEPT !.todo = Tail(Tail(@))]]

Return(s, k) == run' = [run EXCEPT ![s][k] = Idle]

history == <<ops, slipped, orderly>>

\* Enqueue, whose error no handler looks at, in the last statement of a request.
Enqueue(s, k, statement, type, of) ==
  /\ At(s, k, statement)
  /\ jobs' = [jobs EXCEPT ![s] = @ \cup {[type |-> type, of |-> of]}]
  /\ GoOn(s, k)
  /\ UNCHANGED <<tables, counters, locked, host, wire, nextFollow, history>>

\* The domain of the other's URI, without the port, is looked up as it is.
IsBlockedBy(s) == blocked[s] # {}

\* handleInbox, follows.create: an activity of a blocked actor is dropped.
IsBlocked(s, k) ==
  /\ At(s, k, "IsBlocked")
  /\ IF IsBlockedBy(s) THEN Return(s, k) ELSE GoOn(s, k)
  /\ UNCHANGED <<tables, counters, locked, host, jobs, wire, nextFollow, history>>

\* Statements that change only a table.
Change(s, k, statement, newFollow, newFollower, newBlocked) ==
  /\ At(s, k, statement)
  /\ follow' = [follow EXCEPT ![s] = newFollow]
  /\ follower' = [follower EXCEPT ![s] = newFollower]
  /\ blocked' = [blocked EXCEPT ![s] = newBlocked]
  /\ UNCHANGED <<counters, locked, host, jobs, wire, ops, orderly>>

(* Wrong variants of statements below, which no specification uses.        *)

\* Only a request that waits for approval is removed.
DeletePendingFollowerByActor(s, k) ==
  /\ Change(s, k, "DeleteFollowerByActor", follow[s],
            IF follower[s].state = "pending" THEN NoFollower ELSE follower[s], blocked[s])
  /\ GoOn(s, k)
  /\ UNCHANGED <<nextFollow, slipped>>

\* The counter is taken to be what the statement before it made of it.
RefreshFollowersByOperation(s, k) ==
  /\ At(s, k, "RefreshFollowers")
  /\ followers' = [followers EXCEPT ![s] =
                     IF run[s][k].op = "followers_approve" \/ (run[s][k].op = "Follow" /\ ~locked[s])
                     THEN 1 ELSE 0]
  /\ GoOn(s, k)
  /\ UNCHANGED <<tables, following, locked, host, jobs, wire, nextFollow, history>>

\* The counter of follows is increased and decreased.
RefreshFollowingByOne(s, k) ==
  /\ At(s, k, "RefreshFollowing")
  /\ following' = [following EXCEPT ![s] = IF run[s][k].op = "follows_create" THEN @ + 1 ELSE @ - 1]
  /\ GoOn(s, k)
  /\ UNCHANGED <<tables, followers, locked, host, jobs, wire, nextFollow, history>>

\* Approved, but the follower is not told.
ApproveWithoutAnswer(s, k) ==
  /\ Change(s, k, "ApproveFollower", follow[s],
            IF follower[s].of # run[s][k].of THEN follower[s] ELSE [follower[s] EXCEPT !.state = "approved"],
            blocked[s])
  /\ run' = [run EXCEPT ![s][k] = [@ EXCEPT !.todo = <<"RefreshFollowers">>]]
  /\ UNCHANGED <<nextFollow, slipped>>

\* UNIQUE(persona_id, target_uri): one row for a target.
CreateFollow(s, k) ==
  /\ Change(s, k, "CreateFollow",
            IF follow[s] = NoFollow THEN [id |-> nextFollow[s] + 1, accepted |-> FALSE] ELSE follow[s],
            follower[s], blocked[s])
  /\ IF follow[s] = NoFollow
     THEN /\ nextFollow' = [nextFollow EXCEPT ![s] = @ + 1]
          /\ slipped' = (slipped \/ IsBlockedBy(s))
          /\ GoOnWith(s, k, nextFollow[s] + 1, 0)
     ELSE Return(s, k) /\ UNCHANGED <<nextFollow, slipped>>

\* GetFollow and GetFollowByTarget: without a row API and inbox return; the
\* block methods go on.
GetFollowByTarget(s, k) ==
  /\ \E g \in {"GetFollow", "GetFollowByTarget"} : At(s, k, g)
  /\ IF follow[s] = NoFollow /\ run[s][k].op \in {"follows_delete", "Accept", "Reject"}
     THEN Return(s, k)
     ELSE GoOnWith(s, k, follow[s].id, run[s][k].of)
  /\ UNCHANGED <<tables, counters, locked, host, jobs, wire, nextFollow, history>>

\* By id: of no effect on a row that was replaced.
UpdateFollow(s, k) ==
  /\ Change(s, k, "UpdateFollow",
            IF follow[s].id = run[s][k].found THEN [follow[s] EXCEPT !.accepted = TRUE] ELSE follow[s],
            follower[s], blocked[s])
  /\ GoOn(s, k)
  /\ UNCHANGED <<nextFollow, slipped>>

DeleteFollow(s, k) ==
  /\ Change(s, k, "DeleteFollow",
            IF follow[s].id = run[s][k].found THEN NoFollow ELSE follow[s], follower[s], blocked[s])
  /\ IF follow[s] = NoFollow \/ follow[s].id # run[s][k].found
     THEN GoOnWithoutRefresh(s, k) ELSE GoOn(s, k)
  /\ UNCHANGED <<nextFollow, slipped>>

\* LIKE '%://domain/%': it finds the URIs of a plain host only.  An odd domain
\* is an error, which the method ignores, before anything is deleted or counted.
RowsOfDomain(s) == host[Other(s)] = "plain"

GoOnFromDomain(s, k) ==
  IF host[Other(s)] = "odd" THEN GoOnWithoutRefresh(s, k) ELSE GoOn(s, k)

DeleteFollowsByTargetDomain(s, k) ==
  /\ Change(s, k, "DeleteFollowsByDomain",
            IF RowsOfDomain(s) THEN NoFollow ELSE follow[s], follower[s], blocked[s])
  /\ GoOnFromDomain(s, k)
  /\ UNCHANGED <<nextFollow, slipped>>

\* UNIQUE(persona_id, actor_uri): a second Follow is answered with 202 and
\* nothing else happens.
CreateFollower(s, k) ==
  /\ Change(s, k, "CreateFollower", follow[s],
            IF follower[s] = NoFollower
            THEN [state |-> IF locked[s] THEN "pending" ELSE "approved", of |-> run[s][k].of]
            ELSE follower[s],
            blocked[s])
  /\ IF follower[s] = NoFollower
     THEN GoOn(s, k) /\ slipped' = (slipped \/ IsBlockedBy(s))
     ELSE Return(s, k) /\ UNCHANGED slipped
  /\ UNCHANGED nextFollow

\* Methods on a follower name the id of the row; of stands for it.
GetFollower(s, k) ==
  /\ At(s, k, "GetFollower")
  /\ IF follower[s].of # run[s][k].of THEN Return(s, k) ELSE GoOn(s, k)
  /\ UNCHANGED <<tables, counters, locked, host, jobs, wire, nextFollow, history>>

ApproveFollower(s, k) ==
  /\ Change(s, k, "ApproveFollower", follow[s],
            IF follower[s].of # run[s][k].of THEN follower[s] ELSE [follower[s] EXCEPT !.state = "approved"],
            blocked[s])
  /\ IF follower[s].of # run[s][k].of THEN GoOnWithoutRefresh(s, k) ELSE GoOn(s, k)
  /\ UNCHANGED <<nextFollow, slipped>>

DeleteFollower(s, k) ==
  /\ Change(s, k, "DeleteFollower", follow[s],
            IF follower[s].of = run[s][k].of THEN NoFollower ELSE follower[s], blocked[s])
  /\ IF follower[s].of # run[s][k].of THEN GoOnWithoutRefresh(s, k) ELSE GoOn(s, k)
  /\ UNCHANGED <<nextFollow, slipped>>

DeleteFollowerByActorURI(s, k) ==
  /\ Change(s, k, "DeleteFollowerByActor", follow[s], NoFollower, blocked[s])
  /\ GoOn(s, k)
  /\ UNCHANGED <<nextFollow, slipped>>

DeleteFollowersByActorDomain(s, k) ==
  /\ Change(s, k, "DeleteFollowersByDomain", follow[s],
            IF RowsOfDomain(s) THEN NoFollower ELSE follower[s], blocked[s])
  /\ GoOnFromDomain(s, k)
  /\ UNCHANGED <<nextFollow, slipped>>

\* UNIQUE(actor_uri) and UNIQUE(domain): the second block is a conflict.
CreateBlock(s, k, statement, kind) ==
  /\ Change(s, k, statement, follow[s], follower[s], blocked[s] \cup {kind})
  /\ IF kind \in blocked[s] THEN Return(s, k) ELSE GoOn(s, k)
  /\ UNCHANGED <<nextFollow, slipped>>

DeleteBlock(s, k, statement, kind) ==
  /\ Change(s, k, statement, follow[s], follower[s], blocked[s] \ {kind})
  /\ GoOn(s, k)
  /\ UNCHANGED <<nextFollow, slipped>>

\* A count of the rows as they are when it runs, not when they changed.
RefreshFollowersCount(s, k) ==
  /\ At(s, k, "RefreshFollowers")
  /\ followers' = [followers EXCEPT ![s] = Cardinality(ListFollowers(s))]
  /\ GoOn(s, k)
  /\ UNCHANGED <<tables, following, locked, host, jobs, wire, nextFollow, history>>

RefreshFollowingCount(s, k) ==
  /\ At(s, k, "RefreshFollowing")
  /\ following' = [following EXCEPT ![s] = Cardinality(ListFollows(s))]
  /\ GoOn(s, k)
  /\ UNCHANGED <<tables, followers, locked, host, jobs, wire, nextFollow, history>>

\* Pending and failed jobs; what is on the wire goes on.  Its patterns know of
\* ports, and no domain is refused.  A send_follow job names its follow and no
\* URI, so it is not found.
CancelByDomain(s, k) ==
  /\ At(s, k, "CancelByDomain")
  /\ jobs' = [jobs EXCEPT ![s] = {j \in @ : j.type = "Follow"}]
  /\ GoOn(s, k)
  /\ UNCHANGED <<tables, counters, locked, host, wire, nextFollow, history>>

SendAnswers(s, k) ==
  \/ Enqueue(s, k, "SendAccept", "Accept", run[s][k].of)
  \/ Enqueue(s, k, "SendReject", "Reject", run[s][k].of)

\* The end of handleInboxFollow, which read locked before it began.
AutoAccept(s, k) ==
  IF locked[s]
  THEN /\ At(s, k, "AutoAccept")
       /\ GoOn(s, k)
       /\ UNCHANGED <<tables, counters, locked, host, jobs, wire, nextFollow, history>>
  ELSE Enqueue(s, k, "AutoAccept", "Accept", run[s][k].of)

SendRequests(s, k) ==
  \/ Enqueue(s, k, "SendFollow", "Follow", run[s][k].found)
  \/ Enqueue(s, k, "SendUndoFollow", "Undo", run[s][k].found)
  \/ Enqueue(s, k, "SendBlock", "Block", 0)
  \/ Enqueue(s, k, "SendUndoBlock", "UndoBlock", 0)

Statement(s, k) ==
  \/ IsBlocked(s, k)
  \/ CreateFollow(s, k) \/ GetFollowByTarget(s, k) \/ UpdateFollow(s, k)
  \/ DeleteFollow(s, k) \/ DeleteFollowsByTargetDomain(s, k)
  \/ CreateFollower(s, k) \/ GetFollower(s, k) \/ ApproveFollower(s, k)
  \/ DeleteFollower(s, k) \/ DeleteFollowerByActorURI(s, k)
  \/ DeleteFollowersByActorDomain(s, k)
  \/ CreateBlock(s, k, "CreateBlock", "actor")
  \/ CreateBlock(s, k, "CreateDomainBlock", "domain")
  \/ DeleteBlock(s, k, "DeleteBlock", "actor")
  \/ DeleteBlock(s, k, "DeleteDomainBlock", "domain")
  \/ RefreshFollowersCount(s, k) \/ RefreshFollowingCount(s, k)
  \/ CancelByDomain(s, k)
  \/ SendAnswers(s, k) \/ AutoAccept(s, k) \/ SendRequests(s, k)

-----------------------------------------------------------------------------
(* API requests, jobs and the inbox.                                       *)

\* followers.delete and the domain blocks tell the other side nothing.
Silent == {"followers_delete", "domain_blocks_create", "domain_blocks_delete"}

\* A request of the administrator, who sees the rows: the methods on a
\* follow or a follower name one that is there.
Call(s, op) ==
  /\ ops < MaxOps
  /\ run[s]["api"] = Idle
  /\ op \in {"followers_approve", "followers_reject"} => ListPendingFollowers(s) # {}
  /\ op = "followers_delete" => ListFollowers(s) # {}
  /\ op = "follows_delete" => ListFollows(s) # {}
  /\ op = "follows_create" => nextFollow[s] < MaxFollows
  /\ run' = [run EXCEPT ![s]["api"] =
               [op |-> op, todo |-> Methods[op], found |-> 0, of |-> follower[s].of]]
  /\ ops' = ops + 1
  /\ orderly' = (orderly /\ Quiet /\ op \notin Silent)
  /\ UNCHANGED <<tables, counters, locked, host, jobs, wire, nextFollow, slipped>>

\* A worker executes a job up to the delivery.
Send(s, j) ==
  /\ jobs' = [jobs EXCEPT ![s] = @ \ {j}]
  /\ wire' = [wire EXCEPT ![s] = @ \cup {j}]
  /\ UNCHANGED <<tables, counters, locked, host, run, nextFollow, history>>

\* It reads the follow again and fails when it is gone; the other jobs use
\* their payload.
HandleSendFollow(s, j) == j.type = "Follow" /\ follow[s].id = j.of /\ Send(s, j)
HandleSendUndoFollow(s, j) == j.type = "Undo" /\ Send(s, j)
HandleAcceptFollow(s, j) == j.type = "Accept" /\ Send(s, j)
HandleRejectFollow(s, j) == j.type = "Reject" /\ Send(s, j)
HandleSendBlock(s, j) == j.type = "Block" /\ Send(s, j)
HandleSendUndoBlock(s, j) == j.type = "UndoBlock" /\ Send(s, j)

Execute(s, j) ==
  \/ HandleSendFollow(s, j) \/ HandleSendUndoFollow(s, j)
  \/ HandleAcceptFollow(s, j) \/ HandleRejectFollow(s, j)
  \/ HandleSendBlock(s, j) \/ HandleSendUndoBlock(s, j)

\* The activity arrives; the job is completed, or the answer is lost and the
\* job is tried again.
Receive(s, j) ==
  LET t == Other(s) IN
  /\ j \in wire[s]
  /\ run[t]["inbox"] = Idle
  /\ wire' = [wire EXCEPT ![s] = @ \ {j}]
  /\ jobs' \in {jobs, [jobs EXCEPT ![s] = @ \cup {j}]}
  /\ run' = [run EXCEPT ![t]["inbox"] =
               IF Activities[j.type] = <<>> THEN Idle
               ELSE [op |-> j.type, todo |-> Activities[j.type], found |-> 0, of |-> j.of]]
  /\ UNCHANGED <<tables, counters, locked, host, nextFollow, history>>

\* A job has used up its attempts.  For a Follow whose row is gone that is the
\* proper end.
GiveUp(s, j) ==
  /\ j \in jobs[s]
  /\ jobs' = [jobs EXCEPT ![s] = @ \ {j}]
  /\ orderly' = (orderly /\ j.type = "Follow" /\ follow[s].id # j.of)
  /\ UNCHANGED <<tables, counters, locked, host, run, wire, nextFollow, ops, slipped>>

Next ==
  \E s \in Servers :
    \/ \E k \in Slots : Statement(s, k)
    \/ \E op \in Ops : Call(s, op)
    \/ \E j \in jobs[s] : Execute(s, j) \/ GiveUp(s, j)
    \/ \E j \in wire[s] : Receive(s, j)

Spec == Init /\ [][Next]_vars

-----------------------------------------------------------------------------
(* Properties.                                                             *)

\* The block of s covers the rows of the other, and not only its requests: a
\* block of the actor does, one of its domain when the host is plain.
BlockCovers(s) ==
  "actor" \in blocked[s] \/ ("domain" \in blocked[s] /\ RowsOfDomain(s))

\* While an actor or its plain domain is blocked, and no method that blocks it
\* is at work, it neither follows nor is followed; but for a request that looked
\* at the blocks before the block and inserted its row after the block had
\* removed the others.
BlockHolds ==
  \A s \in Servers :
    (/\ BlockCovers(s)
     /\ run[s]["api"].op \notin {"blocks_create", "domain_blocks_create"})
    => slipped \/ (follow[s] = NoFollow /\ follower[s] = NoFollower)

\* Whatever order changes of the tables and refreshes of the counters come
\* in, the counters are right when no request is at work.
CountersSettle ==
  \A s \in Servers : (\A k \in Slots : run[s][k] = Idle) =>
    /\ followers[s] = Cardinality(ListFollowers(s))
    /\ following[s] = Cardinality(ListFollows(s))

\* When every request began in a quiet system and was of a kind that tells the
\* other side, then, once all is quiet, the sides agree, although deliveries
\* are repeated: who is approved as a follower knows it, and whoever is
\* listed as a follower wants to be one.
SidesAgree ==
  orderly /\ Quiet =>
    \A s \in Servers : LET t == Other(s) IN
      /\ follow[s].accepted <=> follower[t].state = "approved"
      /\ follower[t] # NoFollower => follow[s] # NoFollow

=============================================================================
