-------------------------- MODULE FollowGraphProofs --------------------------
(***************************************************************************)
(* Proofs about module FollowGraph, for any number of follows and requests *)
(* and any of the methods.                                                 *)
(***************************************************************************)
EXTENDS FollowGraph, FiniteSetTheorems, SequenceTheorems, TLAPS

Statements ==
  {"IsBlocked", "CreateFollow", "RefreshFollowing", "SendFollow", "GetFollow",
   "DeleteFollow", "SendUndoFollow", "DeleteFollower", "RefreshFollowers",
   "GetFollower", "ApproveFollower", "SendAccept", "SendReject", "CreateBlock",
   "DeleteFollowerByActor", "GetFollowByTarget", "SendBlock", "DeleteBlock",
   "SendUndoBlock", "CreateDomainBlock", "DeleteFollowsByDomain",
   "DeleteFollowersByDomain", "CancelByDomain", "DeleteDomainBlock", "CreateFollower",
   "AutoAccept", "UpdateFollow"}

FollowChanges == {"CreateFollow", "DeleteFollow", "DeleteFollowsByDomain"}
FollowerChanges ==
  {"CreateFollower", "ApproveFollower", "DeleteFollower", "DeleteFollowerByActor",
   "DeleteFollowersByDomain"}
FollowRemovals == {"DeleteFollow", "DeleteFollowsByDomain"}
FollowerRemovals == {"DeleteFollowerByActor", "DeleteFollowersByDomain"}
BlockCreations == {"CreateBlock", "CreateDomainBlock"}
Gets == {"GetFollow", "GetFollowByTarget"}

Blocking == {"blocks_create", "domain_blocks_create"}

\* What the blocks have no use for.
NotBlocking ==
  {"IsBlocked", "CreateFollow", "CreateFollower", "UpdateFollow", "GetFollower",
   "ApproveFollower", "DeleteFollower"}

-----------------------------------------------------------------------------
(* Lists of statements.                                                    *)

Has(t, X) == \E i \in 1..Len(t) : t[i] \in X

Lacks(t, X) == \A i \in 1..Len(t) : t[i] \notin X

EachThen(t, X, y) == \A i \in 1..Len(t) : t[i] \in X => i + 1 \in 1..Len(t) /\ t[i + 1] = y

EachLater(t, X, Y) ==
  \A i \in 1..Len(t) : t[i] \in X => \E n \in 1..Len(t) : i < n /\ t[n] \in Y

EachAfter(t, X, Y) == \A i \in 1..Len(t) : t[i] \in X /\ i # 1 => t[i - 1] \in Y

NoneAfter(t, X, Y) == \A i, j \in 1..Len(t) : t[i] \in X /\ i < j => t[j] \notin Y

OnlyFirst(t, X) == \A i \in 1..Len(t) : t[i] \in X => i = 1

\* A block of either kind is followed by removals from both tables.
BlockedRowsGo(t) ==
  /\ EachLater(t, {"CreateBlock"}, {"DeleteFollow"})
  /\ EachLater(t, {"CreateBlock"}, {"DeleteFollowerByActor"})
  /\ EachLater(t, {"CreateDomainBlock"}, {"DeleteFollowsByDomain"})
  /\ EachLater(t, {"CreateDomainBlock"}, {"DeleteFollowersByDomain"})

\* What is left of the lists of FollowGraph: a change of a table is followed by
\* the refresh of its counter, a block by the removals, and a follow is changed
\* right after it was read.
Good(op, t) ==
  /\ t \in Seq(Statements)
  /\ EachThen(t, FollowChanges, "RefreshFollowing")
  /\ EachThen(t, FollowerChanges, "RefreshFollowers")
  /\ OnlyFirst(t, BlockCreations)
  /\ BlockedRowsGo(t)
  /\ EachAfter(t, {"DeleteFollow", "UpdateFollow"}, Gets)
  /\ NoneAfter(t, {"CreateFollow", "SendFollow"}, {"CreateFollow"})
  /\ op \in Blocking => Lacks(t, NotBlocking)
  /\ op \notin Blocking => Lacks(t, BlockCreations)
  /\ op # "Accept" => Lacks(t, {"UpdateFollow"})
  /\ op # "follows_create" => Lacks(t, {"CreateFollow", "SendFollow"})
  /\ op # "Follow" => Lacks(t, {"CreateFollower"})
  /\ op # "followers_approve" => Lacks(t, {"ApproveFollower"})
  /\ op = "follows_create" => Lacks(t, Gets)

-----------------------------------------------------------------------------
(* The invariant.                                                          *)

Requests ==
  [op : {"none"} \cup DOMAIN Methods \cup DOMAIN Activities, todo : Seq(Statements),
   found : Ids, of : Ids]

Here(r, X) == r.todo # <<>> /\ Head(r.todo) \in X

\* What request r in slot k of s knows of the tables.
RequestOK(s, k, r) ==
  /\ r \in Requests /\ Good(r.op, r.todo)
  /\ k = "inbox" => r.op \notin DOMAIN Methods
  /\ k = "api" => r.op \notin DOMAIN Activities
  /\ r.todo = <<>> => r = Idle
  /\ r.op \in {"followers_approve", "Follow"} => r.of # 0
  /\ r.op = "follows_create" => IF Has(r.todo, {"CreateFollow"}) THEN nextFollow[s] < MaxFollows
                                ELSE r.found # 0
  /\ Here(r, {"UpdateFollow"}) => r.found # 0
  /\ k = "api" /\ Here(r, {"DeleteFollow"}) => follow[s] = NoFollow \/ follow[s].id = r.found

FollowRows == {x \in [id : Ids, accepted : BOOLEAN] : x.id = 0 => x = NoFollow}
FollowerRows ==
  {x \in [state : {"none", "pending", "approved"}, of : Ids] : x.of = 0 <=> x = NoFollower}

Letters == {x \in Activity : x.type = "Follow" => x.of # 0}

RowsOK ==
  /\ follow \in [Servers -> FollowRows] /\ follower \in [Servers -> FollowerRows]
  /\ blocked \in [Servers -> SUBSET {"actor", "domain"}]
  /\ followers \in [Servers -> 0..1] /\ following \in [Servers -> 0..1]
  /\ locked \in [Servers -> BOOLEAN] /\ host \in [Servers -> Hosts]
  /\ jobs \in [Servers -> SUBSET Letters] /\ wire \in [Servers -> SUBSET Letters]
  /\ nextFollow \in [Servers -> Ids] /\ ops \in 0..MaxOps
  /\ slipped \in BOOLEAN /\ orderly \in BOOLEAN

RunsOK ==
  /\ run \in [Servers -> [Slots -> Requests]]
  /\ \A s \in Servers : \A k \in Slots : RequestOK(s, k, run[s][k])

\* A counter is right, or a request is about to refresh it.
FollowersOK(s) ==
  \/ followers[s] = Cardinality(ListFollowers(s))
  \/ \E k \in Slots : Here(run[s][k], {"RefreshFollowers"})

FollowingOK(s) ==
  \/ following[s] = Cardinality(ListFollows(s))
  \/ \E k \in Slots : Here(run[s][k], {"RefreshFollowing"})

\* The method that blocks is past the block and will make one of the removals X.
Removing(r, X) == r.op \in Blocking /\ ~Here(r, BlockCreations) /\ Has(r.todo, X)

\* The removals of the block methods that find the rows of the other.
FollowRemovalsOf(s) == IF RowsOfDomain(s) THEN FollowRemovals ELSE {"DeleteFollow"}

FollowerRemovalsOf(s) ==
  IF RowsOfDomain(s) THEN FollowerRemovals ELSE {"DeleteFollowerByActor"}

BlocksOK(s) ==
  BlockCovers(s) =>
    \/ slipped
    \/ /\ follow[s] = NoFollow \/ Removing(run[s]["api"], FollowRemovalsOf(s))
       /\ follower[s] = NoFollower \/ Removing(run[s]["api"], FollowerRemovalsOf(s))

GraphInv ==
  /\ RowsOK /\ RunsOK
  /\ \A s \in Servers : FollowersOK(s) /\ FollowingOK(s) /\ BlocksOK(s)

LEMMA TailGood ==
  ASSUME NEW op, NEW t, Good(op, t), t # <<>>
  PROVE  /\ Good(op, Tail(t)) /\ Head(t) \in Statements /\ Head(t) = t[1] /\ Len(t) \in Nat \ {0}
         /\ Tail(t) \in Seq(Statements) /\ Len(Tail(t)) = Len(t) - 1
         /\ \A i \in 1..Len(Tail(t)) : Tail(t)[i] = t[i + 1]
<1>1. t \in Seq(Statements)
  BY DEF Good
<1>2. /\ Head(t) \in Statements /\ Head(t) = t[1] /\ Len(t) \in Nat \ {0}
      /\ Tail(t) \in Seq(Statements) /\ Len(Tail(t)) = Len(t) - 1
      /\ \A i \in 1..Len(Tail(t)) : Tail(t)[i] = t[i + 1] /\ i + 1 \in 1..Len(t)
  BY <1>1
<1> PICK u : u = Tail(t)
  OBVIOUS
<1>3. /\ u \in Seq(Statements) /\ Len(u) = Len(t) - 1
      /\ \A i \in 1..Len(u) : u[i] = t[i + 1] /\ i + 1 \in 1..Len(t)
  BY <1>2
<1>4. \A X : Lacks(t, X) => Lacks(u, X)
  BY <1>3 DEF Lacks
<1>5. \A X, y : EachThen(t, X, y) => EachThen(u, X, y)
  <2> SUFFICES ASSUME NEW X, NEW y, EachThen(t, X, y), NEW i \in 1..Len(u), u[i] \in X
               PROVE  i + 1 \in 1..Len(u) /\ u[i + 1] = y
    BY DEF EachThen
  <2>1. t[i + 1] \in X /\ i + 1 \in 1..Len(t)
    BY <1>3
  <2>2. i + 2 \in 1..Len(t) /\ t[i + 2] = y
    BY <2>1 DEF EachThen
  <2>3. i + 1 \in 1..Len(u)
    BY <1>2, <1>3, <2>2
  <2> QED
    BY <1>3, <2>2, <2>3
<1>6. \A X, Y : EachLater(t, X, Y) => EachLater(u, X, Y)
  <2> SUFFICES ASSUME NEW X, NEW Y, EachLater(t, X, Y), NEW i \in 1..Len(u), u[i] \in X
               PROVE  \E n \in 1..Len(u) : i < n /\ u[n] \in Y
    BY DEF EachLater
  <2>1. t[i + 1] \in X /\ i + 1 \in 1..Len(t)
    BY <1>3
  <2>2. PICK n \in 1..Len(t) : i + 1 < n /\ t[n] \in Y
    BY <2>1 DEF EachLater
  <2>3. n - 1 \in 1..Len(u) /\ i < n - 1 /\ (n - 1) + 1 = n
    BY <1>2, <1>3, <2>2
  <2>4. u[n - 1] = t[n]
    BY <1>3, <2>3
  <2> QED
    BY <2>2, <2>3, <2>4
<1>7. \A X, Y : EachAfter(t, X, Y) => EachAfter(u, X, Y)
  <2> SUFFICES ASSUME NEW X, NEW Y, EachAfter(t, X, Y), NEW i \in 1..Len(u), u[i] \in X, i # 1
               PROVE  u[i - 1] \in Y
    BY DEF EachAfter
  <2>1. t[i + 1] \in X /\ i + 1 \in 1..Len(t) /\ i + 1 # 1
    BY <1>3
  <2>2. t[(i + 1) - 1] \in Y
    BY <2>1 DEF EachAfter
  <2>3. i - 1 \in 1..Len(u) /\ (i - 1) + 1 = (i + 1) - 1
    BY <1>2, <1>3
  <2>4. u[i - 1] = t[(i + 1) - 1]
    BY <1>3, <2>3
  <2> QED
    BY <2>2, <2>4
<1>8. \A X : OnlyFirst(t, X) => OnlyFirst(u, X)
  BY <1>3 DEF OnlyFirst
<1>9. \A X, Y : NoneAfter(t, X, Y) => NoneAfter(u, X, Y)
  <2> SUFFICES ASSUME NEW X, NEW Y, NoneAfter(t, X, Y),
                      NEW i \in 1..Len(u), NEW j \in 1..Len(u), u[i] \in X, i < j
               PROVE  u[j] \notin Y
    BY DEF NoneAfter
  <2>1. /\ t[i + 1] \in X /\ i + 1 \in 1..Len(t) /\ j + 1 \in 1..Len(t) /\ i + 1 < j + 1
        /\ u[j] = t[j + 1]
    BY <1>3
  <2> QED
    BY <2>1 DEF NoneAfter
<1>10. Good(op, u)
  BY <1>3, <1>4, <1>5, <1>6, <1>7, <1>8, <1>9 DEF Good, BlockedRowsGo
<1> QED
  BY <1>2, <1>10

\* The lists as they are.
LEMMA FollowsCreateIsGood == Good("follows_create", FollowsCreate)
<1> PICK t : t = FollowsCreate
  OBVIOUS
<1>1. t \in Seq(Statements) /\ Len(t) = 4 /\ 1..Len(t) = {1, 2, 3, 4}
  BY DEF FollowsCreate, Statements
<1>2. t[1] = "IsBlocked" /\ t[2] = "CreateFollow" /\ t[3] = "RefreshFollowing" /\ t[4] = "SendFollow"
  BY DEF FollowsCreate
<1>3. EachThen(t, FollowChanges, "RefreshFollowing") /\ EachThen(t, FollowerChanges, "RefreshFollowers")
  BY <1>1, <1>2 DEF EachThen, FollowChanges, FollowerChanges
<1>4. OnlyFirst(t, BlockCreations) /\ EachAfter(t, {"DeleteFollow", "UpdateFollow"}, Gets)
  BY <1>1, <1>2 DEF OnlyFirst, EachAfter, BlockCreations, Gets
<1>5. BlockedRowsGo(t)
  BY <1>1, <1>2 DEF BlockedRowsGo, EachLater
<1>6. NoneAfter(t, {"CreateFollow", "SendFollow"}, {"CreateFollow"})
  BY <1>1, <1>2 DEF NoneAfter
<1> QED
  BY <1>1, <1>2, <1>3, <1>4, <1>5, <1>6 DEF Good, Lacks, Blocking, NotBlocking, BlockCreations, Gets

LEMMA FollowsDeleteIsGood == Good("follows_delete", FollowsDelete)
<1> PICK t : t = FollowsDelete
  OBVIOUS
<1>1. t \in Seq(Statements) /\ Len(t) = 4 /\ 1..Len(t) = {1, 2, 3, 4}
  BY DEF FollowsDelete, Statements
<1>2. t[1] = "GetFollow" /\ t[2] = "DeleteFollow" /\ t[3] = "RefreshFollowing" /\ t[4] = "SendUndoFollow"
  BY DEF FollowsDelete
<1>3. EachThen(t, FollowChanges, "RefreshFollowing") /\ EachThen(t, FollowerChanges, "RefreshFollowers")
  BY <1>1, <1>2 DEF EachThen, FollowChanges, FollowerChanges
<1>4. OnlyFirst(t, BlockCreations) /\ EachAfter(t, {"DeleteFollow", "UpdateFollow"}, Gets)
  BY <1>1, <1>2 DEF OnlyFirst, EachAfter, BlockCreations, Gets
<1>5. BlockedRowsGo(t)
  BY <1>1, <1>2 DEF BlockedRowsGo, EachLater
<1>6. NoneAfter(t, {"CreateFollow", "SendFollow"}, {"CreateFollow"})
  BY <1>1, <1>2 DEF NoneAfter
<1> QED
  BY <1>1, <1>2, <1>3, <1>4, <1>5, <1>6 DEF Good, Lacks, Blocking, NotBlocking, BlockCreations, Gets

LEMMA FollowersDeleteIsGood == Good("followers_delete", FollowersDelete)
<1> PICK t : t = FollowersDelete
  OBVIOUS
<1>1. t \in Seq(Statements) /\ Len(t) = 2 /\ 1..Len(t) = {1, 2}
  BY DEF FollowersDelete, Statements
<1>2. t[1] = "DeleteFollower" /\ t[2] = "RefreshFollowers"
  BY DEF FollowersDelete
<1>3. EachThen(t, FollowChanges, "RefreshFollowing") /\ EachThen(t, FollowerChanges, "RefreshFollowers")
  BY <1>1, <1>2 DEF EachThen, FollowChanges, FollowerChanges
<1>4. OnlyFirst(t, BlockCreations) /\ EachAfter(t, {"DeleteFollow", "UpdateFollow"}, Gets)
  BY <1>1, <1>2 DEF OnlyFirst, EachAfter, BlockCreations, Gets
<1>5. BlockedRowsGo(t)
  BY <1>1, <1>2 DEF BlockedRowsGo, EachLater
<1>6. NoneAfter(t, {"CreateFollow", "SendFollow"}, {"CreateFollow"})
  BY <1>1, <1>2 DEF NoneAfter
<1> QED
  BY <1>1, <1>2, <1>3, <1>4, <1>5, <1>6 DEF Good, Lacks, Blocking, NotBlocking, BlockCreations, Gets

LEMMA FollowersApproveIsGood == Good("followers_approve", FollowersApprove)
<1> PICK t : t = FollowersApprove
  OBVIOUS
<1>1. t \in Seq(Statements) /\ Len(t) = 4 /\ 1..Len(t) = {1, 2, 3, 4}
  BY DEF FollowersApprove, Statements
<1>2. t[1] = "GetFollower" /\ t[2] = "ApproveFollower" /\ t[3] = "RefreshFollowers" /\ t[4] = "SendAccept"
  BY DEF FollowersApprove
<1>3. EachThen(t, FollowChanges, "RefreshFollowing") /\ EachThen(t, FollowerChanges, "RefreshFollowers")
  BY <1>1, <1>2 DEF EachThen, FollowChanges, FollowerChanges
<1>4. OnlyFirst(t, BlockCreations) /\ EachAfter(t, {"DeleteFollow", "UpdateFollow"}, Gets)
  BY <1>1, <1>2 DEF OnlyFirst, EachAfter, BlockCreations, Gets
<1>5. BlockedRowsGo(t)
  BY <1>1, <1>2 DEF BlockedRowsGo, EachLater
<1>6. NoneAfter(t, {"CreateFollow", "SendFollow"}, {"CreateFollow"})
  BY <1>1, <1>2 DEF NoneAfter
<1> QED
  BY <1>1, <1>2, <1>3, <1>4, <1>5, <1>6 DEF Good, Lacks, Blocking, NotBlocking, BlockCreations, Gets

LEMMA FollowersRejectIsGood == Good("followers_reject", FollowersReject)
<1> PICK t : t = FollowersReject
  OBVIOUS
<1>1. t \in Seq(Statements) /\ Len(t) = 4 /\ 1..Len(t) = {1, 2, 3, 4}
  BY DEF FollowersReject, Statements
<1>2. t[1] = "GetFollower" /\ t[2] = "DeleteFollower" /\ t[3] = "RefreshFollowers" /\ t[4] = "SendReject"
  BY DEF FollowersReject
<1>3. EachThen(t, FollowChanges, "RefreshFollowing") /\ EachThen(t, FollowerChanges, "RefreshFollowers")
  BY <1>1, <1>2 DEF EachThen, FollowChanges, FollowerChanges
<1>4. OnlyFirst(t, BlockCreations) /\ EachAfter(t, {"DeleteFollow", "UpdateFollow"}, Gets)
  BY <1>1, <1>2 DEF OnlyFirst, EachAfter, BlockCreations, Gets
<1>5. BlockedRowsGo(t)
  BY <1>1, <1>2 DEF BlockedRowsGo, EachLater
<1>6. NoneAfter(t, {"CreateFollow", "SendFollow"}, {"CreateFollow"})
  BY <1>1, <1>2 DEF NoneAfter
<1> QED
  BY <1>1, <1>2, <1>3, <1>4, <1>5, <1>6 DEF Good, Lacks, Blocking, NotBlocking, BlockCreations, Gets

LEMMA BlocksCreateIsGood == Good("blocks_create", BlocksCreate)
<1> PICK t : t = BlocksCreate
  OBVIOUS
<1>1. t \in Seq(Statements) /\ Len(t) = 7 /\ 1..Len(t) = {1, 2, 3, 4, 5, 6, 7}
  BY DEF BlocksCreate, Statements
<1>2. t[1] = "CreateBlock" /\ t[2] = "DeleteFollowerByActor" /\ t[3] = "RefreshFollowers" /\ t[4] = "GetFollowByTarget" /\ t[5] = "DeleteFollow" /\ t[6] = "RefreshFollowing" /\ t[7] = "SendBlock"
  BY DEF BlocksCreate
<1>3. EachThen(t, FollowChanges, "RefreshFollowing") /\ EachThen(t, FollowerChanges, "RefreshFollowers")
  BY <1>1, <1>2 DEF EachThen, FollowChanges, FollowerChanges
<1>4. OnlyFirst(t, BlockCreations) /\ EachAfter(t, {"DeleteFollow", "UpdateFollow"}, Gets)
  BY <1>1, <1>2 DEF OnlyFirst, EachAfter, BlockCreations, Gets
<1>5. BlockedRowsGo(t)
  BY <1>1, <1>2 DEF BlockedRowsGo, EachLater
<1>6. NoneAfter(t, {"CreateFollow", "SendFollow"}, {"CreateFollow"})
  BY <1>1, <1>2 DEF NoneAfter
<1> QED
  BY <1>1, <1>2, <1>3, <1>4, <1>5, <1>6 DEF Good, Lacks, Blocking, NotBlocking, BlockCreations, Gets

LEMMA BlocksDeleteIsGood == Good("blocks_delete", BlocksDelete)
<1> PICK t : t = BlocksDelete
  OBVIOUS
<1>1. t \in Seq(Statements) /\ Len(t) = 2 /\ 1..Len(t) = {1, 2}
  BY DEF BlocksDelete, Statements
<1>2. t[1] = "DeleteBlock" /\ t[2] = "SendUndoBlock"
  BY DEF BlocksDelete
<1>3. EachThen(t, FollowChanges, "RefreshFollowing") /\ EachThen(t, FollowerChanges, "RefreshFollowers")
  BY <1>1, <1>2 DEF EachThen, FollowChanges, FollowerChanges
<1>4. OnlyFirst(t, BlockCreations) /\ EachAfter(t, {"DeleteFollow", "UpdateFollow"}, Gets)
  BY <1>1, <1>2 DEF OnlyFirst, EachAfter, BlockCreations, Gets
<1>5. BlockedRowsGo(t)
  BY <1>1, <1>2 DEF BlockedRowsGo, EachLater
<1>6. NoneAfter(t, {"CreateFollow", "SendFollow"}, {"CreateFollow"})
  BY <1>1, <1>2 DEF NoneAfter
<1> QED
  BY <1>1, <1>2, <1>3, <1>4, <1>5, <1>6 DEF Good, Lacks, Blocking, NotBlocking, BlockCreations, Gets

LEMMA DomainBlocksCreateIsGood == Good("domain_blocks_create", DomainBlocksCreate)
<1> PICK t : t = DomainBlocksCreate
  OBVIOUS
<1>1. t \in Seq(Statements) /\ Len(t) = 6 /\ 1..Len(t) = {1, 2, 3, 4, 5, 6}
  BY DEF DomainBlocksCreate, Statements
<1>2. t[1] = "CreateDomainBlock" /\ t[2] = "DeleteFollowsByDomain" /\ t[3] = "RefreshFollowing" /\ t[4] = "DeleteFollowersByDomain" /\ t[5] = "RefreshFollowers" /\ t[6] = "CancelByDomain"
  BY DEF DomainBlocksCreate
<1>3. EachThen(t, FollowChanges, "RefreshFollowing") /\ EachThen(t, FollowerChanges, "RefreshFollowers")
  BY <1>1, <1>2 DEF EachThen, FollowChanges, FollowerChanges
<1>4. OnlyFirst(t, BlockCreations) /\ EachAfter(t, {"DeleteFollow", "UpdateFollow"}, Gets)
  BY <1>1, <1>2 DEF OnlyFirst, EachAfter, BlockCreations, Gets
<1>5. BlockedRowsGo(t)
  BY <1>1, <1>2 DEF BlockedRowsGo, EachLater
<1>6. NoneAfter(t, {"CreateFollow", "SendFollow"}, {"CreateFollow"})
  BY <1>1, <1>2 DEF NoneAfter
<1> QED
  BY <1>1, <1>2, <1>3, <1>4, <1>5, <1>6 DEF Good, Lacks, Blocking, NotBlocking, BlockCreations, Gets

LEMMA DomainBlocksDeleteIsGood == Good("domain_blocks_delete", DomainBlocksDelete)
<1> PICK t : t = DomainBlocksDelete
  OBVIOUS
<1>1. t \in Seq(Statements) /\ Len(t) = 1 /\ 1..Len(t) = {1}
  BY DEF DomainBlocksDelete, Statements
<1>2. t[1] = "DeleteDomainBlock"
  BY DEF DomainBlocksDelete
<1>3. EachThen(t, FollowChanges, "RefreshFollowing") /\ EachThen(t, FollowerChanges, "RefreshFollowers")
  BY <1>1, <1>2 DEF EachThen, FollowChanges, FollowerChanges
<1>4. OnlyFirst(t, BlockCreations) /\ EachAfter(t, {"DeleteFollow", "UpdateFollow"}, Gets)
  BY <1>1, <1>2 DEF OnlyFirst, EachAfter, BlockCreations, Gets
<1>5. BlockedRowsGo(t)
  BY <1>1, <1>2 DEF BlockedRowsGo, EachLater
<1>6. NoneAfter(t, {"CreateFollow", "SendFollow"}, {"CreateFollow"})
  BY <1>1, <1>2 DEF NoneAfter
<1> QED
  BY <1>1, <1>2, <1>3, <1>4, <1>5, <1>6 DEF Good, Lacks, Blocking, NotBlocking, BlockCreations, Gets

LEMMA InboxFollowIsGood == Good("Follow", InboxFollow)
<1> PICK t : t = InboxFollow
  OBVIOUS
<1>1. t \in Seq(Statements) /\ Len(t) = 4 /\ 1..Len(t) = {1, 2, 3, 4}
  BY DEF InboxFollow, Statements
<1>2. t[1] = "IsBlocked" /\ t[2] = "CreateFollower" /\ t[3] = "RefreshFollowers" /\ t[4] = "AutoAccept"
  BY DEF InboxFollow
<1>3. EachThen(t, FollowChanges, "RefreshFollowing") /\ EachThen(t, FollowerChanges, "RefreshFollowers")
  BY <1>1, <1>2 DEF EachThen, FollowChanges, FollowerChanges
<1>4. OnlyFirst(t, BlockCreations) /\ EachAfter(t, {"DeleteFollow", "UpdateFollow"}, Gets)
  BY <1>1, <1>2 DEF OnlyFirst, EachAfter, BlockCreations, Gets
<1>5. BlockedRowsGo(t)
  BY <1>1, <1>2 DEF BlockedRowsGo, EachLater
<1>6. NoneAfter(t, {"CreateFollow", "SendFollow"}, {"CreateFollow"})
  BY <1>1, <1>2 DEF NoneAfter
<1> QED
  BY <1>1, <1>2, <1>3, <1>4, <1>5, <1>6 DEF Good, Lacks, Blocking, NotBlocking, BlockCreations, Gets

LEMMA InboxUndoIsGood == Good("Undo", InboxUndo)
<1> PICK t : t = InboxUndo
  OBVIOUS
<1>1. t \in Seq(Statements) /\ Len(t) = 2 /\ 1..Len(t) = {1, 2}
  BY DEF InboxUndo, Statements
<1>2. t[1] = "DeleteFollowerByActor" /\ t[2] = "RefreshFollowers"
  BY DEF InboxUndo
<1>3. EachThen(t, FollowChanges, "RefreshFollowing") /\ EachThen(t, FollowerChanges, "RefreshFollowers")
  BY <1>1, <1>2 DEF EachThen, FollowChanges, FollowerChanges
<1>4. OnlyFirst(t, BlockCreations) /\ EachAfter(t, {"DeleteFollow", "UpdateFollow"}, Gets)
  BY <1>1, <1>2 DEF OnlyFirst, EachAfter, BlockCreations, Gets
<1>5. BlockedRowsGo(t)
  BY <1>1, <1>2 DEF BlockedRowsGo, EachLater
<1>6. NoneAfter(t, {"CreateFollow", "SendFollow"}, {"CreateFollow"})
  BY <1>1, <1>2 DEF NoneAfter
<1> QED
  BY <1>1, <1>2, <1>3, <1>4, <1>5, <1>6 DEF Good, Lacks, Blocking, NotBlocking, BlockCreations, Gets

LEMMA InboxAcceptIsGood == Good("Accept", InboxAccept)
<1> PICK t : t = InboxAccept
  OBVIOUS
<1>1. t \in Seq(Statements) /\ Len(t) = 3 /\ 1..Len(t) = {1, 2, 3}
  BY DEF InboxAccept, Statements
<1>2. t[1] = "IsBlocked" /\ t[2] = "GetFollowByTarget" /\ t[3] = "UpdateFollow"
  BY DEF InboxAccept
<1>3. EachThen(t, FollowChanges, "RefreshFollowing") /\ EachThen(t, FollowerChanges, "RefreshFollowers")
  BY <1>1, <1>2 DEF EachThen, FollowChanges, FollowerChanges
<1>4. OnlyFirst(t, BlockCreations) /\ EachAfter(t, {"DeleteFollow", "UpdateFollow"}, Gets)
  BY <1>1, <1>2 DEF OnlyFirst, EachAfter, BlockCreations, Gets
<1>5. BlockedRowsGo(t)
  BY <1>1, <1>2 DEF BlockedRowsGo, EachLater
<1>6. NoneAfter(t, {"CreateFollow", "SendFollow"}, {"CreateFollow"})
  BY <1>1, <1>2 DEF NoneAfter
<1> QED
  BY <1>1, <1>2, <1>3, <1>4, <1>5, <1>6 DEF Good, Lacks, Blocking, NotBlocking, BlockCreations, Gets

LEMMA InboxRejectIsGood == Good("Reject", InboxReject)
<1> PICK t : t = InboxReject
  OBVIOUS
<1>1. t \in Seq(Statements) /\ Len(t) = 4 /\ 1..Len(t) = {1, 2, 3, 4}
  BY DEF InboxReject, Statements
<1>2. t[1] = "IsBlocked" /\ t[2] = "GetFollowByTarget" /\ t[3] = "DeleteFollow" /\ t[4] = "RefreshFollowing"
  BY DEF InboxReject
<1>3. EachThen(t, FollowChanges, "RefreshFollowing") /\ EachThen(t, FollowerChanges, "RefreshFollowers")
  BY <1>1, <1>2 DEF EachThen, FollowChanges, FollowerChanges
<1>4. OnlyFirst(t, BlockCreations) /\ EachAfter(t, {"DeleteFollow", "UpdateFollow"}, Gets)
  BY <1>1, <1>2 DEF OnlyFirst, EachAfter, BlockCreations, Gets
<1>5. BlockedRowsGo(t)
  BY <1>1, <1>2 DEF BlockedRowsGo, EachLater
<1>6. NoneAfter(t, {"CreateFollow", "SendFollow"}, {"CreateFollow"})
  BY <1>1, <1>2 DEF NoneAfter
<1> QED
  BY <1>1, <1>2, <1>3, <1>4, <1>5, <1>6 DEF Good, Lacks, Blocking, NotBlocking, BlockCreations, Gets

LEMMA InboxBlockIsGood == Good("Block", InboxBlock)
<1> PICK t : t = InboxBlock
  OBVIOUS
<1>1. t \in Seq(Statements) /\ Len(t) = 5 /\ 1..Len(t) = {1, 2, 3, 4, 5}
  BY DEF InboxBlock, Statements
<1>2. t[1] = "DeleteFollowerByActor" /\ t[2] = "RefreshFollowers" /\ t[3] = "GetFollowByTarget" /\ t[4] = "DeleteFollow" /\ t[5] = "RefreshFollowing"
  BY DEF InboxBlock
<1>3. EachThen(t, FollowChanges, "RefreshFollowing") /\ EachThen(t, FollowerChanges, "RefreshFollowers")
  BY <1>1, <1>2 DEF EachThen, FollowChanges, FollowerChanges
<1>4. OnlyFirst(t, BlockCreations) /\ EachAfter(t, {"DeleteFollow", "UpdateFollow"}, Gets)
  BY <1>1, <1>2 DEF OnlyFirst, EachAfter, BlockCreations, Gets
<1>5. BlockedRowsGo(t)
  BY <1>1, <1>2 DEF BlockedRowsGo, EachLater
<1>6. NoneAfter(t, {"CreateFollow", "SendFollow"}, {"CreateFollow"})
  BY <1>1, <1>2 DEF NoneAfter
<1> QED
  BY <1>1, <1>2, <1>3, <1>4, <1>5, <1>6 DEF Good, Lacks, Blocking, NotBlocking, BlockCreations, Gets
-----------------------------------------------------------------------------
(* What a request is after a statement.                                    *)

LEMMA HasSplits ==
  ASSUME NEW op, NEW t, Good(op, t), t # <<>>, NEW X
  PROVE  Has(t, X) <=> Head(t) \in X \/ Has(Tail(t), X)
<1> PICK u : u = Tail(t)
  OBVIOUS
<1>1. /\ u \in Seq(Statements) /\ Head(t) = t[1] /\ Len(t) \in Nat \ {0} /\ Len(u) = Len(t) - 1
      /\ \A i \in 1..Len(u) : u[i] = t[i + 1]
  BY TailGood
<1>2. 1 \in 1..Len(t)
  BY <1>1
<1>3. Has(t, X) <=> Head(t) \in X \/ Has(u, X)
  <2>1. ASSUME Has(t, X), Head(t) \notin X PROVE Has(u, X)
    <3>1. PICK n \in 1..Len(t) : t[n] \in X
      BY <2>1 DEF Has
    <3>2. n - 1 \in 1..Len(u) /\ (n - 1) + 1 = n
      BY <1>1, <2>1, <3>1
    <3>3. u[n - 1] = t[n]
      BY <1>1, <3>2
    <3> QED
      BY <3>1, <3>2, <3>3 DEF Has
  <2>2. ASSUME Has(u, X) PROVE Has(t, X)
    <3>1. PICK n \in 1..Len(u) : u[n] \in X
      BY <2>2 DEF Has
    <3>2. n + 1 \in 1..Len(t) /\ u[n] = t[n + 1]
      BY <1>1, <3>1
    <3> QED
      BY <3>1, <3>2 DEF Has
  <2>3. Head(t) \in X => Has(t, X)
    BY <1>1, <1>2 DEF Has
  <2> QED
    BY <2>1, <2>2, <2>3
<1> QED
  BY <1>3

\* What the head of a list tells of it and of the rest.
LEMMA Ahead ==
  ASSUME NEW op, NEW t, Good(op, t), t # <<>>
  PROVE  /\ Good(op, Tail(t)) /\ Tail(t) \in Seq(Statements)
         /\ Head(t) \in FollowChanges => Tail(t) # <<>> /\ Head(Tail(t)) = "RefreshFollowing"
         /\ Head(t) \in FollowerChanges => Tail(t) # <<>> /\ Head(Tail(t)) = "RefreshFollowers"
         /\ Tail(t) # <<>> => Head(Tail(t)) \notin BlockCreations
         /\ Head(t) = "CreateBlock" => Has(Tail(t), {"DeleteFollow"}) /\ Has(Tail(t), {"DeleteFollowerByActor"})
         /\ Head(t) = "CreateDomainBlock" =>
              Has(Tail(t), {"DeleteFollowsByDomain"}) /\ Has(Tail(t), {"DeleteFollowersByDomain"})
         /\ Tail(t) # <<>> /\ Head(Tail(t)) \in {"DeleteFollow", "UpdateFollow"} => Head(t) \in Gets
         /\ Head(t) \in {"CreateFollow", "SendFollow"} => ~Has(Tail(t), {"CreateFollow"})
         /\ Head(t) \in NotBlocking => op \notin Blocking
         /\ Head(t) \in BlockCreations => op \in Blocking
         /\ Head(t) \in Gets => op # "follows_create"
         /\ Head(t) = "UpdateFollow" => op = "Accept"
         /\ Head(t) \in {"CreateFollow", "SendFollow"} => op = "follows_create"
         /\ Head(t) = "CreateFollower" => op = "Follow"
         /\ Head(t) = "ApproveFollower" => op = "followers_approve"
<1> PICK u : u = Tail(t)
  OBVIOUS
<1>1. /\ Good(op, u) /\ u \in Seq(Statements) /\ t \in Seq(Statements)
      /\ Head(t) = t[1] /\ Len(t) \in Nat \ {0} /\ Len(u) = Len(t) - 1
      /\ \A i \in 1..Len(u) : u[i] = t[i + 1]
  BY TailGood DEF Good
<1>2. 1 \in 1..Len(t)
  BY <1>1
<1>3. u # <<>> => Head(u) = t[2] /\ 2 \in 1..Len(t)
  <2> HAVE u # <<>>
  <2>1. Head(u) = u[1] /\ Len(u) # 0
    BY <1>1
  <2>2. 1 \in 1..Len(u) /\ 2 \in 1..Len(t)
    BY <1>1, <2>1
  <2>3. u[1] = t[1 + 1]
    BY <1>1, <2>2
  <2> QED
    BY <2>1, <2>2, <2>3
<1>4. 2 \in 1..Len(t) => u # <<>>
  <2> HAVE 2 \in 1..Len(t)
  <2>1. Len(u) # 0
    BY <1>1
  <2> QED
    BY <2>1
<1>5. \A X, y : EachThen(t, X, y) /\ Head(t) \in X => u # <<>> /\ Head(u) = y
  <2> SUFFICES ASSUME NEW X, NEW y, EachThen(t, X, y), Head(t) \in X PROVE u # <<>> /\ Head(u) = y
    OBVIOUS
  <2>1. 1 + 1 \in 1..Len(t) /\ t[1 + 1] = y
    BY <1>1, <1>2 DEF EachThen
  <2> QED
    BY <1>3, <1>4, <2>1
<1>6. \A X : OnlyFirst(t, X) /\ u # <<>> => Head(u) \notin X
  BY <1>3 DEF OnlyFirst
<1>7. \A X, Y : EachLater(t, X, Y) /\ Head(t) \in X => Has(u, Y)
  <2> SUFFICES ASSUME NEW X, NEW Y, EachLater(t, X, Y), Head(t) \in X PROVE Has(u, Y)
    OBVIOUS
  <2>1. PICK n \in 1..Len(t) : 1 < n /\ t[n] \in Y
    BY <1>1, <1>2 DEF EachLater
  <2>2. n - 1 \in 1..Len(u) /\ (n - 1) + 1 = n
    BY <1>1, <2>1
  <2>3. u[n - 1] = t[n]
    BY <1>1, <2>2
  <2> QED
    BY <2>1, <2>2, <2>3 DEF Has
<1>8. \A X, Y : EachAfter(t, X, Y) /\ u # <<>> /\ Head(u) \in X => Head(t) \in Y
  <2> SUFFICES ASSUME NEW X, NEW Y, EachAfter(t, X, Y), u # <<>>, Head(u) \in X PROVE Head(t) \in Y
    OBVIOUS
  <2>1. t[2 - 1] \in Y
    BY <1>3 DEF EachAfter
  <2> QED
    BY <1>1, <2>1
<1>9. \A X : Lacks(t, X) => Head(t) \notin X
  BY <1>1, <1>2 DEF Lacks
<1>10. \A X, Y : NoneAfter(t, X, Y) /\ Head(t) \in X => ~Has(u, Y)
  <2> SUFFICES ASSUME NEW X, NEW Y, NoneAfter(t, X, Y), Head(t) \in X, NEW i \in 1..Len(u)
               PROVE  u[i] \notin Y
    BY DEF Has
  <2>1. i + 1 \in 1..Len(t) /\ 1 < i + 1 /\ u[i] = t[i + 1] /\ t[1] \in X
    BY <1>1
  <2> QED
    BY <1>2, <2>1 DEF NoneAfter
<1>11. /\ EachThen(t, FollowChanges, "RefreshFollowing") /\ EachThen(t, FollowerChanges, "RefreshFollowers")
       /\ OnlyFirst(t, BlockCreations)
       /\ BlockedRowsGo(t)
       /\ EachAfter(t, {"DeleteFollow", "UpdateFollow"}, Gets)
       /\ NoneAfter(t, {"CreateFollow", "SendFollow"}, {"CreateFollow"})
       /\ op \in Blocking => Lacks(t, NotBlocking)
       /\ op \notin Blocking => Lacks(t, BlockCreations)
       /\ op = "follows_create" => Lacks(t, Gets)
       /\ op # "Accept" => Lacks(t, {"UpdateFollow"})
       /\ op # "follows_create" => Lacks(t, {"CreateFollow", "SendFollow"})
       /\ op # "Follow" => Lacks(t, {"CreateFollower"})
       /\ op # "followers_approve" => Lacks(t, {"ApproveFollower"})
  BY DEF Good
<1>12. /\ Head(t) \in FollowChanges => u # <<>> /\ Head(u) = "RefreshFollowing"
       /\ Head(t) \in FollowerChanges => u # <<>> /\ Head(u) = "RefreshFollowers"
       /\ u # <<>> => Head(u) \notin BlockCreations
       /\ Head(t) \in {"CreateFollow", "SendFollow"} => ~Has(u, {"CreateFollow"})
       /\ Head(t) = "CreateBlock" => Has(u, {"DeleteFollow"}) /\ Has(u, {"DeleteFollowerByActor"})
       /\ Head(t) = "CreateDomainBlock" =>
            Has(u, {"DeleteFollowsByDomain"}) /\ Has(u, {"DeleteFollowersByDomain"})
       /\ u # <<>> /\ Head(u) \in {"DeleteFollow", "UpdateFollow"} => Head(t) \in Gets
  BY <1>5, <1>6, <1>7, <1>8, <1>10, <1>11 DEF BlockedRowsGo
<1>13. /\ Head(t) \in NotBlocking => op \notin Blocking
       /\ Head(t) \in BlockCreations => op \in Blocking
       /\ Head(t) \in Gets => op # "follows_create"
       /\ Head(t) = "UpdateFollow" => op = "Accept"
       /\ Head(t) \in {"CreateFollow", "SendFollow"} => op = "follows_create"
       /\ Head(t) = "CreateFollower" => op = "Follow"
       /\ Head(t) = "ApproveFollower" => op = "followers_approve"
  BY <1>9, <1>11
<1> QED
  BY <1>1, <1>12, <1>13

Moved(r, found, of) ==
  IF Tail(r.todo) = <<>> THEN Idle
  ELSE [r EXCEPT !.todo = Tail(r.todo), !.found = found, !.of = of]

Skipped(r) == IF Len(r.todo) <= 2 THEN Idle ELSE [r EXCEPT !.todo = Tail(Tail(r.todo))]

LEMMA BlocksNobody ==
  ASSUME NEW op, NEW t, Good(op, t), t # <<>>, Head(t) \in NotBlocking
  PROVE  op \notin Blocking
BY Ahead

LEMMA ApprovalIs ==
  ASSUME NEW op, NEW t, Good(op, t), t # <<>>, Head(t) = "ApproveFollower"
  PROVE  op = "followers_approve"
BY Ahead

LEMMA NewFollowerIs ==
  ASSUME NEW op, NEW t, Good(op, t), t # <<>>, Head(t) = "CreateFollower"
  PROVE  op = "Follow"
BY Ahead

LEMMA NewFollowIs ==
  ASSUME NEW op, NEW t, Good(op, t), t # <<>>, Head(t) \in {"CreateFollow", "SendFollow"}
  PROVE  op = "follows_create" /\ ~Has(Tail(t), {"CreateFollow"})
BY Ahead

LEMMA AcceptIs ==
  ASSUME NEW op, NEW t, Good(op, t), t # <<>>, Head(t) = "UpdateFollow"
  PROVE  op = "Accept"
BY Ahead

LEMMA OpNames ==
  /\ DOMAIN Methods = {"follows_create", "follows_delete", "followers_delete", "followers_approve",
                       "followers_reject", "blocks_create", "blocks_delete", "domain_blocks_create",
                       "domain_blocks_delete"}
  /\ DOMAIN Activities = {"Follow", "Undo", "Accept", "Reject", "Block", "UndoBlock"}
BY DEF Methods, Activities

LEMMA EmptyIsGood == \A op : Good(op, <<>>) /\ \A X : ~Has(<<>>, X)
<1>1. <<>> \in Seq(Statements) /\ 1..Len(<<>>) = {}
  OBVIOUS
<1>2. \A X, y : EachThen(<<>>, X, y) /\ EachLater(<<>>, X, y) /\ EachAfter(<<>>, X, y) /\ OnlyFirst(<<>>, X)
        /\ NoneAfter(<<>>, X, y)
        /\ Lacks(<<>>, X) /\ ~Has(<<>>, X)
  BY <1>1 DEF EachThen, EachLater, EachAfter, NoneAfter, OnlyFirst, Lacks, Has
<1>3. BlockedRowsGo(<<>>)
  BY <1>2 DEF BlockedRowsGo
<1> QED
  BY <1>1, <1>2, <1>3 DEF Good

LEMMA IdleIsFine ==
  /\ Idle \in Requests /\ Idle.todo = <<>> /\ Idle.op = "none"
  /\ \A s, k : RequestOK(s, k, Idle) /\ RequestOK(s, k, Idle)'
  /\ \A X : ~Removing(Idle, X) /\ ~Here(Idle, X)
<1>1. Idle \in Requests /\ Idle.todo = <<>> /\ Idle.op = "none"
  BY FollowsAreCounted DEF Idle, Requests, Ids
<1>2. \A X : ~Removing(Idle, X) /\ ~Here(Idle, X)
  BY <1>1 DEF Removing, Here, Blocking
<1>3. Good(Idle.op, Idle.todo)
  BY <1>1, EmptyIsGood
<1>4. Idle.op \notin DOMAIN Methods /\ Idle.op \notin DOMAIN Activities
  BY <1>1, OpNames
<1> QED
  BY <1>1, <1>2, <1>3, <1>4 DEF RequestOK

LEMMA MovedIs ==
  ASSUME NEW r \in Requests, Good(r.op, r.todo), r.todo # <<>>, NEW found \in Ids, NEW of \in Ids,
         NEW n, n = Moved(r, found, of)
  PROVE  /\ n \in Requests /\ n.todo = Tail(r.todo) /\ Good(n.op, n.todo)
         /\ n.todo # <<>> => n.op = r.op /\ n.found = found /\ n.of = of
         /\ n.todo = <<>> => n = Idle
<1>1. Good(r.op, Tail(r.todo)) /\ Tail(r.todo) \in Seq(Statements)
  BY Ahead
<1>2. CASE Tail(r.todo) = <<>>
  BY <1>2, IdleIsFine, EmptyIsGood DEF Moved
<1>3. CASE Tail(r.todo) # <<>>
  <2>1. n = [r EXCEPT !.todo = Tail(r.todo), !.found = found, !.of = of]
    BY <1>3 DEF Moved
  <2>2. n.todo = Tail(r.todo) /\ n.op = r.op /\ n.found = found /\ n.of = of
    BY <2>1 DEF Requests
  <2>3. n \in Requests
    BY <1>1, <2>1 DEF Requests
  <2> QED
    BY <1>1, <1>3, <2>2, <2>3
<1> QED
  BY <1>2, <1>3

LEMMA TwoLeft ==
  ASSUME NEW t \in Seq(Statements), NEW u \in Seq(Statements), NEW v \in Seq(Statements),
         t # <<>>, u = Tail(t), u # <<>>, v = Tail(u)
  PROVE  Len(t) <= 2 <=> v = <<>>
<1>1. Len(t) \in Nat /\ Len(u) = Len(t) - 1 /\ Len(v) = Len(u) - 1
  OBVIOUS
<1>2. v # <<>> => Len(v) \in Nat \ {0}
  BY EmptySeq
<1>3. v = <<>> => Len(v) = 0
  BY EmptySeq
<1> QED
  BY <1>1, <1>2, <1>3

LEMMA SkippedIs ==
  ASSUME NEW r \in Requests, Good(r.op, r.todo), r.todo # <<>>,
         Head(r.todo) \in FollowChanges \cup FollowerChanges, NEW n, n = Skipped(r)
  PROVE  /\ n \in Requests /\ Good(n.op, n.todo) /\ Tail(r.todo) # <<>> /\ n.todo = Tail(Tail(r.todo))
         /\ n.todo # <<>> => n.op = r.op /\ n.found = r.found /\ n.of = r.of
         /\ n.todo = <<>> => n = Idle
<1>1. Good(r.op, Tail(r.todo)) /\ Tail(r.todo) \in Seq(Statements) /\ Tail(r.todo) # <<>>
  BY Ahead
<1>2. Good(r.op, Tail(Tail(r.todo))) /\ Tail(Tail(r.todo)) \in Seq(Statements)
  BY <1>1, Ahead
<1>3. r.todo \in Seq(Statements)
  BY DEF Requests
<1>4. Len(r.todo) <= 2 <=> Tail(Tail(r.todo)) = <<>>
  BY <1>1, <1>2, <1>3, TwoLeft
<1>5. CASE Len(r.todo) <= 2
  BY <1>1, <1>4, <1>5, IdleIsFine, EmptyIsGood DEF Skipped
<1>6. CASE ~(Len(r.todo) <= 2)
  <2>1. n = [r EXCEPT !.todo = Tail(Tail(r.todo))]
    BY <1>6 DEF Skipped
  <2>2. n.todo = Tail(Tail(r.todo)) /\ n.op = r.op /\ n.found = r.found /\ n.of = r.of
    BY <2>1 DEF Requests
  <2>3. n \in Requests
    BY <1>2, <2>1 DEF Requests
  <2> QED
    BY <1>1, <1>2, <1>4, <1>6, <2>2, <2>3
<1> QED
  BY <1>5, <1>6

\* A request that goes on from a statement which is no read of a follow and
\* creates none knows what it knew.
LEMMA PlainNext ==
  ASSUME NEW s, NEW k, NEW r, RequestOK(s, k, r), r.todo # <<>>,
         Head(r.todo) \notin Gets \cup {"CreateFollow"}, nextFollow'[s] = nextFollow[s],
         NEW n, n = Moved(r, r.found, r.of)
  PROVE  RequestOK(s, k, n)'
<1>1. r \in Requests /\ Good(r.op, r.todo) /\ r.found \in Ids /\ r.of \in Ids
  BY DEF RequestOK, Requests
<1>2. /\ n \in Requests /\ n.todo = Tail(r.todo) /\ Good(n.op, n.todo)
      /\ n.todo # <<>> => n.op = r.op /\ n.found = r.found /\ n.of = r.of
      /\ n.todo = <<>> => n = Idle
  BY <1>1, MovedIs
<1>3. CASE n.todo = <<>>
  BY <1>2, <1>3, IdleIsFine
<1>4. CASE n.todo # <<>>
  <2>1. Has(n.todo, {"CreateFollow"}) <=> Has(r.todo, {"CreateFollow"})
    BY <1>1, <1>2, HasSplits
  <2>2. ~(Head(n.todo) \in {"DeleteFollow", "UpdateFollow"})
    <3>1. /\ Tail(r.todo) # <<>> /\ Head(Tail(r.todo)) \in {"DeleteFollow", "UpdateFollow"}
          => Head(r.todo) \in Gets
      BY <1>1, Ahead
    <3> QED
      BY <1>2, <1>4, <3>1
  <2>3. ~Here(n, {"UpdateFollow"}) /\ ~Here(n, {"DeleteFollow"})
    BY <2>2 DEF Here
  <2> QED
    BY <1>2, <1>4, <2>1, <2>3 DEF RequestOK
<1> QED
  BY <1>3, <1>4

\* The same after the refresh was skipped.
LEMMA SkippedNext ==
  ASSUME NEW s, NEW k, NEW r, RequestOK(s, k, r), r.todo # <<>>,
         Head(r.todo) \in (FollowChanges \cup FollowerChanges) \ {"CreateFollow"},
         nextFollow'[s] = nextFollow[s],
         NEW n, n = Skipped(r)
  PROVE  RequestOK(s, k, n)'
<1>1. r \in Requests /\ Good(r.op, r.todo)
  BY DEF RequestOK
<1>2. /\ n \in Requests /\ n.todo = Tail(Tail(r.todo)) /\ Good(n.op, n.todo) /\ Tail(r.todo) # <<>>
      /\ n.todo # <<>> => n.op = r.op /\ n.found = r.found /\ n.of = r.of
      /\ n.todo = <<>> => n = Idle
  BY <1>1, SkippedIs
<1>3. Good(r.op, Tail(r.todo)) /\ Head(Tail(r.todo)) \in {"RefreshFollowing", "RefreshFollowers"}
  BY <1>1, Ahead
<1>4. CASE n.todo = <<>>
  BY <1>2, <1>4, IdleIsFine
<1>5. CASE n.todo # <<>>
  <2>1. Has(n.todo, {"CreateFollow"}) <=> Has(r.todo, {"CreateFollow"})
    <3>1. Has(r.todo, {"CreateFollow"}) <=> Has(Tail(r.todo), {"CreateFollow"})
      BY <1>1, HasSplits
    <3>2. Has(Tail(r.todo), {"CreateFollow"}) <=> Has(n.todo, {"CreateFollow"})
      <4> PICK u : u = Tail(r.todo)
        OBVIOUS
      <4>1. Good(r.op, u) /\ u # <<>> /\ n.todo = Tail(u) /\ Head(u) \notin {"CreateFollow"}
        BY <1>2, <1>3
      <4>2. Has(u, {"CreateFollow"}) <=> Head(u) \in {"CreateFollow"} \/ Has(Tail(u), {"CreateFollow"})
        BY <4>1, HasSplits
      <4> QED
        BY <4>1, <4>2
    <3> QED
      BY <3>1, <3>2
  <2>2. ~(Head(n.todo) \in {"DeleteFollow", "UpdateFollow"})
    <3> PICK u : u = Tail(r.todo)
      OBVIOUS
    <3>1. Good(r.op, u) /\ u # <<>> /\ n.todo = Tail(u) /\ Head(u) \notin Gets
      BY <1>2, <1>3 DEF Gets
    <3>2. Tail(u) # <<>> /\ Head(Tail(u)) \in {"DeleteFollow", "UpdateFollow"} => Head(u) \in Gets
      BY <3>1, Ahead
    <3> QED
      BY <1>5, <3>1, <3>2
  <2>3. ~Here(n, {"UpdateFollow"}) /\ ~Here(n, {"DeleteFollow"})
    BY <2>2 DEF Here
  <2> QED
    BY <1>2, <1>5, <2>1, <2>3 DEF RequestOK
<1> QED
  BY <1>4, <1>5

-----------------------------------------------------------------------------
(* A step of one request.                                                  *)

NoNewFollow(s) ==
  \/ follow'[s] \in {NoFollow, follow[s]}
  \/ follow[s] # NoFollow /\ follow'[s].id = follow[s].id

\* A request knows what it knew when the other slot, or the other server, has
\* made no follow.
LEMMA RequestStays ==
  ASSUME NEW s, NEW k \in Slots, NEW r, RequestOK(s, k, r),
         \/ nextFollow'[s] = nextFollow[s] /\ NoNewFollow(s)
         \/ k = "inbox"
  PROVE  RequestOK(s, k, r)'
<1>1. k = "inbox" => ~(k = "api")
  OBVIOUS
<1>2. r.op = "follows_create" => r.op \in DOMAIN Methods
  BY OpNames
<1>3. /\ r \in Requests /\ Good(r.op, r.todo)
      /\ k = "inbox" => r.op \notin DOMAIN Methods
      /\ k = "api" => r.op \notin DOMAIN Activities
      /\ r.todo = <<>> => r = Idle
      /\ r.op \in {"followers_approve", "Follow"} => r.of # 0
      /\ Here(r, {"UpdateFollow"}) => r.found # 0
  BY DEF RequestOK
<1>4. (r.op = "follows_create" => IF Has(r.todo, {"CreateFollow"}) THEN nextFollow[s] < MaxFollows
                                  ELSE r.found # 0)'
  BY <1>2, <1>3 DEF RequestOK
<1>5. (k = "api" /\ Here(r, {"DeleteFollow"}) => follow[s] = NoFollow \/ follow[s].id = r.found)'
  <2> HAVE k = "api" /\ Here(r, {"DeleteFollow"})
  <2>1. follow[s] = NoFollow \/ follow[s].id = r.found
    BY DEF RequestOK
  <2>2. NoNewFollow(s)
    BY <1>1
  <2> QED
    BY <2>1, <2>2 DEF NoNewFollow
<1> QED
  BY <1>3, <1>4, <1>5 DEF RequestOK

OthersKept(s) ==
  /\ host' = host
  /\ \A t \in Servers \ {s} :
       /\ follow'[t] = follow[t] /\ follower'[t] = follower[t] /\ blocked'[t] = blocked[t]
       /\ followers'[t] = followers[t] /\ following'[t] = following[t]
       /\ nextFollow'[t] = nextFollow[t]

LEMMA StepKeeps ==
  ASSUME GraphInv, NEW s \in Servers, NEW k \in Slots, NEW n, run' = [run EXCEPT ![s][k] = n],
         RowsOK', RequestOK(s, k, n)', OthersKept(s), slipped => slipped',
         k = "inbox" => nextFollow'[s] = nextFollow[s] /\ NoNewFollow(s),
         FollowersOK(s)', FollowingOK(s)', BlocksOK(s)'
  PROVE  GraphInv'
<1>1. n \in Requests
  BY DEF RequestOK
<1>2. RunsOK /\ \A t \in Servers : FollowersOK(t) /\ FollowingOK(t) /\ BlocksOK(t)
  BY DEF GraphInv
<1>3. /\ run' \in [Servers -> [Slots -> Requests]] /\ run'[s][k] = n
      /\ \A t \in Servers : \A l \in Slots : t # s \/ l # k => run'[t][l] = run[t][l]
  <2>1. run \in [Servers -> [Slots -> Requests]]
    BY <1>2 DEF RunsOK
  <2>2. run' \in [Servers -> [Slots -> Requests]]
    BY <1>1, <2>1
  <2>3. run'[s][k] = n
    BY <2>1
  <2>4. \A t \in Servers : \A l \in Slots : t # s \/ l # k => run'[t][l] = run[t][l]
    BY <2>1
  <2> QED
    BY <2>2, <2>3, <2>4
<1>4. ASSUME NEW t \in Servers, NEW l \in Slots PROVE RequestOK(t, l, run[t][l])'
  <2>1. CASE t = s /\ l = k
    BY <1>3, <2>1 DEF RequestOK, Here
  <2>2. CASE t # s \/ l # k
    <3> PICK r : r = run[t][l]
      OBVIOUS
    <3>1. RequestOK(t, l, r)
      BY <1>2 DEF RunsOK
    <3>2. (nextFollow'[t] = nextFollow[t] /\ NoNewFollow(t)) \/ l = "inbox"
      BY <2>2 DEF OthersKept, NoNewFollow, Slots
    <3>3. RequestOK(t, l, r)'
      BY <3>1, <3>2, RequestStays
    <3>4. run'[t][l] = r
      BY <1>3, <2>2
    <3> QED
      BY <3>3, <3>4 DEF RequestOK, Here
  <2> QED
    BY <2>1, <2>2
<1>5. ASSUME NEW t \in Servers \ {s} PROVE FollowersOK(t)' /\ FollowingOK(t)' /\ BlocksOK(t)'
  <2>1. /\ follow'[t] = follow[t] /\ follower'[t] = follower[t] /\ blocked'[t] = blocked[t]
        /\ followers'[t] = followers[t] /\ following'[t] = following[t] /\ host' = host
    BY DEF OthersKept
  <2>2. \A l \in Slots : run'[t][l] = run[t][l]
    BY <1>3
  <2>3. FollowersOK(t)'
    <3>1. FollowersOK(t)
      BY <1>2
    <3> QED
      BY <2>1, <2>2, <3>1 DEF FollowersOK, ListFollowers, Here
  <2>4. FollowingOK(t)'
    <3>1. FollowingOK(t)
      BY <1>2
    <3> QED
      BY <2>1, <2>2, <3>1 DEF FollowingOK, ListFollows, Here
  <2>5. run'[t]["api"] = run[t]["api"]
    BY <2>2 DEF Slots
  <2>6. BlocksOK(t)'
    BY <1>2, <2>1, <2>5 DEF BlocksOK, BlockCovers, RowsOfDomain, FollowRemovalsOf, FollowerRemovalsOf, Removing, Here
  <2> QED
    BY <2>3, <2>4, <2>6
<1> QED
  BY <1>3, <1>4, <1>5 DEF GraphInv, RunsOK

\* The counters stay right, or about to be refreshed.
LEMMA FollowersKept ==
  ASSUME GraphInv, NEW s \in Servers, NEW k \in Slots, NEW n, run' = [run EXCEPT ![s][k] = n],
         \/ /\ followers'[s] = followers[s] /\ follower'[s] = follower[s]
            /\ ~Here(run[s][k], {"RefreshFollowers"})
         \/ Here(n, {"RefreshFollowers"})
  PROVE  FollowersOK(s)'
<1>1. run \in [Servers -> [Slots -> Requests]] /\ FollowersOK(s)
  BY DEF GraphInv, RunsOK
<1>2. run'[s][k] = n
  BY <1>1
<1>3. \A l \in Slots : l # k => run'[s][l] = run[s][l]
  BY <1>1
<1>4. CASE Here(n, {"RefreshFollowers"})
  BY <1>2, <1>4 DEF FollowersOK, Here
<1>5. CASE /\ followers'[s] = followers[s] /\ follower'[s] = follower[s]
           /\ ~Here(run[s][k], {"RefreshFollowers"})
  <2>1. CASE followers[s] = Cardinality(ListFollowers(s))
    BY <1>5, <2>1 DEF FollowersOK, ListFollowers
  <2>2. ASSUME NEW l \in Slots, Here(run[s][l], {"RefreshFollowers"}) PROVE FollowersOK(s)'
    <3>1. run'[s][l] = run[s][l]
      BY <1>3, <1>5, <2>2
    <3> QED
      BY <2>2, <3>1 DEF FollowersOK, Here
  <2> QED
    BY <1>1, <2>1, <2>2 DEF FollowersOK
<1> QED
  BY <1>4, <1>5

LEMMA FollowingKept ==
  ASSUME GraphInv, NEW s \in Servers, NEW k \in Slots, NEW n, run' = [run EXCEPT ![s][k] = n],
         \/ /\ following'[s] = following[s] /\ Cardinality(ListFollows(s))' = Cardinality(ListFollows(s))
            /\ ~Here(run[s][k], {"RefreshFollowing"})
         \/ Here(n, {"RefreshFollowing"})
  PROVE  FollowingOK(s)'
<1>1. run \in [Servers -> [Slots -> Requests]] /\ FollowingOK(s)
  BY DEF GraphInv, RunsOK
<1>2. run'[s][k] = n
  BY <1>1
<1>3. \A l \in Slots : l # k => run'[s][l] = run[s][l]
  BY <1>1
<1>4. CASE Here(n, {"RefreshFollowing"})
  BY <1>2, <1>4 DEF FollowingOK, Here
<1>5. CASE /\ following'[s] = following[s] /\ Cardinality(ListFollows(s))' = Cardinality(ListFollows(s))
           /\ ~Here(run[s][k], {"RefreshFollowing"})
  <2>1. CASE following[s] = Cardinality(ListFollows(s))
    BY <1>5, <2>1 DEF FollowingOK
  <2>2. ASSUME NEW l \in Slots, Here(run[s][l], {"RefreshFollowing"}) PROVE FollowingOK(s)'
    <3>1. run'[s][l] = run[s][l]
      BY <1>3, <1>5, <2>2
    <3> QED
      BY <2>2, <3>1 DEF FollowingOK, Here
  <2> QED
    BY <1>1, <2>1, <2>2 DEF FollowingOK
<1> QED
  BY <1>4, <1>5

LEMMA CountsAre ==
  ASSUME NEW x
  PROVE  /\ Cardinality({x} \ {NoFollow}) = IF x = NoFollow THEN 0 ELSE 1
         /\ Cardinality({f \in {x} : f.state = "approved"}) \in 0..1
<1>1. Cardinality({}) = 0 /\ Cardinality({x}) = 1
  BY FS_EmptySet, FS_Singleton
<1>2. {x} \ {NoFollow} = IF x = NoFollow THEN {} ELSE {x}
  OBVIOUS
<1>3. {f \in {x} : f.state = "approved"} = IF x.state = "approved" THEN {x} ELSE {}
  OBVIOUS
<1>4. Cardinality({x} \ {NoFollow}) = IF x = NoFollow THEN 0 ELSE 1
  BY <1>1, <1>2
<1>5. CASE x.state = "approved"
  <2>1. {f \in {x} : f.state = "approved"} = {x}
    BY <1>3, <1>5
  <2> QED
    BY <1>1, <1>4, <2>1
<1>6. CASE x.state # "approved"
  <2>1. {f \in {x} : f.state = "approved"} = {}
    BY <1>3, <1>6
  <2> QED
    BY <1>1, <1>4, <2>1
<1> QED
  BY <1>5, <1>6

\* The removals that follow a block.
Removals == SUBSET (FollowRemovals \cup FollowerRemovals)

LEMMA RemovalsAre ==
  ASSUME NEW s
  PROVE  /\ FollowRemovalsOf(s) \in Removals /\ FollowRemovalsOf(s) \subseteq FollowRemovals
         /\ FollowerRemovalsOf(s) \in Removals /\ FollowerRemovalsOf(s) \subseteq FollowerRemovals
         /\ "DeleteFollow" \in FollowRemovalsOf(s) /\ "DeleteFollowerByActor" \in FollowerRemovalsOf(s)
         /\ RowsOfDomain(s) => /\ "DeleteFollowsByDomain" \in FollowRemovalsOf(s)
                               /\ "DeleteFollowersByDomain" \in FollowerRemovalsOf(s)
BY DEF Removals, FollowRemovalsOf, FollowerRemovalsOf, FollowRemovals, FollowerRemovals

LEMMA MovedRemoves ==
  ASSUME NEW r \in Requests, Good(r.op, r.todo), r.todo # <<>>, NEW found \in Ids, NEW of \in Ids,
         NEW n, n = Moved(r, found, of), NEW X
  PROVE  /\ Removing(r, X) /\ Head(r.todo) \notin X => Removing(n, X)
         /\ Head(r.todo) = "CreateBlock" /\ X \cap {"DeleteFollow", "DeleteFollowerByActor"} # {} => Removing(n, X)
         /\ Head(r.todo) = "CreateDomainBlock" /\ X \cap {"DeleteFollowsByDomain", "DeleteFollowersByDomain"} # {}
              => Removing(n, X)
<1>1. n.todo = Tail(r.todo) /\ (n.todo # <<>> => n.op = r.op)
  BY MovedIs
<1>2. n.todo # <<>> => Head(n.todo) \notin BlockCreations
  <2>1. Tail(r.todo) # <<>> => Head(Tail(r.todo)) \notin BlockCreations
    BY Ahead
  <2> QED
    BY <1>1, <2>1
<1>3. Has(n.todo, X) => n.todo # <<>>
  BY EmptyIsGood
<1>4. Has(r.todo, X) <=> Head(r.todo) \in X \/ Has(n.todo, X)
  BY <1>1, HasSplits
<1>5. ASSUME Head(r.todo) \in BlockCreations PROVE r.op \in Blocking
  BY <1>5, Ahead
<1>6. /\ Head(r.todo) = "CreateBlock" => Has(n.todo, {"DeleteFollow"}) /\ Has(n.todo, {"DeleteFollowerByActor"})
      /\ Head(r.todo) = "CreateDomainBlock" =>
           Has(n.todo, {"DeleteFollowsByDomain"}) /\ Has(n.todo, {"DeleteFollowersByDomain"})
  <2> PICK u : u = Tail(r.todo)
    OBVIOUS
  <2>1. /\ Head(r.todo) = "CreateBlock" => Has(u, {"DeleteFollow"}) /\ Has(u, {"DeleteFollowerByActor"})
        /\ Head(r.todo) = "CreateDomainBlock" =>
             Has(u, {"DeleteFollowsByDomain"}) /\ Has(u, {"DeleteFollowersByDomain"})
    BY Ahead
  <2> QED
    BY <1>1, <2>1
<1>7. ~Here(n, BlockCreations)
  BY <1>2 DEF Here
<1>8. Removing(r, X) /\ Head(r.todo) \notin X => Removing(n, X)
  BY <1>1, <1>3, <1>4, <1>7 DEF Removing
<1>9. \A x : Has(n.todo, {x}) /\ x \in X => Has(n.todo, X)
  BY DEF Has
<1>10. ASSUME Head(r.todo) \in BlockCreations, Has(n.todo, X) PROVE Removing(n, X)
  BY <1>1, <1>3, <1>5, <1>7, <1>10 DEF Removing
<1>11. "CreateBlock" \in BlockCreations /\ "CreateDomainBlock" \in BlockCreations
  BY DEF BlockCreations
<1> QED
  BY <1>6, <1>8, <1>9, <1>10, <1>11

LEMMA SkippedRemoves ==
  ASSUME NEW r \in Requests, Good(r.op, r.todo), r.todo # <<>>,
         Head(r.todo) \in FollowChanges \cup FollowerChanges, NEW n, n = Skipped(r),
         NEW X \in Removals, Removing(r, X), Head(r.todo) \notin X
  PROVE  Removing(n, X)
<1> PICK u : u = Tail(r.todo)
  OBVIOUS
<1>1. Good(r.op, u) /\ u # <<>> /\ Head(u) \in {"RefreshFollowing", "RefreshFollowers"}
  <2>1. /\ Good(r.op, Tail(r.todo))
        /\ Head(r.todo) \in FollowChanges => Tail(r.todo) # <<>> /\ Head(Tail(r.todo)) = "RefreshFollowing"
        /\ Head(r.todo) \in FollowerChanges => Tail(r.todo) # <<>> /\ Head(Tail(r.todo)) = "RefreshFollowers"
    BY Ahead
  <2> QED
    BY <2>1
<1>2. n.todo = Tail(u) /\ (n.todo # <<>> => n.op = r.op)
  BY SkippedIs
<1>3. Has(r.todo, X) <=> Head(r.todo) \in X \/ Has(u, X)
  BY HasSplits
<1>4. Has(u, X) <=> Head(u) \in X \/ Has(n.todo, X)
  <2>1. Has(u, X) <=> Head(u) \in X \/ Has(Tail(u), X)
    BY <1>1, HasSplits
  <2> QED
    BY <1>2, <2>1
<1>5. Head(u) \notin X
  BY <1>1 DEF Removals, FollowRemovals, FollowerRemovals
<1>6. Has(n.todo, X)
  BY <1>3, <1>4, <1>5 DEF Removing
<1>7. n.todo # <<>>
  BY <1>6, EmptyIsGood
<1>8. Head(n.todo) \notin BlockCreations
  <2>1. Tail(u) # <<>> => Head(Tail(u)) \notin BlockCreations
    BY <1>1, Ahead
  <2> QED
    BY <1>2, <1>7, <2>1
<1> QED
  BY <1>2, <1>6, <1>7, <1>8 DEF Removing, Here

\* A block holds after a step which blocks nobody and makes no row, unless
\* that is a slip, and after which the removals still come, or have been made.
LEMMA BlocksKept ==
  ASSUME GraphInv, NEW s \in Servers, NEW k \in Slots, NEW n, run' = [run EXCEPT ![s][k] = n],
         host' = host, BlockCovers(s)' => BlockCovers(s), slipped => slipped',
         BlockCovers(s) =>
           \/ slipped'
           \/ /\ follow[s] = NoFollow => follow'[s] = NoFollow
              /\ follower[s] = NoFollower => follower'[s] = NoFollower,
         Removing(run[s][k], FollowRemovalsOf(s)) => Removing(n, FollowRemovalsOf(s)) \/ follow'[s] = NoFollow,
         Removing(run[s][k], FollowerRemovalsOf(s)) => Removing(n, FollowerRemovalsOf(s)) \/ follower'[s] = NoFollower
  PROVE  BlocksOK(s)'
<1>1. run \in [Servers -> [Slots -> Requests]] /\ BlocksOK(s) /\ "api" \in Slots
  BY DEF GraphInv, RunsOK, Slots
<1>2. run'[s][k] = n /\ \A l \in Slots : l # k => run'[s][l] = run[s][l]
  BY <1>1
<1> PICK m : m = run'[s]["api"]
  OBVIOUS
<1>3. (m = n /\ k = "api") \/ m = run[s]["api"]
  BY <1>1, <1>2
<1>4. /\ Removing(run[s]["api"], FollowRemovalsOf(s)) => Removing(m, FollowRemovalsOf(s)) \/ follow'[s] = NoFollow
      /\ Removing(run[s]["api"], FollowerRemovalsOf(s)) => Removing(m, FollowerRemovalsOf(s)) \/ follower'[s] = NoFollower
  BY <1>3
<1>5. BlockCovers(s)' =>
        \/ slipped'
        \/ /\ follow'[s] = NoFollow \/ Removing(m, FollowRemovalsOf(s))
           /\ follower'[s] = NoFollower \/ Removing(m, FollowerRemovalsOf(s))
  BY <1>1, <1>4 DEF BlocksOK
<1>6. FollowRemovalsOf(s)' = FollowRemovalsOf(s) /\ FollowerRemovalsOf(s)' = FollowerRemovalsOf(s)
  BY DEF FollowRemovalsOf, FollowerRemovalsOf, RowsOfDomain
<1> QED
  BY <1>5, <1>6 DEF BlocksOK, Removing, Here

-----------------------------------------------------------------------------
(* The statements.                                                         *)

LEMMA WhatIs ==
  ASSUME GraphInv, NEW s \in Servers, NEW k \in Slots
  PROVE  /\ RequestOK(s, k, run[s][k]) /\ run[s][k] \in Requests /\ Good(run[s][k].op, run[s][k].todo)
         /\ run[s][k].found \in Ids /\ run[s][k].of \in Ids
         /\ follow[s] \in FollowRows /\ follower[s] \in FollowerRows
         /\ blocked[s] \in SUBSET {"actor", "domain"} /\ nextFollow[s] \in Ids
         /\ slipped \in BOOLEAN /\ nextFollow \in [Servers -> Ids]
BY DEF GraphInv, RowsOK, RunsOK, RequestOK, Requests

\* A request of an operation that blocks nobody removes nothing.
LEMMA NoRemoval ==
  ASSUME NEW r, r.op \notin Blocking, NEW X
  PROVE  ~Removing(r, X)
BY DEF Removing

\* A request goes on from a statement.
LEMMA GoesOn ==
  ASSUME GraphInv, NEW s \in Servers, NEW k \in Slots, run[s][k].todo # <<>>,
         Head(run[s][k].todo) \notin Gets \cup {"CreateFollow"}, nextFollow'[s] = nextFollow[s],
         GoOn(s, k), NEW n, n = Moved(run[s][k], run[s][k].found, run[s][k].of)
  PROVE  /\ run' = [run EXCEPT ![s][k] = n] /\ RequestOK(s, k, n)' /\ n.todo = Tail(run[s][k].todo)
         /\ \A X : Removing(run[s][k], X) /\ Head(run[s][k].todo) \notin X => Removing(n, X)
         /\ \A X : /\ Head(run[s][k].todo) = "CreateBlock" /\ X \cap {"DeleteFollow", "DeleteFollowerByActor"} # {}
                      => Removing(n, X)
                   /\ Head(run[s][k].todo) = "CreateDomainBlock"
                        /\ X \cap {"DeleteFollowsByDomain", "DeleteFollowersByDomain"} # {}
                      => Removing(n, X)
<1>1. run' = [run EXCEPT ![s][k] = n]
  BY DEF GoOn, GoOnWith, Moved
<1> PICK r : r = run[s][k]
  OBVIOUS
<1>2. RequestOK(s, k, r) /\ r \in Requests /\ Good(r.op, r.todo) /\ r.found \in Ids /\ r.of \in Ids
  BY WhatIs
<1>3. r.todo # <<>> /\ Head(r.todo) \notin Gets \cup {"CreateFollow"} /\ n = Moved(r, r.found, r.of)
  OBVIOUS
<1>4. RequestOK(s, k, n)'
  BY <1>2, <1>3, PlainNext
<1>5. n.todo = Tail(r.todo)
  BY <1>2, <1>3, MovedIs
<1>6. ASSUME NEW X
      PROVE  /\ Removing(r, X) /\ Head(r.todo) \notin X => Removing(n, X)
             /\ Head(r.todo) = "CreateBlock" /\ X \cap {"DeleteFollow", "DeleteFollowerByActor"} # {}
                  => Removing(n, X)
             /\ Head(r.todo) = "CreateDomainBlock"
                  /\ X \cap {"DeleteFollowsByDomain", "DeleteFollowersByDomain"} # {}
                  => Removing(n, X)
  BY <1>2, <1>3, MovedRemoves
<1> QED
  BY <1>1, <1>4, <1>5, <1>6

\* A request goes on and skips a refresh.
LEMMA GoesOnWithoutRefresh ==
  ASSUME GraphInv, NEW s \in Servers, NEW k \in Slots, run[s][k].todo # <<>>,
         Head(run[s][k].todo) \in (FollowChanges \cup FollowerChanges) \ {"CreateFollow"},
         nextFollow'[s] = nextFollow[s], GoOnWithoutRefresh(s, k), NEW n, n = Skipped(run[s][k])
  PROVE  /\ run' = [run EXCEPT ![s][k] = n] /\ RequestOK(s, k, n)'
         /\ \A X \in Removals : Removing(run[s][k], X) /\ Head(run[s][k].todo) \notin X => Removing(n, X)
<1>1. run' = [run EXCEPT ![s][k] = n]
  BY DEF GoOnWithoutRefresh, Skipped
<1> PICK r : r = run[s][k]
  OBVIOUS
<1>2. RequestOK(s, k, r) /\ r \in Requests /\ Good(r.op, r.todo)
  BY WhatIs
<1>3. r.todo # <<>> /\ Head(r.todo) \in (FollowChanges \cup FollowerChanges) \ {"CreateFollow"} /\ n = Skipped(r)
  OBVIOUS
<1>4. RequestOK(s, k, n)'
  BY <1>2, <1>3, SkippedNext
<1>5. ASSUME NEW X \in Removals, Removing(r, X), Head(r.todo) \notin X PROVE Removing(n, X)
  BY <1>2, <1>3, <1>5, SkippedRemoves
<1> QED
  BY <1>1, <1>4, <1>5

LEMMA Returns ==
  ASSUME NEW s, NEW k, Return(s, k)
  PROVE  run' = [run EXCEPT ![s][k] = Idle] /\ RequestOK(s, k, Idle)'
BY IdleIsFine DEF Return

LEMMA QuietKeeps ==
  ASSUME GraphInv, NEW s \in Servers, NEW k \in Slots, NEW n, run' = [run EXCEPT ![s][k] = n],
         RequestOK(s, k, n)', jobs' \in [Servers -> SUBSET Letters],
         UNCHANGED <<tables, counters, locked, host, wire, nextFollow, history>>,
         ~Here(run[s][k], {"RefreshFollowers"}), ~Here(run[s][k], {"RefreshFollowing"}),
         \A X \in Removals : Removing(run[s][k], X) => Removing(n, X)
  PROVE  GraphInv'
<1>1. /\ follow' = follow /\ follower' = follower /\ blocked' = blocked
      /\ followers' = followers /\ following' = following /\ nextFollow' = nextFollow
      /\ slipped' = slipped /\ locked' = locked /\ host' = host /\ wire' = wire /\ ops' = ops /\ orderly' = orderly
  BY DEF tables, counters, history
<1>2. RowsOK'
  BY <1>1 DEF GraphInv, RowsOK
<1>3. OthersKept(s) /\ NoNewFollow(s)
  BY <1>1 DEF OthersKept, NoNewFollow
<1>4. FollowersOK(s)'
  BY <1>1, FollowersKept
<1>5. FollowingOK(s)'
  BY <1>1, FollowingKept DEF ListFollows
<1>6. BlocksOK(s)'
  <2>1. BlockCovers(s)' => BlockCovers(s)
    BY <1>1 DEF BlockCovers, RowsOfDomain
  <2> QED
    BY <1>1, <2>1, RemovalsAre, BlocksKept
<1> QED
  BY <1>1, <1>2, <1>3, <1>4, <1>5, <1>6, StepKeeps

LEMMA QuietGoesOn ==
  ASSUME GraphInv, NEW s \in Servers, NEW k \in Slots, NEW statement, At(s, k, statement),
         statement \notin Gets \cup {"CreateFollow", "RefreshFollowers", "RefreshFollowing"}
                          \cup FollowRemovals \cup FollowerRemovals,
         GoOn(s, k), jobs' \in [Servers -> SUBSET Letters],
         UNCHANGED <<tables, counters, locked, host, wire, nextFollow, history>>
  PROVE  GraphInv'
<1> PICK r : r = run[s][k]
  OBVIOUS
<1> PICK n : n = Moved(r, r.found, r.of)
  OBVIOUS
<1>1. r.todo # <<>> /\ Head(r.todo) = statement
  BY DEF At
<1>2. nextFollow'[s] = nextFollow[s]
  OBVIOUS
<1>3. /\ run' = [run EXCEPT ![s][k] = n] /\ RequestOK(s, k, n)'
      /\ \A X : Removing(r, X) /\ Head(r.todo) \notin X => Removing(n, X)
  BY <1>1, <1>2, GoesOn
<1>4. ~Here(r, {"RefreshFollowers"}) /\ ~Here(r, {"RefreshFollowing"})
  BY <1>1 DEF Here
<1>5. \A X \in Removals : Removing(r, X) => Removing(n, X)
  BY <1>1, <1>3 DEF Removals
<1> QED
  BY <1>3, <1>4, <1>5, QuietKeeps

LEMMA QuietReturns ==
  ASSUME GraphInv, NEW s \in Servers, NEW k \in Slots, NEW statement, At(s, k, statement),
         statement \notin {"RefreshFollowers", "RefreshFollowing"}, run[s][k].op \notin Blocking,
         Return(s, k), UNCHANGED <<tables, counters, locked, host, jobs, wire, nextFollow, history>>
  PROVE  GraphInv'
<1>1. run' = [run EXCEPT ![s][k] = Idle] /\ RequestOK(s, k, Idle)'
  BY Returns
<1>2. ~Here(run[s][k], {"RefreshFollowers"}) /\ ~Here(run[s][k], {"RefreshFollowing"})
  BY DEF Here, At
<1>3. \A X \in Removals : Removing(run[s][k], X) => Removing(Idle, X)
  BY NoRemoval
<1>4. jobs' \in [Servers -> SUBSET Letters]
  BY DEF GraphInv, RowsOK
<1> QED
  BY <1>1, <1>2, <1>3, <1>4, QuietKeeps

LEMMA IsBlockedKeeps ==
  ASSUME GraphInv, NEW s \in Servers, NEW k \in Slots, IsBlocked(s, k)
  PROVE  GraphInv'
<1>1. /\ At(s, k, "IsBlocked") /\ (Return(s, k) \/ GoOn(s, k))
      /\ UNCHANGED <<tables, counters, locked, host, wire, nextFollow, history>> /\ jobs' = jobs
  BY DEF IsBlocked
<1>2. run[s][k].op \notin Blocking
  BY <1>1, WhatIs, Ahead DEF At, NotBlocking
<1>3. jobs' \in [Servers -> SUBSET Letters]
  BY <1>1 DEF GraphInv, RowsOK
<1>4. CASE Return(s, k)
  BY <1>1, <1>2, <1>4, QuietReturns
<1>5. CASE GoOn(s, k)
  BY <1>1, <1>3, <1>5, QuietGoesOn DEF Gets, FollowRemovals, FollowerRemovals
<1> QED
  BY <1>1, <1>4, <1>5

LEMMA GetFollowerKeeps ==
  ASSUME GraphInv, NEW s \in Servers, NEW k \in Slots, GetFollower(s, k)
  PROVE  GraphInv'
<1>1. /\ At(s, k, "GetFollower") /\ (Return(s, k) \/ GoOn(s, k))
      /\ UNCHANGED <<tables, counters, locked, host, wire, nextFollow, history>> /\ jobs' = jobs
  BY DEF GetFollower
<1>2. run[s][k].op \notin Blocking
  BY <1>1, WhatIs, Ahead DEF At, NotBlocking
<1>3. jobs' \in [Servers -> SUBSET Letters]
  BY <1>1 DEF GraphInv, RowsOK
<1>4. CASE Return(s, k)
  BY <1>1, <1>2, <1>4, QuietReturns
<1>5. CASE GoOn(s, k)
  BY <1>1, <1>3, <1>5, QuietGoesOn DEF Gets, FollowRemovals, FollowerRemovals
<1> QED
  BY <1>1, <1>4, <1>5

LEMMA EnqueueKeeps ==
  ASSUME GraphInv, NEW s \in Servers, NEW k \in Slots, NEW statement, NEW type \in DOMAIN Activities,
         NEW of \in Ids, type = "Follow" => of # 0,
         statement \in {"SendFollow", "SendUndoFollow", "SendAccept", "SendReject", "SendBlock",
                        "SendUndoBlock", "AutoAccept"},
         Enqueue(s, k, statement, type, of)
  PROVE  GraphInv'
<1>1. /\ At(s, k, statement) /\ GoOn(s, k)
      /\ UNCHANGED <<tables, counters, locked, host, wire, nextFollow, history>>
      /\ jobs' = [jobs EXCEPT ![s] = jobs[s] \cup {[type |-> type, of |-> of]}]
  BY DEF Enqueue
<1>2. [type |-> type, of |-> of] \in Letters
  BY DEF Letters, Activity
<1>3. jobs \in [Servers -> SUBSET Letters]
  BY DEF GraphInv, RowsOK
<1>4. jobs' \in [Servers -> SUBSET Letters]
  BY <1>1, <1>2, <1>3
<1> QED
  BY <1>1, <1>4, QuietGoesOn DEF Gets, FollowRemovals, FollowerRemovals

LEMMA SendKeeps ==
  ASSUME GraphInv, NEW s \in Servers, NEW k \in Slots,
         SendAnswers(s, k) \/ AutoAccept(s, k) \/ SendRequests(s, k)
  PROVE  GraphInv'
<1> PICK r : r = run[s][k]
  OBVIOUS
<1>1. RequestOK(s, k, r) /\ Good(r.op, r.todo) /\ r.found \in Ids /\ r.of \in Ids
  BY WhatIs
<1>2. 0 \in Ids
  BY FollowsAreCounted DEF Ids
<1>3. CASE SendAnswers(s, k)
  BY <1>1, <1>3, OpNames, EnqueueKeeps DEF SendAnswers
<1>4. CASE AutoAccept(s, k) /\ ~locked[s]
  BY <1>1, <1>4, OpNames, EnqueueKeeps DEF AutoAccept
<1>5. CASE AutoAccept(s, k) /\ locked[s]
  <2>1. /\ At(s, k, "AutoAccept") /\ GoOn(s, k)
        /\ UNCHANGED <<tables, counters, locked, host, wire, nextFollow, history>> /\ jobs' = jobs
    BY <1>5 DEF AutoAccept
  <2>2. jobs' \in [Servers -> SUBSET Letters]
    BY <2>1 DEF GraphInv, RowsOK
  <2> QED
    BY <2>1, <2>2, QuietGoesOn DEF Gets, FollowRemovals, FollowerRemovals
<1>6. CASE Enqueue(s, k, "SendFollow", "Follow", r.found)
  <2>1. r.todo # <<>> /\ Head(r.todo) = "SendFollow"
    BY <1>6 DEF Enqueue, At
  <2>2. r.op = "follows_create" /\ ~Has(Tail(r.todo), {"CreateFollow"})
    BY <1>1, <2>1, NewFollowIs
  <2>3. ~Has(r.todo, {"CreateFollow"})
    BY <1>1, <2>1, <2>2, HasSplits
  <2>4. r.found # 0
    BY <1>1, <2>2, <2>3 DEF RequestOK
  <2> QED
    BY <1>1, <1>6, <2>4, OpNames, EnqueueKeeps
<1>7. CASE Enqueue(s, k, "SendUndoFollow", "Undo", r.found)
  BY <1>1, <1>7, OpNames, EnqueueKeeps
<1>8. CASE Enqueue(s, k, "SendBlock", "Block", 0) \/ Enqueue(s, k, "SendUndoBlock", "UndoBlock", 0)
  BY <1>2, <1>8, OpNames, EnqueueKeeps
<1> QED
  BY <1>3, <1>4, <1>5, <1>6, <1>7, <1>8 DEF SendRequests

LEMMA CancelByDomainKeeps ==
  ASSUME GraphInv, NEW s \in Servers, NEW k \in Slots, CancelByDomain(s, k)
  PROVE  GraphInv'
<1>1. /\ At(s, k, "CancelByDomain") /\ GoOn(s, k)
      /\ UNCHANGED <<tables, counters, locked, host, wire, nextFollow, history>>
      /\ jobs' = [jobs EXCEPT ![s] = {j \in jobs[s] : j.type = "Follow"}]
  BY DEF CancelByDomain
<1>2. jobs \in [Servers -> SUBSET Letters]
  BY DEF GraphInv, RowsOK
<1>3. jobs' \in [Servers -> SUBSET Letters]
  BY <1>1, <1>2
<1> QED
  BY <1>1, <1>3, QuietGoesOn DEF Gets, FollowRemovals, FollowerRemovals

LEMMA GetFollowByTargetKeeps ==
  ASSUME GraphInv, NEW s \in Servers, NEW k \in Slots, GetFollowByTarget(s, k)
  PROVE  GraphInv'
<1> PICK r : r = run[s][k]
  OBVIOUS
<1> PICK found : found = follow[s].id
  OBVIOUS
<1> PICK n : n = Moved(r, found, r.of)
  OBVIOUS
<1>1. /\ RequestOK(s, k, r) /\ r \in Requests /\ Good(r.op, r.todo) /\ r.of \in Ids
      /\ follow[s] \in FollowRows /\ jobs \in [Servers -> SUBSET Letters]
  BY WhatIs DEF GraphInv, RowsOK
<1>2. found \in Ids /\ (found = 0 => follow[s] = NoFollow)
  BY <1>1 DEF FollowRows
<1>3. PICK g \in Gets : At(s, k, g)
  BY DEF GetFollowByTarget, Gets
<1>4. r.todo # <<>> /\ Head(r.todo) = g
  BY <1>3 DEF At
<1>5. UNCHANGED <<tables, counters, locked, host, jobs, wire, nextFollow, history>>
  BY DEF GetFollowByTarget
<1>6. g \notin {"RefreshFollowers", "RefreshFollowing"} /\ g \notin FollowRemovals \cup FollowerRemovals
  BY DEF Gets, FollowRemovals, FollowerRemovals
<1>7. CASE follow[s] = NoFollow /\ r.op \in {"follows_delete", "Accept", "Reject"}
  <2>1. Return(s, k) /\ r.op \notin Blocking
    BY <1>7 DEF GetFollowByTarget, Blocking
  <2> QED
    BY <1>3, <1>5, <1>6, <2>1, QuietReturns
<1>8. CASE ~(follow[s] = NoFollow /\ r.op \in {"follows_delete", "Accept", "Reject"})
  <2>1. run' = [run EXCEPT ![s][k] = n]
    BY <1>8 DEF GetFollowByTarget, GoOnWith, Moved
  <2>2. /\ n \in Requests /\ n.todo = Tail(r.todo) /\ Good(n.op, n.todo)
        /\ n.todo # <<>> => n.op = r.op /\ n.found = found /\ n.of = r.of
        /\ n.todo = <<>> => n = Idle
    BY <1>1, <1>2, <1>4, MovedIs
  <2>3. RequestOK(s, k, n)'
    <3>1. CASE n.todo = <<>>
      BY <2>2, <3>1, IdleIsFine
    <3>2. CASE n.todo # <<>>
      <4>1. n.op # "follows_create"
        BY <1>1, <1>4, <2>2, <3>2, Ahead
      <4>2. Here(n, {"UpdateFollow"}) => n.found # 0
        <5> HAVE Here(n, {"UpdateFollow"})
        <5>1. Head(n.todo) = "UpdateFollow"
          BY DEF Here
        <5>2. n.op = "Accept"
          <6> PICK t : t = n.todo
            OBVIOUS
          <6>1. Good(n.op, t) /\ t # <<>> /\ Head(t) = "UpdateFollow"
            BY <2>2, <3>2, <5>1
          <6> QED
            BY <6>1, AcceptIs
        <5> QED
          BY <1>2, <1>8, <2>2, <3>2, <5>2
      <4>3. follow'[s].id = n.found
        BY <1>5, <2>2, <3>2 DEF tables
      <4> QED
        BY <1>1, <2>2, <3>2, <4>1, <4>2, <4>3 DEF RequestOK
    <3> QED
      BY <3>1, <3>2
  <2>4. ~Here(r, {"RefreshFollowers"}) /\ ~Here(r, {"RefreshFollowing"})
    BY <1>4, <1>6 DEF Here
  <2>5. ASSUME NEW X \in Removals PROVE Removing(r, X) => Removing(n, X)
    <3>1. Head(r.todo) \notin X
      BY <1>4, <1>6 DEF Removals
    <3> QED
      BY <1>1, <1>2, <1>4, <3>1, MovedRemoves
  <2>6. jobs' \in [Servers -> SUBSET Letters]
    BY <1>1, <1>5
  <2> QED
    BY <1>5, <2>1, <2>3, <2>4, <2>5, <2>6, QuietKeeps
<1> QED
  BY <1>7, <1>8

LEMMA RefreshFollowersCountKeeps ==
  ASSUME GraphInv, NEW s \in Servers, NEW k \in Slots, RefreshFollowersCount(s, k)
  PROVE  GraphInv'
<1> PICK r : r = run[s][k]
  OBVIOUS
<1> PICK n : n = Moved(r, r.found, r.of)
  OBVIOUS
<1> PICK c : c = Cardinality(ListFollowers(s))
  OBVIOUS
<1>1. /\ r.todo # <<>> /\ Head(r.todo) = "RefreshFollowers"
      /\ followers' = [followers EXCEPT ![s] = c] /\ GoOn(s, k)
  BY DEF RefreshFollowersCount, At
<1>2. /\ follow' = follow /\ follower' = follower /\ blocked' = blocked
      /\ following' = following /\ locked' = locked /\ host' = host /\ jobs' = jobs /\ wire' = wire
      /\ nextFollow' = nextFollow /\ ops' = ops /\ slipped' = slipped /\ orderly' = orderly
  BY DEF RefreshFollowersCount, tables, history
<1>3. nextFollow'[s] = nextFollow[s] /\ Head(r.todo) \notin Gets \cup {"CreateFollow"}
  BY <1>1, <1>2 DEF Gets
<1>4. /\ run' = [run EXCEPT ![s][k] = n] /\ RequestOK(s, k, n)'
      /\ \A X : Removing(r, X) /\ Head(r.todo) \notin X => Removing(n, X)
  BY <1>1, <1>3, GoesOn
<1>5. c \in 0..1
  BY CountsAre DEF ListFollowers
<1>6. followers \in [Servers -> 0..1]
  BY DEF GraphInv, RowsOK
<1>7. followers' \in [Servers -> 0..1] /\ followers'[s] = c /\ \A t \in Servers \ {s} : followers'[t] = followers[t]
  BY <1>1, <1>5, <1>6
<1>8. RowsOK'
  BY <1>2, <1>7 DEF GraphInv, RowsOK
<1>9. OthersKept(s) /\ NoNewFollow(s)
  BY <1>2, <1>7 DEF OthersKept, NoNewFollow
<1>10. FollowersOK(s)'
  BY <1>2, <1>7 DEF FollowersOK, ListFollowers
<1>11. FollowingOK(s)'
  <2>1. ~Here(r, {"RefreshFollowing"})
    BY <1>1 DEF Here
  <2> QED
    BY <1>2, <1>4, <2>1, FollowingKept DEF ListFollows
<1>12. BlocksOK(s)'
  <2>1. Head(r.todo) \notin FollowRemovals /\ Head(r.todo) \notin FollowerRemovals
    BY <1>1 DEF FollowRemovals, FollowerRemovals
  <2>2. Head(r.todo) \notin FollowRemovalsOf(s) /\ Head(r.todo) \notin FollowerRemovalsOf(s)
    BY <2>1, RemovalsAre
  <2>3. BlockCovers(s)' => BlockCovers(s)
    BY <1>2 DEF BlockCovers, RowsOfDomain
  <2> QED
    BY <1>2, <1>4, <2>2, <2>3, BlocksKept
<1> QED
  BY <1>2, <1>3, <1>4, <1>8, <1>9, <1>10, <1>11, <1>12, StepKeeps

LEMMA RefreshFollowingCountKeeps ==
  ASSUME GraphInv, NEW s \in Servers, NEW k \in Slots, RefreshFollowingCount(s, k)
  PROVE  GraphInv'
<1> PICK r : r = run[s][k]
  OBVIOUS
<1> PICK n : n = Moved(r, r.found, r.of)
  OBVIOUS
<1> PICK c : c = Cardinality(ListFollows(s))
  OBVIOUS
<1>1. /\ r.todo # <<>> /\ Head(r.todo) = "RefreshFollowing"
      /\ following' = [following EXCEPT ![s] = c] /\ GoOn(s, k)
  BY DEF RefreshFollowingCount, At
<1>2. /\ follow' = follow /\ follower' = follower /\ blocked' = blocked
      /\ followers' = followers /\ locked' = locked /\ host' = host /\ jobs' = jobs /\ wire' = wire
      /\ nextFollow' = nextFollow /\ ops' = ops /\ slipped' = slipped /\ orderly' = orderly
  BY DEF RefreshFollowingCount, tables, history
<1>3. nextFollow'[s] = nextFollow[s] /\ Head(r.todo) \notin Gets \cup {"CreateFollow"}
  BY <1>1, <1>2 DEF Gets
<1>4. /\ run' = [run EXCEPT ![s][k] = n] /\ RequestOK(s, k, n)'
      /\ \A X : Removing(r, X) /\ Head(r.todo) \notin X => Removing(n, X)
  BY <1>1, <1>3, GoesOn
<1>5. c \in 0..1
  <2>1. Cardinality({follow[s]} \ {NoFollow}) = IF follow[s] = NoFollow THEN 0 ELSE 1
    BY CountsAre
  <2> QED
    BY <2>1 DEF ListFollows
<1>6. following \in [Servers -> 0..1]
  BY DEF GraphInv, RowsOK
<1>7. following' \in [Servers -> 0..1] /\ following'[s] = c /\ \A t \in Servers \ {s} : following'[t] = following[t]
  BY <1>1, <1>5, <1>6
<1>8. RowsOK'
  BY <1>2, <1>7 DEF GraphInv, RowsOK
<1>9. OthersKept(s) /\ NoNewFollow(s)
  BY <1>2, <1>7 DEF OthersKept, NoNewFollow
<1>10. FollowingOK(s)'
  BY <1>2, <1>7 DEF FollowingOK, ListFollows
<1>11. FollowersOK(s)'
  <2>1. ~Here(r, {"RefreshFollowers"})
    BY <1>1 DEF Here
  <2> QED
    BY <1>2, <1>4, <2>1, FollowersKept
<1>12. BlocksOK(s)'
  <2>1. Head(r.todo) \notin FollowRemovals /\ Head(r.todo) \notin FollowerRemovals
    BY <1>1 DEF FollowRemovals, FollowerRemovals
  <2>2. Head(r.todo) \notin FollowRemovalsOf(s) /\ Head(r.todo) \notin FollowerRemovalsOf(s)
    BY <2>1, RemovalsAre
  <2>3. BlockCovers(s)' => BlockCovers(s)
    BY <1>2 DEF BlockCovers, RowsOfDomain
  <2> QED
    BY <1>2, <1>4, <2>2, <2>3, BlocksKept
<1> QED
  BY <1>2, <1>3, <1>4, <1>8, <1>9, <1>10, <1>11, <1>12, StepKeeps

-----------------------------------------------------------------------------
(* The statements that change a table.                                     *)

LEMMA ChangeIs ==
  ASSUME GraphInv, NEW s \in Servers, NEW k \in Slots, NEW statement,
         NEW newFollow \in FollowRows, NEW newFollower \in FollowerRows,
         NEW newBlocked \in SUBSET {"actor", "domain"},
         Change(s, k, statement, newFollow, newFollower, newBlocked),
         nextFollow' \in [Servers -> Ids], slipped' \in BOOLEAN
  PROVE  /\ RowsOK' /\ follow'[s] = newFollow /\ follower'[s] = newFollower /\ blocked'[s] = newBlocked
         /\ followers' = followers /\ following' = following /\ host' = host
         /\ \A t \in Servers \ {s} :
              follow'[t] = follow[t] /\ follower'[t] = follower[t] /\ blocked'[t] = blocked[t]
         /\ run[s][k].todo # <<>> /\ Head(run[s][k].todo) = statement
<1>1. /\ follow \in [Servers -> FollowRows] /\ follower \in [Servers -> FollowerRows]
      /\ blocked \in [Servers -> SUBSET {"actor", "domain"}]
  BY DEF GraphInv, RowsOK
<1>2. /\ follow' = [follow EXCEPT ![s] = newFollow] /\ follower' = [follower EXCEPT ![s] = newFollower]
      /\ blocked' = [blocked EXCEPT ![s] = newBlocked]
      /\ followers' = followers /\ following' = following /\ locked' = locked /\ host' = host /\ jobs' = jobs
      /\ wire' = wire /\ ops' = ops /\ orderly' = orderly
  BY DEF Change, counters
<1>3. /\ follow' \in [Servers -> FollowRows] /\ follow'[s] = newFollow
      /\ \A t \in Servers \ {s} : follow'[t] = follow[t]
  BY <1>1, <1>2
<1>4. /\ follower' \in [Servers -> FollowerRows] /\ follower'[s] = newFollower
      /\ \A t \in Servers \ {s} : follower'[t] = follower[t]
  BY <1>1, <1>2
<1>5. /\ blocked' \in [Servers -> SUBSET {"actor", "domain"}] /\ blocked'[s] = newBlocked
      /\ \A t \in Servers \ {s} : blocked'[t] = blocked[t]
  BY <1>1, <1>2
<1>6. RowsOK'
  BY <1>2, <1>3, <1>4, <1>5 DEF GraphInv, RowsOK
<1>7. run[s][k].todo # <<>> /\ Head(run[s][k].todo) = statement
  BY DEF Change, At
<1> QED
  BY <1>2, <1>3, <1>4, <1>5, <1>6, <1>7

LEMMA ChangeKeeps ==
  ASSUME GraphInv, NEW s \in Servers, NEW k \in Slots,
         NEW statement, statement \notin {"RefreshFollowers", "RefreshFollowing"},
         NEW newFollow \in FollowRows, NEW newFollower \in FollowerRows,
         NEW newBlocked \in SUBSET {"actor", "domain"},
         Change(s, k, statement, newFollow, newFollower, newBlocked),
         nextFollow' \in [Servers -> Ids], \A t \in Servers \ {s} : nextFollow'[t] = nextFollow[t],
         slipped' \in BOOLEAN, slipped => slipped',
         NEW n, run' = [run EXCEPT ![s][k] = n], RequestOK(s, k, n)',
         k = "inbox" => nextFollow'[s] = nextFollow[s] /\ NoNewFollow(s),
         newFollower = follower[s] \/ Here(n, {"RefreshFollowers"}),
         (newFollow = NoFollow <=> follow[s] = NoFollow) \/ Here(n, {"RefreshFollowing"}),
         BlocksOK(s)'
  PROVE  GraphInv'
<1>1. /\ RowsOK' /\ follow'[s] = newFollow /\ follower'[s] = newFollower
      /\ followers' = followers /\ following' = following /\ host' = host
      /\ \A t \in Servers \ {s} :
           follow'[t] = follow[t] /\ follower'[t] = follower[t] /\ blocked'[t] = blocked[t]
      /\ run[s][k].todo # <<>> /\ Head(run[s][k].todo) = statement
  BY ChangeIs
<1>2. ~Here(run[s][k], {"RefreshFollowers"}) /\ ~Here(run[s][k], {"RefreshFollowing"})
  BY <1>1 DEF Here
<1>3. OthersKept(s)
  BY <1>1 DEF OthersKept
<1>4. FollowersOK(s)'
  <2>1. followers'[s] = followers[s] /\ (follower'[s] = follower[s] \/ Here(n, {"RefreshFollowers"}))
    BY <1>1
  <2> QED
    BY <1>2, <2>1, FollowersKept
<1>5. FollowingOK(s)'
  <2>1. /\ Cardinality({follow[s]} \ {NoFollow}) = IF follow[s] = NoFollow THEN 0 ELSE 1
        /\ Cardinality({newFollow} \ {NoFollow}) = IF newFollow = NoFollow THEN 0 ELSE 1
    BY CountsAre
  <2>2. (newFollow = NoFollow <=> follow[s] = NoFollow) =>
          Cardinality({newFollow} \ {NoFollow}) = Cardinality({follow[s]} \ {NoFollow})
    BY <2>1
  <2>3. \/ Cardinality(ListFollows(s))' = Cardinality(ListFollows(s))
        \/ Here(n, {"RefreshFollowing"})
    BY <1>1, <2>2 DEF ListFollows
  <2>4. following'[s] = following[s]
    BY <1>1
  <2> QED
    BY <1>2, <2>3, <2>4, FollowingKept
<1> QED
  BY <1>1, <1>3, <1>4, <1>5, StepKeeps

\* A request goes on after a removal.
LEMMA RemovalKeeps ==
  ASSUME GraphInv, NEW s \in Servers, NEW k \in Slots,
         NEW statement \in (FollowChanges \cup FollowerChanges) \ {"CreateFollow"},
         NEW newFollow \in {NoFollow, follow[s]}, NEW newFollower \in {NoFollower, follower[s]},
         Change(s, k, statement, newFollow, newFollower, blocked[s]), GoOn(s, k),
         UNCHANGED <<nextFollow, slipped>>,
         newFollow = follow[s] \/ statement \in FollowChanges,
         newFollower = follower[s] \/ statement \in FollowerChanges,
         statement \in FollowRemovalsOf(s) => newFollow = NoFollow,
         statement \in FollowerRemovalsOf(s) => newFollower = NoFollower
  PROVE  GraphInv'
<1> PICK r : r = run[s][k]
  OBVIOUS
<1> PICK n : n = Moved(r, r.found, r.of)
  OBVIOUS
<1>1. /\ Good(r.op, r.todo) /\ follow[s] \in FollowRows /\ follower[s] \in FollowerRows
      /\ blocked[s] \in SUBSET {"actor", "domain"} /\ slipped \in BOOLEAN
      /\ nextFollow \in [Servers -> Ids]
  BY WhatIs
<1>2. newFollow \in FollowRows /\ newFollower \in FollowerRows
  <2>1. NoFollow \in FollowRows /\ NoFollower \in FollowerRows
    BY FollowsAreCounted DEF NoFollow, NoFollower, FollowRows, FollowerRows, Ids
  <2> QED
    BY <1>1, <2>1
<1>3. nextFollow' \in [Servers -> Ids] /\ slipped' \in BOOLEAN /\ nextFollow' = nextFollow /\ slipped' = slipped
  BY <1>1
<1>4. /\ follow'[s] = newFollow /\ follower'[s] = newFollower /\ blocked'[s] = blocked[s] /\ host' = host
      /\ r.todo # <<>> /\ Head(r.todo) = statement
  BY <1>1, <1>2, <1>3, ChangeIs
<1>5. statement \notin Gets \cup {"CreateFollow", "RefreshFollowers", "RefreshFollowing"}
  BY DEF Gets, FollowChanges, FollowerChanges
<1>6. /\ run' = [run EXCEPT ![s][k] = n] /\ RequestOK(s, k, n)' /\ n.todo = Tail(r.todo)
      /\ \A X : Removing(r, X) /\ Head(r.todo) \notin X => Removing(n, X)
  <2>1. nextFollow'[s] = nextFollow[s] /\ Head(r.todo) \notin Gets \cup {"CreateFollow"}
    BY <1>3, <1>4, <1>5
  <2> QED
    BY <1>4, <2>1, GoesOn
<1>7. newFollower = follower[s] \/ Here(n, {"RefreshFollowers"})
  <2>1. Head(r.todo) \in FollowerChanges => Tail(r.todo) # <<>> /\ Head(Tail(r.todo)) = "RefreshFollowers"
    BY <1>1, <1>4, Ahead
  <2> QED
    BY <1>4, <1>6, <2>1 DEF Here
<1>8. newFollow = follow[s] \/ Here(n, {"RefreshFollowing"})
  <2>1. Head(r.todo) \in FollowChanges => Tail(r.todo) # <<>> /\ Head(Tail(r.todo)) = "RefreshFollowing"
    BY <1>1, <1>4, Ahead
  <2> QED
    BY <1>4, <1>6, <2>1 DEF Here
<1>9. BlocksOK(s)'
  <2>1. /\ Removing(r, FollowRemovalsOf(s)) => Removing(n, FollowRemovalsOf(s)) \/ follow'[s] = NoFollow
        /\ Removing(r, FollowerRemovalsOf(s)) => Removing(n, FollowerRemovalsOf(s)) \/ follower'[s] = NoFollower
    BY <1>4, <1>6
  <2>2. /\ follow[s] = NoFollow => follow'[s] = NoFollow
        /\ follower[s] = NoFollower => follower'[s] = NoFollower
    BY <1>4
  <2>3. BlockCovers(s)' => BlockCovers(s)
    BY <1>4 DEF BlockCovers, RowsOfDomain
  <2>4. slipped => slipped'
    BY <1>3
  <2> QED
    BY <1>4, <1>6, <2>1, <2>2, <2>3, <2>4, BlocksKept
<1>10. NoNewFollow(s)
  BY <1>4 DEF NoNewFollow
<1>11. /\ slipped => slipped'
       /\ \A t \in Servers \ {s} : nextFollow'[t] = nextFollow[t]
       /\ k = "inbox" => nextFollow'[s] = nextFollow[s] /\ NoNewFollow(s)
       /\ (newFollow = NoFollow <=> follow[s] = NoFollow) \/ Here(n, {"RefreshFollowing"})
  BY <1>3, <1>8, <1>10
<1> QED
  BY <1>1, <1>2, <1>3, <1>5, <1>6, <1>7, <1>9, <1>11, ChangeKeeps

\* It goes on without the refresh when there was nothing to change.
LEMMA NothingChanged ==
  ASSUME GraphInv, NEW s \in Servers, NEW k \in Slots,
         NEW statement \in (FollowChanges \cup FollowerChanges) \ ({"CreateFollow"} \cup FollowerRemovalsOf(s)),
         Change(s, k, statement, follow[s], follower[s], blocked[s]), GoOnWithoutRefresh(s, k),
         UNCHANGED <<nextFollow, slipped>>,
         Removing(run[s][k], FollowRemovalsOf(s)) /\ statement \in FollowRemovalsOf(s) => follow[s] = NoFollow
  PROVE  GraphInv'
<1> PICK r : r = run[s][k]
  OBVIOUS
<1> PICK n : n = Skipped(r)
  OBVIOUS
<1>1. /\ Good(r.op, r.todo) /\ follow[s] \in FollowRows /\ follower[s] \in FollowerRows
      /\ blocked[s] \in SUBSET {"actor", "domain"} /\ slipped \in BOOLEAN
      /\ nextFollow \in [Servers -> Ids]
  BY WhatIs
<1>2. nextFollow' \in [Servers -> Ids] /\ slipped' \in BOOLEAN /\ nextFollow' = nextFollow /\ slipped' = slipped
  BY <1>1
<1>3. /\ follow'[s] = follow[s] /\ follower'[s] = follower[s] /\ blocked'[s] = blocked[s] /\ host' = host
      /\ r.todo # <<>> /\ Head(r.todo) = statement
  BY <1>1, <1>2, ChangeIs
<1>4. /\ run' = [run EXCEPT ![s][k] = n] /\ RequestOK(s, k, n)'
      /\ \A X \in Removals : Removing(r, X) /\ Head(r.todo) \notin X => Removing(n, X)
  <2>1. nextFollow'[s] = nextFollow[s]
        /\ Head(r.todo) \in (FollowChanges \cup FollowerChanges) \ {"CreateFollow"}
    BY <1>2, <1>3
  <2> QED
    BY <1>3, <2>1, GoesOnWithoutRefresh
<1>5. statement \notin {"RefreshFollowers", "RefreshFollowing"}
  BY DEF FollowChanges, FollowerChanges
<1>6. BlocksOK(s)'
  <2>1. /\ Removing(r, FollowRemovalsOf(s)) => Removing(n, FollowRemovalsOf(s)) \/ follow'[s] = NoFollow
        /\ Removing(r, FollowerRemovalsOf(s)) => Removing(n, FollowerRemovalsOf(s)) \/ follower'[s] = NoFollower
    BY <1>3, <1>4, RemovalsAre
  <2>2. /\ follow[s] = NoFollow => follow'[s] = NoFollow
        /\ follower[s] = NoFollower => follower'[s] = NoFollower
    BY <1>3
  <2>3. BlockCovers(s)' => BlockCovers(s)
    BY <1>3 DEF BlockCovers, RowsOfDomain
  <2>4. slipped => slipped'
    BY <1>2
  <2> QED
    BY <1>3, <1>4, <2>1, <2>2, <2>3, <2>4, BlocksKept
<1>7. NoNewFollow(s)
  BY <1>3 DEF NoNewFollow
<1>8. /\ slipped => slipped'
      /\ \A t \in Servers \ {s} : nextFollow'[t] = nextFollow[t]
      /\ k = "inbox" => nextFollow'[s] = nextFollow[s] /\ NoNewFollow(s)
  BY <1>2, <1>7
<1> QED
  BY <1>1, <1>2, <1>4, <1>5, <1>6, <1>8, ChangeKeeps

LEMMA FollowersRemoved ==
  ASSUME GraphInv, NEW s \in Servers, NEW k \in Slots,
         DeleteFollowerByActorURI(s, k) \/ DeleteFollowersByActorDomain(s, k)
  PROVE  GraphInv'
<1>1. /\ {"DeleteFollowerByActor", "DeleteFollowersByDomain"} \subseteq FollowerChanges
      /\ "CreateFollow" \notin {"DeleteFollowerByActor", "DeleteFollowersByDomain"}
      /\ \A x \in {"DeleteFollowerByActor", "DeleteFollowersByDomain"} : x \notin FollowRemovals
  BY DEF FollowerChanges, FollowRemovals
<1>2. \A x \in {"DeleteFollowerByActor", "DeleteFollowersByDomain"} : x \notin FollowRemovalsOf(s)
  BY <1>1, RemovalsAre
<1>3. CASE DeleteFollowerByActorURI(s, k)
  <2>1. /\ Change(s, k, "DeleteFollowerByActor", follow[s], NoFollower, blocked[s]) /\ GoOn(s, k)
        /\ UNCHANGED <<nextFollow, slipped>>
    BY <1>3 DEF DeleteFollowerByActorURI
  <2> QED
    BY <1>1, <1>2, <2>1, RemovalKeeps
<1>4. CASE DeleteFollowersByActorDomain(s, k) /\ RowsOfDomain(s)
  <2>1. /\ Change(s, k, "DeleteFollowersByDomain", follow[s], NoFollower, blocked[s]) /\ GoOn(s, k)
        /\ UNCHANGED <<nextFollow, slipped>>
    BY <1>4 DEF DeleteFollowersByActorDomain, GoOnFromDomain, RowsOfDomain
  <2> QED
    BY <1>1, <1>2, <2>1, RemovalKeeps
<1>5. CASE DeleteFollowersByActorDomain(s, k) /\ ~RowsOfDomain(s)
  <2>1. /\ Change(s, k, "DeleteFollowersByDomain", follow[s], follower[s], blocked[s])
        /\ (GoOn(s, k) \/ GoOnWithoutRefresh(s, k)) /\ UNCHANGED <<nextFollow, slipped>>
    BY <1>5 DEF DeleteFollowersByActorDomain, GoOnFromDomain
  <2>2. "DeleteFollowersByDomain" \notin FollowerRemovalsOf(s)
    BY <1>5 DEF FollowerRemovalsOf
  <2> QED
    BY <1>1, <1>2, <2>1, <2>2, RemovalKeeps, NothingChanged
<1> QED
  BY <1>3, <1>4, <1>5

LEMMA FollowsRemoved ==
  ASSUME GraphInv, NEW s \in Servers, NEW k \in Slots, DeleteFollowsByTargetDomain(s, k)
  PROVE  GraphInv'
<1>1. "DeleteFollowsByDomain" \in FollowChanges /\ "DeleteFollowsByDomain" \notin FollowerRemovals
  BY DEF FollowChanges, FollowerRemovals
<1>2. "DeleteFollowsByDomain" # "CreateFollow" /\ "DeleteFollowsByDomain" \notin FollowerRemovalsOf(s)
  BY <1>1, RemovalsAre
<1>3. CASE RowsOfDomain(s)
  <2>1. /\ Change(s, k, "DeleteFollowsByDomain", NoFollow, follower[s], blocked[s]) /\ GoOn(s, k)
        /\ UNCHANGED <<nextFollow, slipped>>
    BY <1>3 DEF DeleteFollowsByTargetDomain, GoOnFromDomain, RowsOfDomain
  <2> QED
    BY <1>1, <1>2, <2>1, RemovalKeeps
<1>4. CASE ~RowsOfDomain(s)
  <2>1. /\ Change(s, k, "DeleteFollowsByDomain", follow[s], follower[s], blocked[s])
        /\ (GoOn(s, k) \/ GoOnWithoutRefresh(s, k)) /\ UNCHANGED <<nextFollow, slipped>>
    BY <1>4 DEF DeleteFollowsByTargetDomain, GoOnFromDomain
  <2>2. "DeleteFollowsByDomain" \notin FollowRemovalsOf(s)
    BY <1>4 DEF FollowRemovalsOf
  <2> QED
    BY <1>1, <1>2, <2>1, <2>2, RemovalKeeps, NothingChanged
<1> QED
  BY <1>3, <1>4

LEMMA DeleteFollowKeeps ==
  ASSUME GraphInv, NEW s \in Servers, NEW k \in Slots, DeleteFollow(s, k)
  PROVE  GraphInv'
<1> PICK r : r = run[s][k]
  OBVIOUS
<1> PICK new : new = IF follow[s].id = r.found THEN NoFollow ELSE follow[s]
  OBVIOUS
<1>1. Change(s, k, "DeleteFollow", new, follower[s], blocked[s]) /\ UNCHANGED <<nextFollow, slipped>>
  BY DEF DeleteFollow
<1>2. /\ "DeleteFollow" \in (FollowChanges \cup FollowerChanges) \ {"CreateFollow"}
      /\ "DeleteFollow" \in FollowChanges /\ "DeleteFollow" \notin FollowerRemovalsOf(s)
  BY DEF FollowChanges, FollowerRemovalsOf, FollowerRemovals
<1>3. CASE follow[s] = NoFollow \/ follow[s].id # r.found
  <2>1. GoOnWithoutRefresh(s, k) /\ new = follow[s]
    BY <1>3 DEF DeleteFollow
  <2>2. Change(s, k, "DeleteFollow", follow[s], follower[s], blocked[s])
    BY <1>1, <2>1
  <2>3. Removing(r, FollowRemovalsOf(s)) => follow[s] = NoFollow
    <3>1. RequestOK(s, k, r) /\ r.todo # <<>> /\ Head(r.todo) = "DeleteFollow"
      BY <1>1, WhatIs DEF Change, At
    <3>2. CASE k = "api"
      <4>1. Here(r, {"DeleteFollow"})
        BY <3>1 DEF Here
      <4> QED
        BY <1>3, <3>1, <3>2, <4>1 DEF RequestOK
    <3>3. CASE k = "inbox"
      <4>1. r.op \notin Blocking
        BY <3>1, <3>3, OpNames DEF RequestOK, Blocking
      <4> QED
        BY <4>1, NoRemoval
    <3> QED
      BY <3>2, <3>3 DEF Slots
  <2>4. "DeleteFollow" \in (FollowChanges \cup FollowerChanges) \ ({"CreateFollow"} \cup FollowerRemovalsOf(s))
    BY <1>2
  <2> QED
    BY <1>1, <2>1, <2>2, <2>3, <2>4, NothingChanged
<1>4. CASE ~(follow[s] = NoFollow \/ follow[s].id # r.found)
  <2>1. GoOn(s, k) /\ new = NoFollow
    BY <1>4 DEF DeleteFollow
  <2> QED
    BY <1>1, <1>2, <2>1, RemovalKeeps
<1> QED
  BY <1>3, <1>4

LEMMA DeleteFollowerKeeps ==
  ASSUME GraphInv, NEW s \in Servers, NEW k \in Slots, DeleteFollower(s, k)
  PROVE  GraphInv'
<1> PICK r : r = run[s][k]
  OBVIOUS
<1> PICK new : new = IF follower[s].of = r.of THEN NoFollower ELSE follower[s]
  OBVIOUS
<1>1. Change(s, k, "DeleteFollower", follow[s], new, blocked[s]) /\ UNCHANGED <<nextFollow, slipped>>
  BY DEF DeleteFollower
<1>2. /\ "DeleteFollower" \in FollowerChanges /\ "DeleteFollower" # "CreateFollow"
      /\ "DeleteFollower" \notin FollowRemovalsOf(s) /\ "DeleteFollower" \notin FollowerRemovalsOf(s)
  BY DEF FollowerChanges, FollowRemovalsOf, FollowerRemovalsOf, FollowRemovals, FollowerRemovals
<1>3. CASE follower[s].of # r.of
  <2>1. GoOnWithoutRefresh(s, k) /\ new = follower[s]
    BY <1>3 DEF DeleteFollower
  <2>2. Change(s, k, "DeleteFollower", follow[s], follower[s], blocked[s])
    BY <1>1, <2>1
  <2>3. "DeleteFollower" \in (FollowChanges \cup FollowerChanges) \ ({"CreateFollow"} \cup FollowerRemovalsOf(s))
    BY <1>2
  <2> QED
    BY <1>1, <1>2, <2>1, <2>2, <2>3, NothingChanged
<1>4. CASE follower[s].of = r.of
  <2>1. GoOn(s, k) /\ new = NoFollower
    BY <1>4 DEF DeleteFollower
  <2>2. "DeleteFollower" \in (FollowChanges \cup FollowerChanges) \ {"CreateFollow"}
    BY <1>2
  <2> QED
    BY <1>1, <1>2, <2>1, <2>2, RemovalKeeps
<1> QED
  BY <1>3, <1>4

\* A statement which no method that blocks contains, and which keeps the blocks:
\* it may make a row only where nothing blocks, or slip.
LEMMA OtherChangeKeeps ==
  ASSUME GraphInv, NEW s \in Servers, NEW k \in Slots, NEW statement \in NotBlocking,
         NEW newFollow \in FollowRows, NEW newFollower \in FollowerRows,
         Change(s, k, statement, newFollow, newFollower, blocked[s]),
         nextFollow' \in [Servers -> Ids], \A t \in Servers \ {s} : nextFollow'[t] = nextFollow[t],
         slipped' \in BOOLEAN, slipped => slipped',
         NEW n, run' = [run EXCEPT ![s][k] = n], RequestOK(s, k, n)',
         k = "inbox" =>
           /\ nextFollow'[s] = nextFollow[s]
           /\ newFollow \in {NoFollow, follow[s]} \/ (follow[s] # NoFollow /\ newFollow.id = follow[s].id),
         newFollower = follower[s] \/ Here(n, {"RefreshFollowers"}),
         (newFollow = NoFollow <=> follow[s] = NoFollow) \/ Here(n, {"RefreshFollowing"}),
         BlockCovers(s) => \/ slipped'
                           \/ /\ follow[s] = NoFollow => newFollow = NoFollow
                              /\ follower[s] = NoFollower => newFollower = NoFollower
  PROVE  GraphInv'
<1>1. blocked[s] \in SUBSET {"actor", "domain"} /\ Good(run[s][k].op, run[s][k].todo)
  BY WhatIs
<1>2. /\ follow'[s] = newFollow /\ follower'[s] = newFollower /\ blocked'[s] = blocked[s] /\ host' = host
      /\ run[s][k].todo # <<>> /\ Head(run[s][k].todo) = statement
  BY <1>1, ChangeIs
<1>3. run[s][k].op \notin Blocking
  BY <1>1, <1>2, BlocksNobody
<1>4. \A X : ~Removing(run[s][k], X)
  BY <1>3, NoRemoval
<1>5. BlocksOK(s)'
  <2>1. BlockCovers(s)' => BlockCovers(s)
    BY <1>2 DEF BlockCovers, RowsOfDomain
  <2>2. BlockCovers(s) => \/ slipped'
                          \/ /\ follow[s] = NoFollow => follow'[s] = NoFollow
                             /\ follower[s] = NoFollower => follower'[s] = NoFollower
    BY <1>2
  <2> QED
    BY <1>2, <1>4, <2>1, <2>2, BlocksKept
<1>6. k = "inbox" => nextFollow'[s] = nextFollow[s] /\ NoNewFollow(s)
  BY <1>2 DEF NoNewFollow
<1>7. statement \notin {"RefreshFollowers", "RefreshFollowing"}
  BY DEF NotBlocking
<1> QED
  BY <1>1, <1>5, <1>6, <1>7, ChangeKeeps

LEMMA UpdateFollowKeeps ==
  ASSUME GraphInv, NEW s \in Servers, NEW k \in Slots, UpdateFollow(s, k)
  PROVE  GraphInv'
<1> PICK r : r = run[s][k]
  OBVIOUS
<1> PICK n : n = Moved(r, r.found, r.of)
  OBVIOUS
<1> PICK new : new = IF follow[s].id = r.found THEN [follow[s] EXCEPT !.accepted = TRUE] ELSE follow[s]
  OBVIOUS
<1>1. /\ Change(s, k, "UpdateFollow", new, follower[s], blocked[s]) /\ GoOn(s, k)
      /\ nextFollow' = nextFollow /\ slipped' = slipped
  BY DEF UpdateFollow
<1>2. /\ RequestOK(s, k, r) /\ follow[s] \in FollowRows /\ follower[s] \in FollowerRows
      /\ slipped \in BOOLEAN /\ nextFollow \in [Servers -> Ids]
  BY WhatIs
<1>3. r.todo # <<>> /\ Head(r.todo) = "UpdateFollow"
  BY <1>1 DEF Change, At
<1>4. r.found # 0
  BY <1>2, <1>3 DEF RequestOK, Here
<1>5. new \in FollowRows /\ (new = follow[s] \/ (follow[s] # NoFollow /\ new.id = follow[s].id))
  <2>1. CASE follow[s].id = r.found
    <3>1. new = [follow[s] EXCEPT !.accepted = TRUE]
      BY <2>1
    <3>2. new \in [id : Ids, accepted : BOOLEAN] /\ new.id = follow[s].id /\ new.id # 0
      BY <1>2, <1>4, <2>1, <3>1 DEF FollowRows
    <3>3. follow[s] # NoFollow
      BY <1>4, <2>1 DEF NoFollow
    <3> QED
      BY <3>2, <3>3 DEF FollowRows
  <2>2. CASE follow[s].id # r.found
    BY <1>2, <2>2
  <2> QED
    BY <2>1, <2>2
<1>6. new = NoFollow <=> follow[s] = NoFollow
  <2>1. NoFollow.id = 0
    BY DEF NoFollow
  <2>2. follow[s].id = 0 => follow[s] = NoFollow
    BY <1>2 DEF FollowRows
  <2> QED
    BY <1>5, <2>1, <2>2
<1>7. run' = [run EXCEPT ![s][k] = n] /\ RequestOK(s, k, n)'
  <2>1. nextFollow'[s] = nextFollow[s] /\ Head(r.todo) \notin Gets \cup {"CreateFollow"}
    BY <1>1, <1>3 DEF Gets
  <2> QED
    BY <1>1, <1>3, <2>1, GoesOn
<1>8. "UpdateFollow" \in NotBlocking
  BY DEF NotBlocking
<1>9. /\ nextFollow' \in [Servers -> Ids] /\ \A t \in Servers \ {s} : nextFollow'[t] = nextFollow[t]
      /\ slipped' \in BOOLEAN /\ (slipped => slipped') /\ nextFollow'[s] = nextFollow[s]
  BY <1>1, <1>2
<1> QED
  BY <1>1, <1>2, <1>5, <1>6, <1>7, <1>8, <1>9, OtherChangeKeeps

LEMMA ApproveFollowerKeeps ==
  ASSUME GraphInv, NEW s \in Servers, NEW k \in Slots, ApproveFollower(s, k)
  PROVE  GraphInv'
<1> PICK r : r = run[s][k]
  OBVIOUS
<1> PICK n : n = Moved(r, r.found, r.of)
  OBVIOUS
<1> PICK new : new = IF follower[s].of # r.of THEN follower[s] ELSE [follower[s] EXCEPT !.state = "approved"]
  OBVIOUS
<1>1. /\ Change(s, k, "ApproveFollower", follow[s], new, blocked[s])
      /\ nextFollow' = nextFollow /\ slipped' = slipped
  BY DEF ApproveFollower
<1>2. /\ RequestOK(s, k, r) /\ Good(r.op, r.todo) /\ follow[s] \in FollowRows /\ follower[s] \in FollowerRows
      /\ slipped \in BOOLEAN /\ nextFollow \in [Servers -> Ids]
  BY WhatIs
<1>3. r.todo # <<>> /\ Head(r.todo) = "ApproveFollower"
  BY <1>1 DEF Change, At
<1>4. r.of # 0
  <2>1. r.op = "followers_approve"
    BY <1>2, <1>3, ApprovalIs
  <2> QED
    BY <1>2, <1>3, <2>1 DEF RequestOK
<1>5. CASE follower[s].of # r.of
  <2>1. GoOnWithoutRefresh(s, k) /\ new = follower[s]
    BY <1>5 DEF ApproveFollower
  <2>2. Change(s, k, "ApproveFollower", follow[s], follower[s], blocked[s])
    BY <1>1, <2>1
  <2>3. /\ "ApproveFollower" \in (FollowChanges \cup FollowerChanges) \ ({"CreateFollow"} \cup FollowerRemovalsOf(s))
        /\ "ApproveFollower" \notin FollowRemovalsOf(s)
    BY DEF FollowerChanges, FollowRemovalsOf, FollowerRemovalsOf, FollowRemovals, FollowerRemovals
  <2> QED
    BY <1>1, <2>1, <2>2, <2>3, NothingChanged
<1>6. CASE follower[s].of = r.of
  <2>1. GoOn(s, k) /\ new = [follower[s] EXCEPT !.state = "approved"]
    BY <1>6 DEF ApproveFollower
  <2>2. NoFollower.of = 0
    BY DEF NoFollower
  <2>3. new \in [state : {"none", "pending", "approved"}, of : Ids] /\ new.of = follower[s].of /\ new.of # 0
    BY <1>2, <1>4, <1>6, <2>1 DEF FollowerRows
  <2>4. new \in FollowerRows /\ follower[s] # NoFollower
    BY <1>4, <1>6, <2>2, <2>3 DEF FollowerRows
  <2>5. /\ run' = [run EXCEPT ![s][k] = n] /\ RequestOK(s, k, n)' /\ n.todo = Tail(r.todo)
    <3>1. nextFollow'[s] = nextFollow[s] /\ Head(r.todo) \notin Gets \cup {"CreateFollow"}
      BY <1>1, <1>3 DEF Gets
    <3> QED
      BY <1>3, <2>1, <3>1, GoesOn
  <2>6. Here(n, {"RefreshFollowers"})
    <3>1. Head(r.todo) \in FollowerChanges => Tail(r.todo) # <<>> /\ Head(Tail(r.todo)) = "RefreshFollowers"
      BY <1>2, <1>3, Ahead
    <3> QED
      BY <1>3, <2>5, <3>1 DEF Here, FollowerChanges
  <2>7. "ApproveFollower" \in NotBlocking
    BY DEF NotBlocking
  <2>8. /\ nextFollow' \in [Servers -> Ids] /\ \A t \in Servers \ {s} : nextFollow'[t] = nextFollow[t]
        /\ slipped' \in BOOLEAN /\ (slipped => slipped') /\ nextFollow'[s] = nextFollow[s]
    BY <1>1, <1>2
  <2> QED
    BY <1>1, <1>2, <2>4, <2>5, <2>6, <2>7, <2>8, OtherChangeKeeps
<1> QED
  BY <1>5, <1>6

LEMMA CreateFollowerKeeps ==
  ASSUME GraphInv, NEW s \in Servers, NEW k \in Slots, CreateFollower(s, k)
  PROVE  GraphInv'
<1> PICK r : r = run[s][k]
  OBVIOUS
<1> PICK n : n = Moved(r, r.found, r.of)
  OBVIOUS
<1> PICK new : new = IF follower[s] = NoFollower
                     THEN [state |-> IF locked[s] THEN "pending" ELSE "approved", of |-> r.of]
                     ELSE follower[s]
  OBVIOUS
<1>1. Change(s, k, "CreateFollower", follow[s], new, blocked[s]) /\ nextFollow' = nextFollow
  BY DEF CreateFollower
<1>2. /\ RequestOK(s, k, r) /\ Good(r.op, r.todo) /\ follow[s] \in FollowRows /\ follower[s] \in FollowerRows
      /\ slipped \in BOOLEAN /\ nextFollow \in [Servers -> Ids] /\ r.of \in Ids
  BY WhatIs
<1>3. r.todo # <<>> /\ Head(r.todo) = "CreateFollower"
  BY <1>1 DEF Change, At
<1>4. r.of # 0
  <2>1. r.op = "Follow"
    BY <1>2, <1>3, NewFollowerIs
  <2> QED
    BY <1>2, <1>3, <2>1 DEF RequestOK
<1>5. "CreateFollower" \in NotBlocking
  BY DEF NotBlocking
<1>6. /\ nextFollow' \in [Servers -> Ids] /\ \A t \in Servers \ {s} : nextFollow'[t] = nextFollow[t]
      /\ nextFollow'[s] = nextFollow[s]
  BY <1>1, <1>2
<1>7. CASE follower[s] # NoFollower
  <2>1. Return(s, k) /\ new = follower[s] /\ slipped' = slipped
    BY <1>7 DEF CreateFollower
  <2>2. run' = [run EXCEPT ![s][k] = Idle] /\ RequestOK(s, k, Idle)'
    BY <2>1, Returns
  <2>3. slipped' \in BOOLEAN /\ (slipped => slipped')
    BY <1>2, <2>1
  <2> QED
    BY <1>1, <1>2, <1>5, <1>6, <2>1, <2>2, <2>3, OtherChangeKeeps
<1>8. CASE follower[s] = NoFollower
  <2>1. GoOn(s, k) /\ slipped' = (slipped \/ IsBlockedBy(s))
    BY <1>8 DEF CreateFollower
  <2>2. slipped' \in BOOLEAN /\ (slipped => slipped') /\ (BlockCovers(s) => slipped')
    BY <2>1 DEF IsBlockedBy, BlockCovers
  <2>3. new \in FollowerRows
    <3>1. new.of # 0 /\ new \in [state : {"none", "pending", "approved"}, of : Ids]
      BY <1>2, <1>4, <1>8
    <3>2. NoFollower.of = 0
      BY DEF NoFollower
    <3> QED
      BY <3>1, <3>2 DEF FollowerRows
  <2>4. /\ run' = [run EXCEPT ![s][k] = n] /\ RequestOK(s, k, n)' /\ n.todo = Tail(r.todo)
    <3>1. nextFollow'[s] = nextFollow[s] /\ Head(r.todo) \notin Gets \cup {"CreateFollow"}
      BY <1>1, <1>3 DEF Gets
    <3> QED
      BY <1>3, <2>1, <3>1, GoesOn
  <2>5. Here(n, {"RefreshFollowers"})
    <3>1. Head(r.todo) \in FollowerChanges => Tail(r.todo) # <<>> /\ Head(Tail(r.todo)) = "RefreshFollowers"
      BY <1>2, <1>3, Ahead
    <3> QED
      BY <1>3, <2>4, <3>1 DEF Here, FollowerChanges
  <2>6. slipped' \in BOOLEAN /\ (slipped => slipped') /\ (BlockCovers(s) => slipped')
    BY <2>2
  <2>7. Change(s, k, "CreateFollower", follow[s], new, blocked[s])
    BY <1>1
  <2>8. run' = [run EXCEPT ![s][k] = n] /\ RequestOK(s, k, n)' /\ Here(n, {"RefreshFollowers"})
    BY <2>4, <2>5
  <2>9. follow[s] \in FollowRows
    BY <1>2
  <2> QED
    BY <1>5, <1>6, <2>3, <2>6, <2>7, <2>8, <2>9, OtherChangeKeeps
<1> QED
  BY <1>7, <1>8

LEMMA NewRow ==
  ASSUME NEW i \in Ids, i # 0
  PROVE  [id |-> i, accepted |-> FALSE] \in FollowRows
<1> PICK x : x = [id |-> i, accepted |-> FALSE]
  OBVIOUS
<1>1. x \in [id : Ids, accepted : BOOLEAN] /\ x.id = i
  OBVIOUS
<1>2. x \in FollowRows
  BY <1>1 DEF FollowRows
<1> QED
  BY <1>2

LEMMA CreateFollowKeeps ==
  ASSUME GraphInv, NEW s \in Servers, NEW k \in Slots, CreateFollow(s, k)
  PROVE  GraphInv'
<1> PICK r : r = run[s][k]
  OBVIOUS
<1> PICK id : id = nextFollow[s] + 1
  OBVIOUS
<1> PICK n : n = Moved(r, id, 0)
  OBVIOUS
<1> PICK new : new = IF follow[s] = NoFollow THEN [id |-> id, accepted |-> FALSE] ELSE follow[s]
  OBVIOUS
<1>1. Change(s, k, "CreateFollow", new, follower[s], blocked[s])
  BY DEF CreateFollow
<1>2. /\ RequestOK(s, k, r) /\ r \in Requests /\ Good(r.op, r.todo) /\ follow[s] \in FollowRows
      /\ follower[s] \in FollowerRows /\ slipped \in BOOLEAN /\ nextFollow \in [Servers -> Ids]
      /\ nextFollow[s] \in Ids
  BY WhatIs
<1>3. r.todo # <<>> /\ Head(r.todo) = "CreateFollow"
  BY <1>1 DEF Change, At
<1>4. "CreateFollow" \in NotBlocking
  BY DEF NotBlocking
<1>5. r.op = "follows_create" /\ ~Has(Tail(r.todo), {"CreateFollow"})
  BY <1>2, <1>3, NewFollowIs
<1>6. nextFollow[s] < MaxFollows
  <2>1. Has(r.todo, {"CreateFollow"})
    BY <1>2, <1>3, HasSplits
  <2> QED
    BY <1>2, <1>5, <2>1 DEF RequestOK
<1>7. k = "api"
  BY <1>2, <1>5, OpNames DEF RequestOK, Slots
<1>8. CASE follow[s] # NoFollow
  <2>1. Return(s, k) /\ new = follow[s] /\ slipped' = slipped /\ nextFollow' = nextFollow
    BY <1>8 DEF CreateFollow
  <2>2. run' = [run EXCEPT ![s][k] = Idle] /\ RequestOK(s, k, Idle)'
    BY <2>1, Returns
  <2>3. /\ slipped' \in BOOLEAN /\ (slipped => slipped') /\ nextFollow' \in [Servers -> Ids]
        /\ \A t \in Servers \ {s} : nextFollow'[t] = nextFollow[t]
    BY <1>2, <2>1
  <2> QED
    BY <1>1, <1>2, <1>4, <1>7, <2>1, <2>2, <2>3, OtherChangeKeeps
<1>9. CASE follow[s] = NoFollow
  <2>1. /\ nextFollow' = [nextFollow EXCEPT ![s] = id] /\ slipped' = (slipped \/ IsBlockedBy(s))
        /\ GoOnWith(s, k, id, 0) /\ new = [id |-> id, accepted |-> FALSE]
    BY <1>9 DEF CreateFollow
  <2>2. id \in Ids /\ id # 0 /\ 0 \in Ids
    BY <1>2, <1>6, FollowsAreCounted DEF Ids
  <2>3. new \in FollowRows
    BY <2>1, <2>2, NewRow
  <2>4. nextFollow' \in [Servers -> Ids] /\ \A t \in Servers \ {s} : nextFollow'[t] = nextFollow[t]
    BY <1>2, <2>1, <2>2
  <2>5. run' = [run EXCEPT ![s][k] = n]
    BY <2>1 DEF GoOnWith, Moved
  <2>6. /\ n \in Requests /\ n.todo = Tail(r.todo) /\ Good(n.op, n.todo)
        /\ n.todo # <<>> => n.op = r.op /\ n.found = id /\ n.of = 0
        /\ n.todo = <<>> => n = Idle
    BY <1>2, <1>3, <2>2, MovedIs
  <2>7. Tail(r.todo) # <<>> /\ Head(Tail(r.todo)) = "RefreshFollowing"
    <3>1. Head(r.todo) \in FollowChanges => Tail(r.todo) # <<>> /\ Head(Tail(r.todo)) = "RefreshFollowing"
      BY <1>2, <1>3, Ahead
    <3> QED
      BY <1>3, <3>1 DEF FollowChanges
  <2>8. /\ Here(n, {"RefreshFollowing"}) /\ ~Here(n, {"UpdateFollow"}) /\ ~Here(n, {"DeleteFollow"})
        /\ n.todo # <<>>
    BY <2>6, <2>7 DEF Here
  <2>9. RequestOK(s, k, n)'
    BY <1>5, <1>7, <2>2, <2>6, <2>8, OpNames DEF RequestOK
  <2>10. BlockCovers(s) => \/ slipped'
                           \/ /\ follow[s] = NoFollow => new = NoFollow
                              /\ follower[s] = NoFollower => follower[s] = NoFollower
    BY <2>1 DEF IsBlockedBy, BlockCovers
  <2>11. slipped' \in BOOLEAN /\ (slipped => slipped')
    BY <2>1 DEF IsBlockedBy
  <2> QED
    BY <1>1, <1>2, <1>4, <1>7, <2>3, <2>4, <2>5, <2>8, <2>9, <2>10, <2>11, OtherChangeKeeps
<1> QED
  BY <1>8, <1>9

LEMMA CreateBlockKeeps ==
  ASSUME GraphInv, NEW s \in Servers, NEW k \in Slots, NEW statement, NEW kind,
         \/ statement = "CreateBlock" /\ kind = "actor"
         \/ statement = "CreateDomainBlock" /\ kind = "domain",
         CreateBlock(s, k, statement, kind)
  PROVE  GraphInv'
<1> PICK r : r = run[s][k]
  OBVIOUS
<1> PICK n : n = Moved(r, r.found, r.of)
  OBVIOUS
<1> PICK new : new = blocked[s] \cup {kind}
  OBVIOUS
<1>1. /\ Change(s, k, statement, follow[s], follower[s], new)
      /\ nextFollow' = nextFollow /\ slipped' = slipped
  BY DEF CreateBlock
<1>2. /\ RequestOK(s, k, r) /\ Good(r.op, r.todo) /\ follow[s] \in FollowRows /\ follower[s] \in FollowerRows
      /\ slipped \in BOOLEAN /\ nextFollow \in [Servers -> Ids] /\ blocked[s] \in SUBSET {"actor", "domain"}
  BY WhatIs
<1>3. new \in SUBSET {"actor", "domain"}
  BY <1>2
<1>4. /\ nextFollow' \in [Servers -> Ids] /\ \A t \in Servers \ {s} : nextFollow'[t] = nextFollow[t]
      /\ slipped' \in BOOLEAN /\ (slipped => slipped') /\ nextFollow'[s] = nextFollow[s]
  BY <1>1, <1>2
<1>5. /\ follow'[s] = follow[s] /\ follower'[s] = follower[s] /\ blocked'[s] = new /\ host' = host
      /\ r.todo # <<>> /\ Head(r.todo) = statement
  BY <1>1, <1>2, <1>3, <1>4, ChangeIs
<1>6. NoNewFollow(s)
  BY <1>5 DEF NoNewFollow
<1>7. /\ statement \notin {"RefreshFollowers", "RefreshFollowing"} /\ statement \notin Gets \cup {"CreateFollow"}
      /\ statement \in BlockCreations
  BY DEF BlockCreations, Gets
<1>8. CASE kind \in blocked[s]
  <2>1. Return(s, k) /\ new = blocked[s]
    BY <1>2, <1>8 DEF CreateBlock
  <2>2. run' = [run EXCEPT ![s][k] = Idle] /\ RequestOK(s, k, Idle)'
    BY <2>1, Returns
  <2>3. \A X : ~Removing(r, X)
    BY <1>5, <1>7 DEF Removing, Here
  <2>4. BlockCovers(s)' => BlockCovers(s)
    BY <1>5, <2>1 DEF BlockCovers, RowsOfDomain
  <2>5. BlocksOK(s)'
    BY <1>4, <1>5, <2>2, <2>3, <2>4, BlocksKept
  <2> QED
    BY <1>1, <1>2, <1>3, <1>4, <1>6, <1>7, <2>2, <2>5, ChangeKeeps
<1>9. CASE kind \notin blocked[s]
  <2>1. GoOn(s, k)
    BY <1>9 DEF CreateBlock
  <2>n. /\ run' = [run EXCEPT ![s][k] = n] /\ RequestOK(s, k, n)'
        /\ \A X : /\ Head(r.todo) = "CreateBlock" /\ X \cap {"DeleteFollow", "DeleteFollowerByActor"} # {}
                     => Removing(n, X)
                  /\ Head(r.todo) = "CreateDomainBlock"
                       /\ X \cap {"DeleteFollowsByDomain", "DeleteFollowersByDomain"} # {}
                     => Removing(n, X)
    <3>1. nextFollow'[s] = nextFollow[s] /\ Head(r.todo) \notin Gets \cup {"CreateFollow"}
      BY <1>4, <1>5, <1>7
    <3> QED
      BY <1>5, <2>1, <3>1, GoesOn
  <2>2. run' = [run EXCEPT ![s][k] = n] /\ RequestOK(s, k, n)'
    BY <2>n
  <2>3. r.op \in Blocking
    <3>1. Head(r.todo) \in BlockCreations => r.op \in Blocking
      BY <1>2, <1>5, Ahead
    <3> QED
      BY <1>5, <1>7, <3>1
  <2>4. k = "api"
    BY <1>2, <2>3, OpNames DEF RequestOK, Slots, Blocking
  <2>5. ASSUME BlockCovers(s)' => BlockCovers(s)
        PROVE  BlocksOK(s)'
    <3>1. ~Removing(r, FollowRemovalsOf(s)) /\ ~Removing(r, FollowerRemovalsOf(s))
      BY <1>5, <1>7 DEF Removing, Here
    <3>2. run' = [run EXCEPT ![s][k] = n] /\ host' = host /\ (slipped => slipped')
      BY <1>4, <1>5, <2>2
    <3>3. /\ follow[s] = NoFollow => follow'[s] = NoFollow
          /\ follower[s] = NoFollower => follower'[s] = NoFollower
      BY <1>5
    <3> QED
      BY <2>5, <3>1, <3>2, <3>3, BlocksKept
  <2>6. ASSUME BlockCovers(s)', ~BlockCovers(s)
        PROVE  BlocksOK(s)'
    <3>1. run \in [Servers -> [Slots -> Requests]]
      BY DEF GraphInv, RunsOK
    <3>2. run'[s]["api"] = n
      BY <2>2, <2>4, <3>1
    <3>3. statement = "CreateBlock" \/ RowsOfDomain(s)
      BY <1>5, <2>6 DEF BlockCovers, RowsOfDomain
    <3>4. Removing(n, FollowRemovalsOf(s)) /\ Removing(n, FollowerRemovalsOf(s))
      <4>1. CASE statement = "CreateBlock"
        <5>1. /\ FollowRemovalsOf(s) \cap {"DeleteFollow", "DeleteFollowerByActor"} # {}
              /\ FollowerRemovalsOf(s) \cap {"DeleteFollow", "DeleteFollowerByActor"} # {}
          BY RemovalsAre
        <5> QED
          BY <1>5, <2>n, <4>1, <5>1
      <4>2. CASE statement = "CreateDomainBlock" /\ RowsOfDomain(s)
        <5>1. /\ FollowRemovalsOf(s) \cap {"DeleteFollowsByDomain", "DeleteFollowersByDomain"} # {}
              /\ FollowerRemovalsOf(s) \cap {"DeleteFollowsByDomain", "DeleteFollowersByDomain"} # {}
          BY <4>2, RemovalsAre
        <5> QED
          BY <1>5, <2>n, <4>2, <5>1
      <4> QED
        BY <3>3, <4>1, <4>2
    <3>5. FollowRemovalsOf(s)' = FollowRemovalsOf(s) /\ FollowerRemovalsOf(s)' = FollowerRemovalsOf(s)
      BY <1>5 DEF FollowRemovalsOf, FollowerRemovalsOf, RowsOfDomain
    <3> PICK m : m = run'[s]["api"]
      OBVIOUS
    <3>6. Removing(m, FollowRemovalsOf(s)) /\ Removing(m, FollowerRemovalsOf(s))
      BY <3>2, <3>4
    <3> QED
      BY <3>5, <3>6 DEF BlocksOK, Removing, Here
  <2>7. BlocksOK(s)'
    BY <2>5, <2>6
  <2> QED
    BY <1>1, <1>2, <1>3, <1>4, <1>6, <1>7, <2>2, <2>7, ChangeKeeps
<1> QED
  BY <1>8, <1>9

LEMMA DeleteBlockKeeps ==
  ASSUME GraphInv, NEW s \in Servers, NEW k \in Slots,
         NEW statement \in {"DeleteBlock", "DeleteDomainBlock"}, NEW kind,
         DeleteBlock(s, k, statement, kind)
  PROVE  GraphInv'
<1> PICK r : r = run[s][k]
  OBVIOUS
<1> PICK n : n = Moved(r, r.found, r.of)
  OBVIOUS
<1> PICK new : new = blocked[s] \ {kind}
  OBVIOUS
<1>1. /\ Change(s, k, statement, follow[s], follower[s], new) /\ GoOn(s, k)
      /\ nextFollow' = nextFollow /\ slipped' = slipped
  BY DEF DeleteBlock
<1>2. /\ follow[s] \in FollowRows /\ follower[s] \in FollowerRows /\ slipped \in BOOLEAN
      /\ nextFollow \in [Servers -> Ids] /\ new \in SUBSET {"actor", "domain"}
  BY WhatIs
<1>3. /\ nextFollow' \in [Servers -> Ids] /\ \A t \in Servers \ {s} : nextFollow'[t] = nextFollow[t]
      /\ slipped' \in BOOLEAN /\ (slipped => slipped') /\ nextFollow'[s] = nextFollow[s]
  BY <1>1, <1>2
<1>4. /\ follow'[s] = follow[s] /\ follower'[s] = follower[s] /\ blocked'[s] = new /\ host' = host
      /\ r.todo # <<>> /\ Head(r.todo) = statement
  BY <1>1, <1>2, <1>3, ChangeIs
<1>5. NoNewFollow(s)
  BY <1>4 DEF NoNewFollow
<1>6. /\ statement \notin {"RefreshFollowers", "RefreshFollowing"} /\ statement \notin Gets \cup {"CreateFollow"}
      /\ statement \notin FollowRemovalsOf(s) /\ statement \notin FollowerRemovalsOf(s)
  BY DEF Gets, FollowRemovalsOf, FollowerRemovalsOf, FollowRemovals, FollowerRemovals
<1>7. /\ run' = [run EXCEPT ![s][k] = n] /\ RequestOK(s, k, n)'
      /\ \A X : Removing(r, X) /\ Head(r.todo) \notin X => Removing(n, X)
  BY <1>1, <1>3, <1>4, <1>6, GoesOn
<1>8. BlocksOK(s)'
  <2>1. BlockCovers(s)' => BlockCovers(s)
    BY <1>4 DEF BlockCovers, RowsOfDomain
  <2>2. /\ Removing(r, FollowRemovalsOf(s)) => Removing(n, FollowRemovalsOf(s))
        /\ Removing(r, FollowerRemovalsOf(s)) => Removing(n, FollowerRemovalsOf(s))
    BY <1>4, <1>6, <1>7
  <2> QED
    BY <1>3, <1>4, <1>7, <2>1, <2>2, BlocksKept
<1> QED
  BY <1>1, <1>2, <1>3, <1>5, <1>6, <1>7, <1>8, ChangeKeeps

LEMMA StatementKeeps ==
  ASSUME GraphInv, NEW s \in Servers, NEW k \in Slots, Statement(s, k)
  PROVE  GraphInv'
<1>1. CASE \/ CreateBlock(s, k, "CreateBlock", "actor") \/ CreateBlock(s, k, "CreateDomainBlock", "domain")
  BY <1>1, CreateBlockKeeps
<1>2. CASE \/ DeleteBlock(s, k, "DeleteBlock", "actor") \/ DeleteBlock(s, k, "DeleteDomainBlock", "domain")
  BY <1>2, DeleteBlockKeeps
<1>3. CASE IsBlocked(s, k) \/ GetFollower(s, k) \/ CancelByDomain(s, k)
  BY <1>3, IsBlockedKeeps, GetFollowerKeeps, CancelByDomainKeeps
<1>4. CASE CreateFollow(s, k) \/ GetFollowByTarget(s, k) \/ UpdateFollow(s, k) \/ DeleteFollow(s, k)
  BY <1>4, CreateFollowKeeps, GetFollowByTargetKeeps, UpdateFollowKeeps, DeleteFollowKeeps
<1>5. CASE DeleteFollowsByTargetDomain(s, k) \/ DeleteFollowerByActorURI(s, k) \/ DeleteFollowersByActorDomain(s, k)
  BY <1>5, FollowsRemoved, FollowersRemoved
<1>6. CASE CreateFollower(s, k) \/ ApproveFollower(s, k) \/ DeleteFollower(s, k)
  BY <1>6, CreateFollowerKeeps, ApproveFollowerKeeps, DeleteFollowerKeeps
<1>7. CASE RefreshFollowersCount(s, k) \/ RefreshFollowingCount(s, k)
  BY <1>7, RefreshFollowersCountKeeps, RefreshFollowingCountKeeps
<1>8. CASE SendAnswers(s, k) \/ AutoAccept(s, k) \/ SendRequests(s, k)
  BY <1>8, SendKeeps
<1> QED
  BY <1>1, <1>2, <1>3, <1>4, <1>5, <1>6, <1>7, <1>8 DEF Statement

-----------------------------------------------------------------------------
(* Requests, jobs and the inbox.                                           *)

LEMMA MethodsAreGood ==
  ASSUME NEW op \in DOMAIN Methods
  PROVE  /\ Good(op, Methods[op]) /\ Methods[op] # <<>>
         /\ Head(Methods[op]) \notin {"UpdateFollow", "DeleteFollow"}
         /\ op = "follows_create" => Has(Methods[op], {"CreateFollow"})
<1>1. /\ Methods["follows_create"] = FollowsCreate /\ Methods["follows_delete"] = FollowsDelete
      /\ Methods["followers_delete"] = FollowersDelete /\ Methods["followers_approve"] = FollowersApprove
      /\ Methods["followers_reject"] = FollowersReject /\ Methods["blocks_create"] = BlocksCreate
      /\ Methods["blocks_delete"] = BlocksDelete
      /\ Methods["domain_blocks_create"] = DomainBlocksCreate
      /\ Methods["domain_blocks_delete"] = DomainBlocksDelete
  BY DEF Methods
<1>2. Good(op, Methods[op])
  BY <1>1, OpNames, FollowsCreateIsGood, FollowsDeleteIsGood, FollowersDeleteIsGood, FollowersApproveIsGood,
     FollowersRejectIsGood, BlocksCreateIsGood, BlocksDeleteIsGood, DomainBlocksCreateIsGood,
     DomainBlocksDeleteIsGood
<1>3. /\ FollowsCreate # <<>> /\ Head(FollowsCreate) = "IsBlocked"
      /\ FollowsDelete # <<>> /\ Head(FollowsDelete) = "GetFollow"
  BY DEF FollowsCreate, FollowsDelete
<1>4. /\ FollowersDelete # <<>> /\ Head(FollowersDelete) = "DeleteFollower"
      /\ FollowersApprove # <<>> /\ Head(FollowersApprove) = "GetFollower"
      /\ FollowersReject # <<>> /\ Head(FollowersReject) = "GetFollower"
  BY DEF FollowersDelete, FollowersApprove, FollowersReject
<1>5. /\ BlocksCreate # <<>> /\ Head(BlocksCreate) = "CreateBlock"
      /\ BlocksDelete # <<>> /\ Head(BlocksDelete) = "DeleteBlock"
  BY DEF BlocksCreate, BlocksDelete
<1>6. /\ DomainBlocksCreate # <<>> /\ Head(DomainBlocksCreate) = "CreateDomainBlock"
      /\ DomainBlocksDelete # <<>> /\ Head(DomainBlocksDelete) = "DeleteDomainBlock"
  BY DEF DomainBlocksCreate, DomainBlocksDelete
<1>7. Methods[op] # <<>> /\ Head(Methods[op]) \notin {"UpdateFollow", "DeleteFollow"}
  BY <1>1, <1>3, <1>4, <1>5, <1>6, OpNames
<1>8. Has(FollowsCreate, {"CreateFollow"})
  <2>1. 2 \in 1..Len(FollowsCreate) /\ FollowsCreate[2] = "CreateFollow"
    BY DEF FollowsCreate
  <2> QED
    BY <2>1 DEF Has
<1> QED
  BY <1>1, <1>2, <1>7, <1>8

LEMMA ActivitiesAreGood ==
  ASSUME NEW op \in DOMAIN Activities, Activities[op] # <<>>
  PROVE  /\ Good(op, Activities[op])
         /\ Head(Activities[op]) \notin {"UpdateFollow", "DeleteFollow"}
<1>1. /\ Activities["Follow"] = InboxFollow /\ Activities["Undo"] = InboxUndo
      /\ Activities["Accept"] = InboxAccept /\ Activities["Reject"] = InboxReject
      /\ Activities["Block"] = InboxBlock /\ Activities["UndoBlock"] = <<>>
  BY DEF Activities
<1>2. Good(op, Activities[op])
  BY <1>1, OpNames, InboxFollowIsGood, InboxUndoIsGood, InboxAcceptIsGood, InboxRejectIsGood, InboxBlockIsGood
<1>3. /\ Head(InboxFollow) = "IsBlocked" /\ Head(InboxUndo) = "DeleteFollowerByActor"
      /\ Head(InboxAccept) = "IsBlocked" /\ Head(InboxReject) = "IsBlocked"
      /\ Head(InboxBlock) = "DeleteFollowerByActor"
  BY DEF InboxFollow, InboxUndo, InboxAccept, InboxReject, InboxBlock
<1>4. Head(Activities[op]) \notin {"UpdateFollow", "DeleteFollow"}
  BY <1>1, <1>3, OpNames
<1> QED
  BY <1>2, <1>4

\* A step which changes no row, but begins a request in an idle slot, or none.
LEMMA RequestBegins ==
  ASSUME GraphInv, RowsOK', NEW s \in Servers, NEW k \in Slots, run[s][k] = Idle,
         NEW n, run' = [run EXCEPT ![s][k] = n], RequestOK(s, k, n)',
         UNCHANGED <<tables, counters, host, nextFollow, slipped>>
  PROVE  GraphInv'
<1>1. /\ follow' = follow /\ follower' = follower /\ blocked' = blocked /\ host' = host
      /\ followers' = followers /\ following' = following /\ nextFollow' = nextFollow /\ slipped' = slipped
  BY DEF tables, counters
<1>2. \A X : ~Removing(run[s][k], X) /\ ~Here(run[s][k], X)
  BY IdleIsFine
<1>3. OthersKept(s) /\ NoNewFollow(s)
  BY <1>1 DEF OthersKept, NoNewFollow
<1>4. FollowersOK(s)'
  BY <1>1, <1>2, FollowersKept
<1>5. FollowingOK(s)'
  BY <1>1, <1>2, FollowingKept DEF ListFollows
<1>6. BlocksOK(s)'
  <2>1. BlockCovers(s)' => BlockCovers(s)
    BY <1>1 DEF BlockCovers, RowsOfDomain
  <2>2. /\ follow[s] = NoFollow => follow'[s] = NoFollow
        /\ follower[s] = NoFollower => follower'[s] = NoFollower
    BY <1>1
  <2>3. slipped => slipped'
    BY <1>1
  <2> QED
    BY <1>1, <1>2, <2>1, <2>2, <2>3, BlocksKept
<1>7. (slipped => slipped') /\ nextFollow'[s] = nextFollow[s]
  BY <1>1
<1> QED
  BY <1>3, <1>4, <1>5, <1>6, <1>7, StepKeeps

LEMMA CallKeeps ==
  ASSUME GraphInv, NEW s \in Servers, NEW op \in Ops, Call(s, op)
  PROVE  GraphInv'
<1> PICK n : n = [op |-> op, todo |-> Methods[op], found |-> 0, of |-> follower[s].of]
  OBVIOUS
<1>1. /\ run[s]["api"] = Idle /\ run' = [run EXCEPT ![s]["api"] = n] /\ ops' = ops + 1 /\ ops < MaxOps
      /\ orderly' = (orderly /\ Quiet /\ op \notin Silent)
      /\ UNCHANGED <<tables, counters, locked, host, jobs, wire, nextFollow, slipped>>
  BY DEF Call
<1>2. op \in DOMAIN Methods /\ "api" \in Slots
  BY OpsAreMethods DEF Slots
<1>3. follower[s] \in FollowerRows /\ nextFollow[s] \in Ids
  BY <1>2, WhatIs
<1>4. /\ Good(op, Methods[op]) /\ Methods[op] # <<>>
      /\ Head(Methods[op]) \notin {"UpdateFollow", "DeleteFollow"}
      /\ op = "follows_create" => Has(Methods[op], {"CreateFollow"})
  BY <1>2, MethodsAreGood
<1>5. n.op = op /\ n.todo = Methods[op] /\ n.of = follower[s].of
  OBVIOUS
<1>6. n \in Requests
  <2>1. Methods[op] \in Seq(Statements) /\ 0 \in Ids /\ follower[s].of \in Ids
    BY <1>3, <1>4, FollowsAreCounted DEF Good, Ids, FollowerRows
  <2> QED
    BY <1>2, <2>1 DEF Requests
<1>7. op = "followers_approve" => follower[s].of # 0
  <2> HAVE op = "followers_approve"
  <2>1. follower[s].state = "pending"
    BY DEF Call, ListPendingFollowers
  <2>2. follower[s] # NoFollower
    BY <2>1 DEF NoFollower
  <2> QED
    BY <1>3, <2>2 DEF FollowerRows
<1>8. op = "follows_create" => nextFollow[s] < MaxFollows
  BY DEF Call
<1>9. RequestOK(s, "api", n)'
  <2>1. nextFollow' = nextFollow
    BY <1>1
  <2>2. ~Here(n, {"UpdateFollow"}) /\ ~Here(n, {"DeleteFollow"})
    BY <1>4, <1>5 DEF Here
  <2>3. op # "Follow" /\ op \notin DOMAIN Activities
    BY <1>2, OpNames
  <2> QED
    BY <1>2, <1>4, <1>5, <1>6, <1>7, <1>8, <2>1, <2>2, <2>3 DEF RequestOK
<1>10. RowsOK'
  <2>1. ops' \in 0..MaxOps
    BY <1>1, FollowsAreCounted DEF GraphInv, RowsOK
  <2>2. orderly' \in BOOLEAN
    BY <1>1 DEF Quiet
  <2>3. /\ follow' = follow /\ follower' = follower /\ blocked' = blocked /\ followers' = followers
        /\ following' = following /\ locked' = locked /\ host' = host /\ jobs' = jobs /\ wire' = wire
        /\ nextFollow' = nextFollow /\ slipped' = slipped
    BY <1>1 DEF tables, counters
  <2> QED
    BY <2>1, <2>2, <2>3 DEF GraphInv, RowsOK
<1> QED
  BY <1>1, <1>2, <1>9, <1>10, RequestBegins

LEMMA OtherServer ==
  ASSUME NEW s \in Servers
  PROVE  Other(s) \in Servers /\ Other(s) # s
<1>1. \E t \in Servers : t # s
  BY TwoServers
<1> QED
  BY <1>1 DEF Other

LEMMA ReceiveKeeps ==
  ASSUME GraphInv, NEW s \in Servers, NEW j \in wire[s], Receive(s, j)
  PROVE  GraphInv'
<1> PICK t : t = Other(s)
  OBVIOUS
<1> PICK n : n = IF Activities[j.type] = <<>> THEN Idle
                 ELSE [op |-> j.type, todo |-> Activities[j.type], found |-> 0, of |-> j.of]
  OBVIOUS
<1>1. /\ run[t]["inbox"] = Idle /\ run' = [run EXCEPT ![t]["inbox"] = n]
      /\ wire' = [wire EXCEPT ![s] = wire[s] \ {j}]
      /\ jobs' = jobs \/ jobs' = [jobs EXCEPT ![s] = jobs[s] \cup {j}]
      /\ UNCHANGED <<tables, counters, locked, host, nextFollow, history>>
  BY DEF Receive
<1>2. t \in Servers /\ "inbox" \in Slots
  BY OtherServer DEF Slots
<1>3. /\ jobs \in [Servers -> SUBSET Letters] /\ wire \in [Servers -> SUBSET Letters]
  BY DEF GraphInv, RowsOK
<1>4. j \in Letters
  BY <1>3
<1>5. /\ j.type \in DOMAIN Activities /\ j.of \in Ids /\ (j.type = "Follow" => j.of # 0)
  BY <1>4 DEF Letters, Activity
<1>6. RequestOK(t, "inbox", n)'
  <2>1. CASE Activities[j.type] = <<>>
    BY <2>1, IdleIsFine
  <2>2. CASE Activities[j.type] # <<>>
    <3>1. n = [op |-> j.type, todo |-> Activities[j.type], found |-> 0, of |-> j.of]
      BY <2>2
    <3>2. n.op = j.type /\ n.todo = Activities[j.type] /\ n.of = j.of
      BY <3>1
    <3>3. /\ Good(j.type, Activities[j.type])
          /\ Head(Activities[j.type]) \notin {"UpdateFollow", "DeleteFollow"}
      BY <1>5, <2>2, ActivitiesAreGood
    <3>4. n \in Requests
      <4>1. Activities[j.type] \in Seq(Statements) /\ 0 \in Ids
        BY <3>3, FollowsAreCounted DEF Good, Ids
      <4> QED
        BY <1>5, <3>1, <4>1 DEF Requests
    <3>5. ~Here(n, {"UpdateFollow"}) /\ ~Here(n, {"DeleteFollow"})
      BY <3>2, <3>3 DEF Here
    <3>6. /\ j.type \notin DOMAIN Methods /\ j.type # "followers_approve" /\ j.type # "follows_create"
      BY <1>5, OpNames
    <3> QED
      BY <1>5, <2>2, <3>2, <3>3, <3>4, <3>5, <3>6 DEF RequestOK
  <2> QED
    BY <2>1, <2>2
<1>7. RowsOK'
  <2>1. wire' \in [Servers -> SUBSET Letters] /\ jobs' \in [Servers -> SUBSET Letters]
    BY <1>1, <1>3, <1>4
  <2>2. /\ follow' = follow /\ follower' = follower /\ blocked' = blocked /\ followers' = followers
        /\ following' = following /\ locked' = locked /\ host' = host /\ nextFollow' = nextFollow
        /\ ops' = ops /\ slipped' = slipped /\ orderly' = orderly
    BY <1>1 DEF tables, counters, history
  <2> QED
    BY <2>1, <2>2 DEF GraphInv, RowsOK
<1>8. UNCHANGED <<tables, counters, host, nextFollow, slipped>>
  BY <1>1 DEF history
<1> QED
  BY <1>1, <1>2, <1>6, <1>7, <1>8, RequestBegins

LEMMA NothingBegins ==
  ASSUME GraphInv, RowsOK', UNCHANGED <<tables, counters, host, run, nextFollow, slipped>>
  PROVE  GraphInv'
<1>1. /\ follow' = follow /\ follower' = follower /\ blocked' = blocked /\ host' = host /\ run' = run
      /\ followers' = followers /\ following' = following /\ nextFollow' = nextFollow /\ slipped' = slipped
  BY DEF tables, counters
<1>2. RunsOK'
  BY <1>1 DEF GraphInv, RunsOK, RequestOK, Here
<1>3. ASSUME NEW s \in Servers PROVE (FollowersOK(s) /\ FollowingOK(s) /\ BlocksOK(s))'
  <2>1. FollowersOK(s) /\ FollowingOK(s) /\ BlocksOK(s)
    BY DEF GraphInv
  <2> QED
    BY <1>1, <2>1
       DEF FollowersOK, FollowingOK, BlocksOK, ListFollowers, ListFollows, BlockCovers, RowsOfDomain,
           FollowRemovalsOf, FollowerRemovalsOf, Removing, Here
<1> QED
  BY <1>2, <1>3 DEF GraphInv

LEMMA JobKeeps ==
  ASSUME GraphInv, NEW s \in Servers, NEW j \in jobs[s], Execute(s, j) \/ GiveUp(s, j)
  PROVE  GraphInv'
<1>1. jobs \in [Servers -> SUBSET Letters] /\ wire \in [Servers -> SUBSET Letters]
  BY DEF GraphInv, RowsOK
<1>2. j \in Letters
  BY <1>1
<1>3. CASE Execute(s, j)
  <2>1. Send(s, j)
    BY <1>3 DEF Execute, HandleSendFollow, HandleSendUndoFollow, HandleAcceptFollow, HandleRejectFollow,
                HandleSendBlock, HandleSendUndoBlock
  <2>2. /\ jobs' = [jobs EXCEPT ![s] = jobs[s] \ {j}] /\ wire' = [wire EXCEPT ![s] = wire[s] \cup {j}]
        /\ UNCHANGED <<tables, counters, locked, host, run, nextFollow, history>>
    BY <2>1 DEF Send
  <2>3. wire' \in [Servers -> SUBSET Letters] /\ jobs' \in [Servers -> SUBSET Letters]
    BY <1>1, <1>2, <2>2
  <2>4. RowsOK'
    BY <2>2, <2>3 DEF GraphInv, RowsOK, tables, counters, history
  <2> QED
    BY <2>2, <2>4, NothingBegins DEF history
<1>4. CASE GiveUp(s, j)
  <2>1. /\ jobs' = [jobs EXCEPT ![s] = jobs[s] \ {j}]
        /\ orderly' = (orderly /\ j.type = "Follow" /\ follow[s].id # j.of)
        /\ UNCHANGED <<tables, counters, locked, host, run, wire, nextFollow, ops, slipped>>
    BY <1>4 DEF GiveUp
  <2>2. jobs' \in [Servers -> SUBSET Letters]
    BY <1>1, <2>1
  <2>3. orderly' \in BOOLEAN
    BY <2>1
  <2>4. /\ follow' = follow /\ follower' = follower /\ blocked' = blocked /\ followers' = followers
        /\ following' = following /\ locked' = locked /\ host' = host /\ wire' = wire
        /\ nextFollow' = nextFollow /\ ops' = ops /\ slipped' = slipped
    BY <2>1 DEF tables, counters
  <2>5. RowsOK'
    BY <2>2, <2>3, <2>4 DEF GraphInv, RowsOK
  <2> QED
    BY <2>1, <2>5, NothingBegins
<1> QED
  BY <1>3, <1>4

LEMMA StutterKeeps ==
  ASSUME GraphInv, UNCHANGED vars
  PROVE  GraphInv'
<1>1. UNCHANGED <<tables, counters, locked, host, run, jobs, wire, nextFollow, ops, slipped, orderly>>
  BY DEF vars, tables, counters
<1>2. RowsOK'
  BY <1>1 DEF GraphInv, RowsOK, tables, counters
<1> QED
  BY <1>1, <1>2, NothingBegins

LEMMA InitGraph == Init => GraphInv
<1> SUFFICES ASSUME Init PROVE GraphInv
  OBVIOUS
<1>1. PICK stage \in [Servers -> {"none", "asked", "accepted"}] :
        /\ follow = [s \in Servers |->
                       IF stage[s] = "none" THEN NoFollow
                       ELSE [id |-> 1, accepted |-> stage[s] = "accepted"]]
        /\ follower = [s \in Servers |->
                         CASE stage[Other(s)] = "none" -> NoFollower
                           [] stage[Other(s)] = "asked" -> [state |-> "pending", of |-> 1]
                           [] stage[Other(s)] = "accepted" -> [state |-> "approved", of |-> 1]]
        /\ blocked = [s \in Servers |-> {}]
        /\ followers = [s \in Servers |-> IF follower[s].state = "approved" THEN 1 ELSE 0]
        /\ following = [s \in Servers |-> IF follow[s] = NoFollow THEN 0 ELSE 1]
        /\ locked \in [Servers -> BOOLEAN] /\ host \in Hostings
        /\ run = [s \in Servers |-> [k \in Slots |-> Idle]]
        /\ jobs = [s \in Servers |-> {}] /\ wire = [s \in Servers |-> {}]
        /\ nextFollow = [s \in Servers |-> follow[s].id]
        /\ ops = 0
        /\ slipped = FALSE /\ orderly = TRUE
  BY DEF Init
<1>2. 0 \in Ids /\ 1 \in Ids
  BY FollowsAreCounted DEF Ids
<1>3. NoFollow \in FollowRows /\ NoFollower \in FollowerRows /\ NoFollow.id = 0
  BY <1>2 DEF NoFollow, NoFollower, FollowRows, FollowerRows
<1>4. /\ [state |-> "pending", of |-> 1] \in FollowerRows
      /\ [state |-> "approved", of |-> 1] \in FollowerRows
  BY <1>2 DEF NoFollower, FollowerRows
<1>5. ASSUME NEW s \in Servers
      PROVE  follow[s] \in FollowRows /\ follower[s] \in FollowerRows /\ follow[s].id \in Ids
  <2>1. follow[s] \in FollowRows
    <3>1. CASE stage[s] = "none"
      BY <1>1, <1>3, <3>1
    <3>2. CASE stage[s] # "none"
      <4> PICK accepted : accepted = (stage[s] = "accepted")
        OBVIOUS
      <4>1. follow[s] = [id |-> 1, accepted |-> accepted] /\ accepted \in BOOLEAN
        BY <1>1, <3>2
      <4>2. follow[s] \in [id : Ids, accepted : BOOLEAN] /\ follow[s].id = 1
        BY <1>2, <4>1
      <4> QED
        BY <4>2 DEF FollowRows
    <3> QED
      BY <3>1, <3>2
  <2>2. follower[s] \in FollowerRows
    <3>1. stage[Other(s)] \in {"none", "asked", "accepted"}
      BY OtherServer
    <3>2. follower[s] \in {NoFollower, [state |-> "pending", of |-> 1], [state |-> "approved", of |-> 1]}
      BY <1>1, <3>1
    <3> QED
      BY <1>3, <1>4, <3>2
  <2> QED
    BY <2>1, <2>2 DEF FollowRows
<1>6. RowsOK
  <2>1. follow \in [Servers -> FollowRows] /\ follower \in [Servers -> FollowerRows]
    <3> DEFINE F(s) == IF stage[s] = "none" THEN NoFollow
                       ELSE [id |-> 1, accepted |-> stage[s] = "accepted"]
               G(s) == CASE stage[Other(s)] = "none" -> NoFollower
                         [] stage[Other(s)] = "asked" -> [state |-> "pending", of |-> 1]
                         [] stage[Other(s)] = "accepted" -> [state |-> "approved", of |-> 1]
    <3>1. follow = [s \in Servers |-> F(s)] /\ follower = [s \in Servers |-> G(s)]
      BY <1>1
    <3> HIDE DEF F, G
    <3>2. \A s \in Servers : follow[s] = F(s) /\ follower[s] = G(s)
      BY <3>1
    <3>3. \A s \in Servers : F(s) \in FollowRows /\ G(s) \in FollowerRows
      BY <1>5, <3>2
    <3> QED
      BY <3>1, <3>3
  <2>2. /\ followers \in [Servers -> 0..1] /\ following \in [Servers -> 0..1]
        /\ nextFollow \in [Servers -> Ids]
    <3>1. /\ followers = [s \in Servers |-> IF follower[s].state = "approved" THEN 1 ELSE 0]
          /\ following = [s \in Servers |-> IF follow[s] = NoFollow THEN 0 ELSE 1]
          /\ nextFollow = [s \in Servers |-> follow[s].id]
      BY <1>1
    <3> QED
      BY <1>5, <3>1
  <2>3. /\ blocked \in [Servers -> SUBSET {"actor", "domain"}] /\ locked \in [Servers -> BOOLEAN]
        /\ host \in [Servers -> Hosts]
        /\ jobs \in [Servers -> SUBSET Letters] /\ wire \in [Servers -> SUBSET Letters]
        /\ ops \in 0..MaxOps /\ slipped \in BOOLEAN /\ orderly \in BOOLEAN
    <3>1. /\ blocked = [s \in Servers |-> {}] /\ locked \in [Servers -> BOOLEAN]
          /\ jobs = [s \in Servers |-> {}] /\ wire = [s \in Servers |-> {}]
      BY <1>1
    <3>2. ops \in 0..MaxOps
      BY <1>1, FollowsAreCounted
    <3>3. slipped \in BOOLEAN /\ orderly \in BOOLEAN
      BY <1>1
    <3>4. host \in [Servers -> Hosts]
      BY <1>1, HostsAreWritten
    <3> QED
      BY <3>1, <3>2, <3>3, <3>4
  <2> QED
    BY <2>1, <2>2, <2>3 DEF RowsOK
<1>7. RunsOK
  <2>1. \A s \in Servers : \A k \in Slots : run[s][k] = Idle
    BY <1>1
  <2>2. run \in [Servers -> [Slots -> Requests]]
    BY <1>1, IdleIsFine
  <2> QED
    BY <2>1, <2>2, IdleIsFine DEF RunsOK
<1>8. ASSUME NEW s \in Servers PROVE FollowersOK(s) /\ FollowingOK(s) /\ BlocksOK(s)
  <2>1. followers[s] = Cardinality(ListFollowers(s))
    <3>1. followers[s] = IF follower[s].state = "approved" THEN 1 ELSE 0
      BY <1>1
    <3>2. ListFollowers(s) = IF follower[s].state = "approved" THEN {follower[s]} ELSE {}
      BY DEF ListFollowers
    <3>3. Cardinality({follower[s]}) = 1 /\ Cardinality({}) = 0
      BY FS_Singleton, FS_EmptySet
    <3>4. CASE follower[s].state = "approved"
      BY <3>1, <3>2, <3>3, <3>4
    <3>5. CASE follower[s].state # "approved"
      BY <3>1, <3>2, <3>3, <3>5
    <3> QED
      BY <3>4, <3>5
  <2>2. following[s] = Cardinality(ListFollows(s))
    <3>1. Cardinality({follow[s]} \ {NoFollow}) = IF follow[s] = NoFollow THEN 0 ELSE 1
      BY CountsAre
    <3> QED
      BY <1>1, <3>1 DEF ListFollows
  <2>3. BlocksOK(s)
    BY <1>1 DEF BlocksOK, BlockCovers
  <2> QED
    BY <2>1, <2>2, <2>3 DEF FollowersOK, FollowingOK
<1> QED
  BY <1>6, <1>7, <1>8 DEF GraphInv

-----------------------------------------------------------------------------
(* The theorems.                                                           *)

\* The invariant: the tables, the requests and the jobs are of their types; a
\* counter is right or about to be refreshed; whoever is blocked is out of the
\* tables, or a removal of the method that blocks is still to come, or a slip
\* has happened.
THEOREM GraphInvariant == Spec => []GraphInv
<1>1. GraphInv /\ [Next]_vars => GraphInv'
  <2> SUFFICES ASSUME GraphInv, [Next]_vars PROVE GraphInv'
    OBVIOUS
  <2>1. ASSUME NEW s \in Servers, NEW k \in Slots, Statement(s, k) PROVE GraphInv'
    BY <2>1, StatementKeeps
  <2>2. ASSUME NEW s \in Servers, NEW op \in Ops, Call(s, op) PROVE GraphInv'
    BY <2>2, CallKeeps
  <2>3. ASSUME NEW s \in Servers, NEW j \in jobs[s], Execute(s, j) \/ GiveUp(s, j) PROVE GraphInv'
    BY <2>3, JobKeeps
  <2>4. ASSUME NEW s \in Servers, NEW j \in wire[s], Receive(s, j) PROVE GraphInv'
    BY <2>4, ReceiveKeeps
  <2>5. CASE UNCHANGED vars
    BY <2>5, StutterKeeps
  <2> QED
    BY <2>1, <2>2, <2>3, <2>4, <2>5 DEF Next
<1> QED
  BY <1>1, InitGraph, PTL DEF Spec

\* Every variable keeps its type, for any numbers of follows and requests.
THEOREM GraphTypes == Spec => []TypeOK
<1>1. GraphInv => TypeOK
  <2> SUFFICES ASSUME GraphInv PROVE TypeOK
    OBVIOUS
  <2>1. /\ FollowRows \subseteq [id : Ids, accepted : BOOLEAN]
        /\ FollowerRows \subseteq [state : {"none", "pending", "approved"}, of : Ids]
        /\ Letters \subseteq Activity
    BY DEF FollowRows, FollowerRows, Letters
  <2>2. RowsOK
    BY DEF GraphInv
  <2>3. /\ follow \in [Servers -> [id : Ids, accepted : BOOLEAN]]
        /\ follower \in [Servers -> [state : {"none", "pending", "approved"}, of : Ids]]
        /\ jobs \in [Servers -> SUBSET Activity] /\ wire \in [Servers -> SUBSET Activity]
    BY <2>1, <2>2 DEF RowsOK
  <2>4. ASSUME NEW s \in Servers, NEW k \in Slots
        PROVE  /\ run[s][k].op \in {"none"} \cup DOMAIN Methods \cup DOMAIN Activities
               /\ run[s][k].found \in Ids /\ run[s][k].of \in Ids
    BY WhatIs DEF Requests
  <2> QED
    BY <2>2, <2>3, <2>4 DEF TypeOK, RowsOK
<1> QED
  BY <1>1, GraphInvariant, PTL

\* RefreshFollowersCount and RefreshFollowingCount count the rows as they are:
\* whatever changes and refreshes the two slots interleave, the counters of an
\* idle server are right.
THEOREM CountersAreRight == Spec => []CountersSettle
<1>1. GraphInv => CountersSettle
  <2> SUFFICES ASSUME GraphInv, NEW s \in Servers, \A k \in Slots : run[s][k] = Idle
               PROVE  /\ followers[s] = Cardinality(ListFollowers(s))
                      /\ following[s] = Cardinality(ListFollows(s))
    BY DEF CountersSettle
  <2>1. \A k \in Slots : \A X : ~Here(run[s][k], X)
    BY IdleIsFine
  <2>2. FollowersOK(s) /\ FollowingOK(s)
    BY DEF GraphInv
  <2> QED
    BY <2>1, <2>2 DEF FollowersOK, FollowingOK
<1> QED
  BY <1>1, GraphInvariant, PTL

\* Once the method that blocks an actor, or a domain whose rows the LIKE of the
\* two removals finds, has ended, nobody it blocked follows or is followed,
\* unless a request that had passed the check inserted its row later.
THEOREM BlocksHold == Spec => []BlockHolds
<1>1. GraphInv => BlockHolds
  <2> SUFFICES ASSUME GraphInv, NEW s \in Servers, BlockCovers(s),
                      run[s]["api"].op \notin {"blocks_create", "domain_blocks_create"}
               PROVE  slipped \/ (follow[s] = NoFollow /\ follower[s] = NoFollower)
    BY DEF BlockHolds
  <2>1. BlocksOK(s)
    BY DEF GraphInv
  <2>2. \A X : ~Removing(run[s]["api"], X)
    BY DEF Removing, Blocking
  <2> QED
    BY <2>1, <2>2 DEF BlocksOK
<1> QED
  BY <1>1, GraphInvariant, PTL

-----------------------------------------------------------------------------
(* What two servers agree on.  An orderly request begins when nothing is   *)
(* under way, so all that is under way is of one request and its answers.   *)

\* x and y agree on whether x follows y.
Agree(x, y) ==
  /\ follow[x].accepted <=> follower[y].state = "approved"
  /\ follower[y] # NoFollower => follow[x] # NoFollow

\* Nobody s blocks is in its tables.
Clean(s) == IsBlockedBy(s) => follow[s] = NoFollow /\ follower[s] = NoFollower

\* The activities of s that the other side may still see.
Out(s) == jobs[s] \cup wire[s]

Sends(s, type) == \A j \in Out(s) : j.type = type

Left(s, k) == run[s][k].todo

\* What is left of the lists of the API methods, and of the inbox.
Creating == <<"CreateFollow", "RefreshFollowing", "SendFollow">>
Created == <<"RefreshFollowing", "SendFollow">>
Asking == <<"SendFollow">>
Dropping == <<"DeleteFollow", "RefreshFollowing", "SendUndoFollow">>
Dropped == <<"RefreshFollowing", "SendUndoFollow">>
Undoing == <<"SendUndoFollow">>
Approval == <<"ApproveFollower", "RefreshFollowers", "SendAccept">>
Approved == <<"RefreshFollowers", "SendAccept">>
Accepting == <<"SendAccept">>
Rejection == <<"DeleteFollower", "RefreshFollowers", "SendReject">>
Rejected == <<"RefreshFollowers", "SendReject">>
Refusing == <<"SendReject">>
Block2 == <<"DeleteFollowerByActor", "RefreshFollowers",
            "GetFollowByTarget", "DeleteFollow", "RefreshFollowing", "SendBlock">>
Block3 == <<"RefreshFollowers",
            "GetFollowByTarget", "DeleteFollow", "RefreshFollowing", "SendBlock">>
Block4 == <<"GetFollowByTarget", "DeleteFollow", "RefreshFollowing", "SendBlock">>
Block5 == <<"DeleteFollow", "RefreshFollowing", "SendBlock">>
Block6 == <<"RefreshFollowing", "SendBlock">>
Block7 == <<"SendBlock">>
Unblocked == <<"SendUndoBlock">>

Follow2 == <<"CreateFollower", "RefreshFollowers", "AutoAccept">>
Follow3 == <<"RefreshFollowers", "AutoAccept">>
Follow4 == <<"AutoAccept">>
Undo2 == <<"RefreshFollowers">>
Accept2 == <<"GetFollowByTarget", "UpdateFollow">>
Accept3 == <<"UpdateFollow">>
Reject2 == <<"GetFollowByTarget", "DeleteFollow", "RefreshFollowing">>
Reject3 == <<"DeleteFollow", "RefreshFollowing">>
Reject4 == <<"RefreshFollowing">>
BlockIn2 == <<"RefreshFollowers", "GetFollowByTarget", "DeleteFollow", "RefreshFollowing">>

\* a follows b, who answers at once or not.
Following(a, b) ==
  /\ Clean(a) /\ Clean(b) /\ Agree(b, a)
  /\ Sends(a, "Follow") /\ Sends(b, "Accept")
  /\ Left(a, "api") \in {<<>>, FollowsCreate, Creating, Created, Asking}
  /\ Left(b, "inbox") \in {<<>>, InboxFollow, Follow2, Follow3, Follow4}
  /\ Left(a, "inbox") \in {<<>>, InboxAccept, Accept2, Accept3}
  /\ Left(a, "api") = Creating => ~IsBlockedBy(a)
  /\ Left(b, "inbox") = Follow2 => ~IsBlockedBy(b)
  /\ Left(a, "inbox") = Accept3 => run[a]["inbox"].found = follow[a].id
  /\ \/ /\ Agree(a, b) /\ Out(a) = {} /\ Out(b) = {}
        /\ Left(b, "inbox") = <<>> /\ Left(a, "inbox") = <<>>
        /\ Left(a, "api") \in {<<>>, FollowsCreate, Creating}
     \/ /\ follow[a] # NoFollow /\ Left(a, "api") \in {<<>>, Created, Asking}
        /\ \/ /\ follower[b] = NoFollower /\ ~follow[a].accepted
              /\ Out(b) = {} /\ Left(a, "inbox") = <<>>
              /\ Left(b, "inbox") \in {<<>>, InboxFollow, Follow2}
           \/ /\ follower[b].state = "pending" /\ locked[b] /\ ~follow[a].accepted
              /\ Out(b) = {} /\ Left(a, "inbox") = <<>>
           \/ /\ follower[b].state = "approved" /\ ~locked[b]
              /\ \/ follow[a].accepted \/ Left(b, "inbox") \in {Follow3, Follow4}
                 \/ Out(b) # {} \/ Left(a, "inbox") # <<>>

\* a no longer follows b.
Unfollowing(a, b) ==
  /\ Clean(a) /\ Clean(b) /\ Agree(b, a)
  /\ Sends(a, "Undo") /\ Out(b) = {}
  /\ Left(a, "api") \in {<<>>, FollowsDelete, Dropping, Dropped, Undoing}
  /\ Left(b, "inbox") \in {<<>>, InboxUndo, Undo2} /\ Left(a, "inbox") = <<>>
  /\ \/ /\ Left(a, "api") \in {FollowsDelete, Dropping}
        /\ Left(a, "api") = Dropping => run[a]["api"].found = follow[a].id
        /\ follow[a] # NoFollow /\ Agree(a, b)
        /\ Out(a) = {} /\ Left(b, "inbox") = <<>>
     \/ /\ Left(a, "api") \in {<<>>, Dropped, Undoing}
        /\ follow[a] = NoFollow
        /\ \/ follower[b] = NoFollower \/ Left(a, "api") # <<>> \/ Out(a) # {}
           \/ Left(b, "inbox") = InboxUndo

\* a lets b, who asked, follow.
Approving(a, b) ==
  /\ Clean(a) /\ Clean(b) /\ Agree(a, b) /\ follow[b] # NoFollow
  /\ Sends(a, "Accept") /\ Out(b) = {}
  /\ Left(a, "api") \in {<<>>, FollowersApprove, Approval, Approved, Accepting}
  /\ Left(b, "inbox") \in {<<>>, InboxAccept, Accept2, Accept3} /\ Left(a, "inbox") = <<>>
  /\ Left(b, "inbox") = Accept3 => run[b]["inbox"].found = follow[b].id
  /\ \/ /\ Left(a, "api") \in {FollowersApprove, Approval}
        /\ run[a]["api"].of = follower[a].of
        /\ follower[a].state = "pending" /\ ~follow[b].accepted
        /\ Out(a) = {} /\ Left(b, "inbox") = <<>>
     \/ /\ Left(a, "api") \in {<<>>, Approved, Accepting}
        /\ follower[a].state = "approved"
        /\ follow[b].accepted \/ Left(a, "api") # <<>> \/ Out(a) # {} \/ Left(b, "inbox") # <<>>

\* a does not let b, who asked, follow.
Rejecting(a, b) ==
  /\ Clean(a) /\ Clean(b) /\ Agree(a, b) /\ ~follow[b].accepted
  /\ Sends(a, "Reject") /\ Out(b) = {}
  /\ Left(a, "api") \in {<<>>, FollowersReject, Rejection, Rejected, Refusing}
  /\ Left(b, "inbox") \in {<<>>, InboxReject, Reject2, Reject3, Reject4} /\ Left(a, "inbox") = <<>>
  /\ \/ /\ Left(a, "api") \in {FollowersReject, Rejection}
        /\ run[a]["api"].of = follower[a].of
        /\ follower[a].state = "pending" /\ follow[b] # NoFollow
        /\ Out(a) = {} /\ Left(b, "inbox") = <<>>
     \/ /\ Left(a, "api") \in {<<>>, Rejected, Refusing}
        /\ follower[a] = NoFollower

\* a blocks b: until the Block has come, b may believe what it likes.
Blocks(a, b) ==
  /\ Clean(b) /\ Sends(a, "Block") /\ Out(b) = {}
  /\ Left(a, "api") \in {<<>>, BlocksCreate, Block2, Block3, Block4, Block5, Block6, Block7}
  /\ Left(a, "api") # <<>> => run[a]["api"].op = "blocks_create"
  /\ Left(b, "inbox") \in {<<>>, InboxBlock, BlockIn2, Reject2, Reject3, Reject4}
  /\ Left(a, "inbox") = <<>>
  /\ \/ /\ Left(a, "api") \in {<<>>, BlocksCreate}
        /\ Clean(a) /\ Agree(a, b) /\ Agree(b, a)
        /\ Out(a) = {} /\ Left(b, "inbox") = <<>>
     \/ /\ Left(a, "api") # BlocksCreate
        /\ follower[a] = NoFollower \/ Left(a, "api") = Block2
        /\ follow[a] = NoFollow \/ Left(a, "api") \in {Block2, Block3, Block4, Block5}
        /\ Left(a, "api") = Block5 => run[a]["api"].found = follow[a].id
        /\ Left(b, "inbox") = Reject3 => run[b]["inbox"].found = follow[b].id
        /\ \/ Left(a, "api") # <<>> \/ Out(a) # {} \/ Left(b, "inbox") = InboxBlock
           \/ follower[b] = NoFollower
        /\ \/ Left(a, "api") # <<>> \/ Out(a) # {}
           \/ Left(b, "inbox") \in {InboxBlock, BlockIn2, Reject2, Reject3}
           \/ follow[b] = NoFollow

\* a no longer blocks b, which changes nothing for b.
Unblocks(a, b) ==
  /\ Clean(a) /\ Clean(b) /\ Agree(a, b) /\ Agree(b, a)
  /\ Sends(a, "UndoBlock") /\ Out(b) = {}
  /\ Left(a, "api") \in {<<>>, BlocksDelete, Unblocked}
  /\ Left(b, "inbox") = <<>> /\ Left(a, "inbox") = <<>>

Episode(a, b) ==
  /\ Left(b, "api") = <<>>
  /\ \/ Following(a, b) \/ Unfollowing(a, b) \/ Approving(a, b) \/ Rejecting(a, b)
     \/ Blocks(a, b) \/ Unblocks(a, b)

OrderInv == orderly => \E a \in Servers : Episode(a, Other(a))

-----------------------------------------------------------------------------
(* What each statement does to the rows, the jobs and its request.          *)

\* Which action a request at a statement takes.
LEMMA StatementNames ==
  ASSUME NEW s \in Servers, NEW k \in Slots, Statement(s, k), NEW h, h = Head(run[s][k].todo)
  PROVE  /\ run[s][k].todo # <<>>
         /\ h = "IsBlocked" => IsBlocked(s, k)
         /\ h = "CreateFollow" => CreateFollow(s, k)
         /\ h \in Gets => GetFollowByTarget(s, k)
         /\ h = "UpdateFollow" => UpdateFollow(s, k)
         /\ h = "DeleteFollow" => DeleteFollow(s, k)
         /\ h = "CreateFollower" => CreateFollower(s, k)
         /\ h = "GetFollower" => GetFollower(s, k)
         /\ h = "ApproveFollower" => ApproveFollower(s, k)
         /\ h = "DeleteFollower" => DeleteFollower(s, k)
         /\ h = "DeleteFollowerByActor" => DeleteFollowerByActorURI(s, k)
         /\ h = "CreateBlock" => CreateBlock(s, k, "CreateBlock", "actor")
         /\ h = "DeleteBlock" => DeleteBlock(s, k, "DeleteBlock", "actor")
         /\ h = "RefreshFollowers" => RefreshFollowersCount(s, k)
         /\ h = "RefreshFollowing" => RefreshFollowingCount(s, k)
         /\ h = "SendAccept" => Enqueue(s, k, "SendAccept", "Accept", run[s][k].of)
         /\ h = "SendReject" => Enqueue(s, k, "SendReject", "Reject", run[s][k].of)
         /\ h = "AutoAccept" => AutoAccept(s, k)
         /\ h = "SendFollow" => Enqueue(s, k, "SendFollow", "Follow", run[s][k].found)
         /\ h = "SendUndoFollow" => Enqueue(s, k, "SendUndoFollow", "Undo", run[s][k].found)
         /\ h = "SendBlock" => Enqueue(s, k, "SendBlock", "Block", 0)
         /\ h = "SendUndoBlock" => Enqueue(s, k, "SendUndoBlock", "UndoBlock", 0)
<1>1. /\ IsBlocked(s, k) => h = "IsBlocked" /\ run[s][k].todo # <<>>
      /\ CreateFollow(s, k) => h = "CreateFollow" /\ run[s][k].todo # <<>>
      /\ GetFollowByTarget(s, k) => h \in Gets /\ run[s][k].todo # <<>>
      /\ UpdateFollow(s, k) => h = "UpdateFollow" /\ run[s][k].todo # <<>>
      /\ DeleteFollow(s, k) => h = "DeleteFollow" /\ run[s][k].todo # <<>>
      /\ DeleteFollowsByTargetDomain(s, k) => h = "DeleteFollowsByDomain" /\ run[s][k].todo # <<>>
  BY DEF IsBlocked, CreateFollow, GetFollowByTarget, UpdateFollow, DeleteFollow, DeleteFollowsByTargetDomain, Change, At, Gets
<1>2. /\ CreateFollower(s, k) => h = "CreateFollower" /\ run[s][k].todo # <<>>
      /\ GetFollower(s, k) => h = "GetFollower" /\ run[s][k].todo # <<>>
      /\ ApproveFollower(s, k) => h = "ApproveFollower" /\ run[s][k].todo # <<>>
      /\ DeleteFollower(s, k) => h = "DeleteFollower" /\ run[s][k].todo # <<>>
      /\ DeleteFollowerByActorURI(s, k) => h = "DeleteFollowerByActor" /\ run[s][k].todo # <<>>
      /\ DeleteFollowersByActorDomain(s, k) => h = "DeleteFollowersByDomain" /\ run[s][k].todo # <<>>
  BY DEF CreateFollower, GetFollower, ApproveFollower, DeleteFollower, DeleteFollowerByActorURI,
         DeleteFollowersByActorDomain, Change, At
<1>3. /\ \A n, m : CreateBlock(s, k, n, m) => h = n /\ run[s][k].todo # <<>>
      /\ \A n, m : DeleteBlock(s, k, n, m) => h = n /\ run[s][k].todo # <<>>
      /\ RefreshFollowersCount(s, k) => h = "RefreshFollowers" /\ run[s][k].todo # <<>>
      /\ RefreshFollowingCount(s, k) => h = "RefreshFollowing" /\ run[s][k].todo # <<>>
      /\ CancelByDomain(s, k) => h = "CancelByDomain" /\ run[s][k].todo # <<>>
      /\ \A n, x, y : Enqueue(s, k, n, x, y) => h = n /\ run[s][k].todo # <<>>
  BY DEF CreateBlock, DeleteBlock, RefreshFollowersCount, RefreshFollowingCount, CancelByDomain, Enqueue, Change, At
<1>4. AutoAccept(s, k) => h = "AutoAccept" /\ run[s][k].todo # <<>>
  BY <1>3 DEF AutoAccept, At
<1> QED
  BY <1>1, <1>2, <1>3, <1>4, SMTT(60) DEF Statement, SendAnswers, SendRequests, Gets

\* What a statement of request k of s does: the rows of s, its jobs, and what is
\* left of the request.
Effect(s, k, F, W, B, J, t) ==
  /\ follow'[s] = F /\ follower'[s] = W /\ blocked'[s] = B /\ jobs'[s] = J
  /\ \A x \in Servers : x # s => /\ follow'[x] = follow[x] /\ follower'[x] = follower[x]
                                /\ blocked'[x] = blocked[x] /\ jobs'[x] = jobs[x]
  /\ wire' = wire /\ locked' = locked /\ orderly' = orderly
  /\ Left(s, k)' = t
  /\ \A x \in Servers, l \in Slots : x # s \/ l # k => run'[x][l] = run[x][l]
  /\ t # <<>> => run'[s][k].op = run[s][k].op

RunBecomes(s, k, n) == run' = [run EXCEPT ![s][k] = n]

LEMMA RunMoves ==
  ASSUME GraphInv, NEW s \in Servers, NEW k \in Slots, NEW n, RunBecomes(s, k, n)
  PROVE  /\ run'[s][k] = n
         /\ \A x \in Servers, l \in Slots : x # s \/ l # k => run'[x][l] = run[x][l]
BY DEF GraphInv, RunsOK, RunBecomes

LEMMA GoesOnTo ==
  ASSUME GraphInv, NEW s \in Servers, NEW k \in Slots, NEW found, NEW of, GoOnWith(s, k, found, of)
  PROVE  /\ run'[s][k].todo = Tail(run[s][k].todo)
         /\ \A x \in Servers, l \in Slots : x # s \/ l # k => run'[x][l] = run[x][l]
         /\ Tail(run[s][k].todo) # <<>> =>
              /\ run'[s][k].op = run[s][k].op /\ run'[s][k].found = found /\ run'[s][k].of = of
<1> PICK r : r = run[s][k]
  OBVIOUS
<1>0. PICK n : n = IF Tail(r.todo) = <<>> THEN Idle ELSE [r EXCEPT !.todo = Tail(@), !.found = found, !.of = of]
  OBVIOUS
<1>1. RunBecomes(s, k, n)
  BY <1>0 DEF GoOnWith, RunBecomes
<1>2. run'[s][k] = n /\ \A x \in Servers, l \in Slots : x # s \/ l # k => run'[x][l] = run[x][l]
  BY <1>1, RunMoves
<1>3. r \in Requests
  BY WhatIs
<1>4. n.todo = Tail(r.todo) /\ (Tail(r.todo) # <<>> => n.op = r.op /\ n.found = found /\ n.of = of)
  BY <1>0, <1>3 DEF Idle, Requests
<1> QED
  BY <1>2, <1>4

LEMMA GoesOnPast ==
  ASSUME GraphInv, NEW s \in Servers, NEW k \in Slots, GoOnWithoutRefresh(s, k)
  PROVE  /\ run'[s][k].todo = IF Len(run[s][k].todo) <= 2 THEN <<>> ELSE Tail(Tail(run[s][k].todo))
         /\ \A x \in Servers, l \in Slots : x # s \/ l # k => run'[x][l] = run[x][l]
         /\ run'[s][k].todo # <<>> => run'[s][k].op = run[s][k].op
<1> PICK r : r = run[s][k]
  OBVIOUS
<1> PICK n : n = IF Len(r.todo) <= 2 THEN Idle ELSE [r EXCEPT !.todo = Tail(Tail(@))]
  OBVIOUS
<1>1. RunBecomes(s, k, n)
  BY DEF GoOnWithoutRefresh, RunBecomes
<1>2. run'[s][k] = n /\ \A x \in Servers, l \in Slots : x # s \/ l # k => run'[x][l] = run[x][l]
  BY <1>1, RunMoves
<1>3. r \in Requests
  BY WhatIs
<1>4. n.todo = (IF Len(r.todo) <= 2 THEN <<>> ELSE Tail(Tail(r.todo))) /\ (n.todo # <<>> => n.op = r.op)
  BY <1>3 DEF Idle, Requests
<1> QED
  BY <1>2, <1>4

LEMMA ReturnsAtOnce ==
  ASSUME GraphInv, NEW s \in Servers, NEW k \in Slots, Return(s, k)
  PROVE  /\ run'[s][k] = Idle /\ run'[s][k].todo = <<>>
         /\ \A x \in Servers, l \in Slots : x # s \/ l # k => run'[x][l] = run[x][l]
<1>1. RunBecomes(s, k, Idle)
  BY DEF Return, RunBecomes
<1>2. /\ run'[s][k] = Idle
      /\ \A x \in Servers, l \in Slots : x # s \/ l # k => run'[x][l] = run[x][l]
  BY <1>1, RunMoves
<1> QED
  BY <1>2 DEF Idle

LEMMA RowsMove ==
  ASSUME GraphInv, NEW s \in Servers, NEW k, NEW st, NEW F, NEW W, NEW B, Change(s, k, st, F, W, B)
  PROVE  /\ follow'[s] = F /\ follower'[s] = W /\ blocked'[s] = B /\ jobs'[s] = jobs[s]
         /\ \A x \in Servers : x # s => /\ follow'[x] = follow[x] /\ follower'[x] = follower[x]
                                       /\ blocked'[x] = blocked[x] /\ jobs'[x] = jobs[x]
         /\ wire' = wire /\ locked' = locked /\ orderly' = orderly
BY DEF GraphInv, RowsOK, Change

LEMMA EnqueueDoes ==
  ASSUME GraphInv, NEW s \in Servers, NEW k \in Slots, NEW st, NEW type, NEW of, Enqueue(s, k, st, type, of)
  PROVE  \E j : j.type = type /\ Effect(s, k, follow[s], follower[s], blocked[s], jobs[s] \cup {j}, Tail(Left(s, k)))
<1> PICK j : j = [type |-> type, of |-> of]
  OBVIOUS
<1>1. jobs'[s] = jobs[s] \cup {j} /\ \A x \in Servers : x # s => jobs'[x] = jobs[x]
  BY DEF Enqueue, GraphInv, RowsOK
<1>2. GoOnWith(s, k, run[s][k].found, run[s][k].of)
  BY DEF Enqueue, GoOn
<1>3. j.type = type
  OBVIOUS
<1> QED
  BY <1>1, <1>2, <1>3, GoesOnTo DEF Enqueue, Effect, Left, tables, history

LEMMA IsBlockedDoes ==
  ASSUME GraphInv, NEW s \in Servers, NEW k \in Slots, IsBlocked(s, k)
  PROVE  Effect(s, k, follow[s], follower[s], blocked[s], jobs[s],
                IF IsBlockedBy(s) THEN <<>> ELSE Tail(Left(s, k)))
<1>1. CASE IsBlockedBy(s)
  BY <1>1, ReturnsAtOnce DEF IsBlocked, Effect, Left, tables, history
<1>2. CASE ~IsBlockedBy(s)
  BY <1>2, GoesOnTo DEF IsBlocked, Effect, Left, tables, history, GoOn
<1> QED
  BY <1>1, <1>2

LEMMA CreateFollowDoes ==
  ASSUME GraphInv, NEW s \in Servers, NEW k \in Slots, CreateFollow(s, k)
  PROVE  \/ /\ follow[s] # NoFollow
            /\ Effect(s, k, follow[s], follower[s], blocked[s], jobs[s], <<>>)
         \/ /\ follow[s] = NoFollow
            /\ \E F : /\ F # NoFollow /\ ~F.accepted
                     /\ Effect(s, k, F, follower[s], blocked[s], jobs[s], Tail(Left(s, k)))
<1>1. CASE follow[s] # NoFollow
  BY <1>1, ReturnsAtOnce, RowsMove DEF CreateFollow, Effect, Left
<1>2. CASE follow[s] = NoFollow
  <2> PICK F : F = [id |-> nextFollow[s] + 1, accepted |-> FALSE]
    OBVIOUS
  <2>1. F # NoFollow /\ ~F.accepted
    <3>1. nextFollow[s] + 1 # 0
      BY WhatIs DEF Ids
    <3> QED
      BY <3>1 DEF NoFollow
  <2>2. /\ Change(s, k, "CreateFollow", F, follower[s], blocked[s])
        /\ GoOnWith(s, k, nextFollow[s] + 1, 0)
    BY <1>2 DEF CreateFollow
  <2>3. Effect(s, k, F, follower[s], blocked[s], jobs[s], Tail(Left(s, k)))
    BY <2>2, GoesOnTo, RowsMove DEF Effect, Left
  <2> QED
    BY <1>2, <2>1, <2>3
<1> QED
  BY <1>1, <1>2

LEMMA GetFollowByTargetDoes ==
  ASSUME GraphInv, NEW s \in Servers, NEW k \in Slots, GetFollowByTarget(s, k)
  PROVE  \/ /\ follow[s] = NoFollow /\ run[s][k].op # "blocks_create"
            /\ Effect(s, k, follow[s], follower[s], blocked[s], jobs[s], <<>>)
         \/ /\ Tail(Left(s, k)) # <<>> => run'[s][k].found = follow[s].id
            /\ Effect(s, k, follow[s], follower[s], blocked[s], jobs[s], Tail(Left(s, k)))
<1>1. CASE follow[s] = NoFollow /\ run[s][k].op \in {"follows_delete", "Accept", "Reject"}
  BY <1>1, ReturnsAtOnce DEF GetFollowByTarget, Effect, Left, tables, history
<1>2. CASE ~(follow[s] = NoFollow /\ run[s][k].op \in {"follows_delete", "Accept", "Reject"})
  BY <1>2, GoesOnTo DEF GetFollowByTarget, Effect, Left, tables, history
<1> QED
  BY <1>1, <1>2

LEMMA UpdateFollowDoes ==
  ASSUME GraphInv, NEW s \in Servers, NEW k \in Slots, UpdateFollow(s, k)
  PROVE  /\ \E F : /\ follow[s].id # run[s][k].found => F = follow[s]
                 /\ follow[s].id = run[s][k].found => F.accepted /\ F.id = follow[s].id
                 /\ Effect(s, k, F, follower[s], blocked[s], jobs[s], Tail(Left(s, k)))
<1> PICK F : F = IF follow[s].id = run[s][k].found THEN [follow[s] EXCEPT !.accepted = TRUE] ELSE follow[s]
  OBVIOUS
<1>1. follow[s] \in FollowRows
  BY WhatIs
<1>2. /\ follow[s].id # run[s][k].found => F = follow[s]
      /\ follow[s].id = run[s][k].found => F.accepted /\ F.id = follow[s].id
  BY <1>1 DEF FollowRows
<1>3. Change(s, k, "UpdateFollow", F, follower[s], blocked[s]) /\ GoOn(s, k)
  BY DEF UpdateFollow
<1>4. Effect(s, k, F, follower[s], blocked[s], jobs[s], Tail(Left(s, k)))
  BY <1>3, GoesOnTo, RowsMove DEF Effect, Left, GoOn
<1> QED
  BY <1>2, <1>4

LEMMA DeleteFollowDoes ==
  ASSUME GraphInv, NEW s \in Servers, NEW k \in Slots, DeleteFollow(s, k)
  PROVE  Effect(s, k, IF follow[s].id = run[s][k].found THEN NoFollow ELSE follow[s],
                follower[s], blocked[s], jobs[s],
                IF follow[s] # NoFollow /\ follow[s].id = run[s][k].found THEN Tail(Left(s, k))
                ELSE IF Len(Left(s, k)) <= 2 THEN <<>> ELSE Tail(Tail(Left(s, k))))
<1>1. CASE follow[s] # NoFollow /\ follow[s].id = run[s][k].found
  BY <1>1, GoesOnTo, RowsMove DEF DeleteFollow, Effect, Left, GoOn
<1>2. CASE ~(follow[s] # NoFollow /\ follow[s].id = run[s][k].found)
  <2> PICK F : F = IF follow[s].id = run[s][k].found THEN NoFollow ELSE follow[s]
    OBVIOUS
  <2>1. Change(s, k, "DeleteFollow", F, follower[s], blocked[s]) /\ GoOnWithoutRefresh(s, k)
    BY <1>2 DEF DeleteFollow
  <2>2. Effect(s, k, F, follower[s], blocked[s], jobs[s],
               IF Len(Left(s, k)) <= 2 THEN <<>> ELSE Tail(Tail(Left(s, k))))
    <3>1. PICK t : t = IF Len(Left(s, k)) <= 2 THEN <<>> ELSE Tail(Tail(Left(s, k)))
      OBVIOUS
    <3>2. /\ Left(s, k)' = t /\ (t # <<>> => run'[s][k].op = run[s][k].op)
          /\ \A x \in Servers, l \in Slots : x # s \/ l # k => run'[x][l] = run[x][l]
      BY <2>1, <3>1, GoesOnPast DEF Left
    <3>3. Effect(s, k, F, follower[s], blocked[s], jobs[s], t)
      BY <2>1, <3>2, RowsMove DEF Effect
    <3> QED
      BY <3>1, <3>3
  <2> QED
    BY <1>2, <2>2
<1> QED
  BY <1>1, <1>2

\* Of a follow that may be gone.
LEMMA DeleteFollowMay ==
  ASSUME GraphInv, NEW s \in Servers, NEW k \in Slots, DeleteFollow(s, k)
  PROVE  \E F, n : /\ F \in {NoFollow, follow[s]} /\ (follow[s].id = run[s][k].found => F = NoFollow)
                  /\ \/ n = Tail(Left(s, k))
                     \/ n = IF Len(Left(s, k)) <= 2 THEN <<>> ELSE Tail(Tail(Left(s, k)))
                  /\ Effect(s, k, F, follower[s], blocked[s], jobs[s], n)
<1> PICK F : F = IF follow[s].id = run[s][k].found THEN NoFollow ELSE follow[s]
  OBVIOUS
<1> PICK n : n = IF follow[s] # NoFollow /\ follow[s].id = run[s][k].found THEN Tail(Left(s, k))
                 ELSE IF Len(Left(s, k)) <= 2 THEN <<>> ELSE Tail(Tail(Left(s, k)))
  OBVIOUS
<1>1. Effect(s, k, F, follower[s], blocked[s], jobs[s], n)
  BY DeleteFollowDoes
<1>2. \/ n = Tail(Left(s, k))
      \/ n = IF Len(Left(s, k)) <= 2 THEN <<>> ELSE Tail(Tail(Left(s, k)))
  OBVIOUS
<1> QED
  BY <1>1, <1>2

LEMMA CreateFollowerDoes ==
  ASSUME GraphInv, NEW s \in Servers, NEW k \in Slots, CreateFollower(s, k)
  PROVE  \/ /\ follower[s] # NoFollower
            /\ Effect(s, k, follow[s], follower[s], blocked[s], jobs[s], <<>>)
         \/ /\ follower[s] = NoFollower
            /\ \E W : /\ W.state = IF locked[s] THEN "pending" ELSE "approved"
                     /\ Effect(s, k, follow[s], W, blocked[s], jobs[s], Tail(Left(s, k)))
<1>1. CASE follower[s] # NoFollower
  BY <1>1, ReturnsAtOnce, RowsMove DEF CreateFollower, Effect, Left
<1>2. CASE follower[s] = NoFollower
  <2> PICK W : W = [state |-> IF locked[s] THEN "pending" ELSE "approved", of |-> run[s][k].of]
    OBVIOUS
  <2>1. W.state = IF locked[s] THEN "pending" ELSE "approved"
    OBVIOUS
  <2>2. Change(s, k, "CreateFollower", follow[s], W, blocked[s]) /\ GoOn(s, k)
    BY <1>2 DEF CreateFollower
  <2>3. Effect(s, k, follow[s], W, blocked[s], jobs[s], Tail(Left(s, k)))
    BY <2>2, GoesOnTo, RowsMove DEF Effect, Left, GoOn
  <2> QED
    BY <1>2, <2>1, <2>3
<1> QED
  BY <1>1, <1>2

LEMMA GetFollowerDoes ==
  ASSUME GraphInv, NEW s \in Servers, NEW k \in Slots, GetFollower(s, k), follower[s].of = run[s][k].of
  PROVE  /\ Effect(s, k, follow[s], follower[s], blocked[s], jobs[s], Tail(Left(s, k)))
         /\ Tail(Left(s, k)) # <<>> => run'[s][k].of = run[s][k].of
BY GoesOnTo DEF GetFollower, Effect, Left, tables, history, GoOn

LEMMA ApproveFollowerDoes ==
  ASSUME GraphInv, NEW s \in Servers, NEW k \in Slots, ApproveFollower(s, k), follower[s].of = run[s][k].of
  PROVE  \E W : /\ W.state = "approved"
               /\ Effect(s, k, follow[s], W, blocked[s], jobs[s], Tail(Left(s, k)))
<1> PICK W : W = [follower[s] EXCEPT !.state = "approved"]
  OBVIOUS
<1>1. follower[s] \in FollowerRows
  BY WhatIs
<1>2. W.state = "approved"
  BY <1>1 DEF FollowerRows
<1>3. Change(s, k, "ApproveFollower", follow[s], W, blocked[s]) /\ GoOn(s, k)
  BY DEF ApproveFollower
<1>4. Effect(s, k, follow[s], W, blocked[s], jobs[s], Tail(Left(s, k)))
  BY <1>3, GoesOnTo, RowsMove DEF Effect, Left, GoOn
<1> QED
  BY <1>2, <1>4

LEMMA DeleteFollowerDoes ==
  ASSUME GraphInv, NEW s \in Servers, NEW k \in Slots, DeleteFollower(s, k), follower[s].of = run[s][k].of
  PROVE  Effect(s, k, follow[s], NoFollower, blocked[s], jobs[s], Tail(Left(s, k)))
BY GoesOnTo, RowsMove DEF DeleteFollower, Effect, Left, GoOn

LEMMA DeleteFollowerByActorDoes ==
  ASSUME GraphInv, NEW s \in Servers, NEW k \in Slots, DeleteFollowerByActorURI(s, k)
  PROVE  Effect(s, k, follow[s], NoFollower, blocked[s], jobs[s], Tail(Left(s, k)))
BY GoesOnTo, RowsMove DEF DeleteFollowerByActorURI, Effect, Left, GoOn

LEMMA CreateBlockDoes ==
  ASSUME GraphInv, NEW s \in Servers, NEW k \in Slots, CreateBlock(s, k, "CreateBlock", "actor")
  PROVE  \/ Effect(s, k, follow[s], follower[s], blocked[s], jobs[s], <<>>)
         \/ \E B : Effect(s, k, follow[s], follower[s], B, jobs[s], Tail(Left(s, k)))
<1>1. CASE "actor" \in blocked[s]
  <2>1. blocked[s] \cup {"actor"} = blocked[s]
    BY <1>1
  <2> QED
    <3>1. Change(s, k, "CreateBlock", follow[s], follower[s], blocked[s]) /\ Return(s, k)
      BY <1>1, <2>1 DEF CreateBlock
    <3> QED
      BY <3>1, ReturnsAtOnce, RowsMove DEF Effect, Left
<1>2. CASE "actor" \notin blocked[s]
  BY <1>2, GoesOnTo, RowsMove DEF CreateBlock, Effect, Left, GoOn
<1> QED
  BY <1>1, <1>2

LEMMA DeleteBlockDoes ==
  ASSUME GraphInv, NEW s \in Servers, NEW k \in Slots, DeleteBlock(s, k, "DeleteBlock", "actor")
  PROVE  Effect(s, k, follow[s], follower[s], blocked[s] \ {"actor"}, jobs[s], Tail(Left(s, k)))
BY GoesOnTo, RowsMove DEF DeleteBlock, Effect, Left, GoOn

LEMMA RefreshDoes ==
  ASSUME GraphInv, NEW s \in Servers, NEW k \in Slots, RefreshFollowersCount(s, k) \/ RefreshFollowingCount(s, k)
  PROVE  Effect(s, k, follow[s], follower[s], blocked[s], jobs[s], Tail(Left(s, k)))
BY GoesOnTo DEF RefreshFollowersCount, RefreshFollowingCount, Effect, Left, GoOn, tables, history

LEMMA AutoAcceptDoes ==
  ASSUME GraphInv, NEW s \in Servers, NEW k \in Slots, AutoAccept(s, k)
  PROVE  \/ /\ locked[s]
            /\ Effect(s, k, follow[s], follower[s], blocked[s], jobs[s], Tail(Left(s, k)))
         \/ /\ ~locked[s]
            /\ \E j : /\ j.type = "Accept"
                     /\ Effect(s, k, follow[s], follower[s], blocked[s], jobs[s] \cup {j}, Tail(Left(s, k)))
<1>1. CASE locked[s]
  BY <1>1, GoesOnTo DEF AutoAccept, Effect, Left, GoOn, tables, history
<1>2. CASE ~locked[s]
  <2>1. Enqueue(s, k, "AutoAccept", "Accept", run[s][k].of)
    BY <1>2 DEF AutoAccept
  <2> QED
    BY <1>2, <2>1, EnqueueDoes
<1> QED
  BY <1>1, <1>2


Pair(a, b) == a \in Servers /\ b \in Servers /\ a # b /\ Servers = {a, b}

\* What a statement in slot k of s means for s and t.
Changed(s, t, k, l, F, W, B, J, n) ==
  /\ follow'[s] = F /\ follower'[s] = W /\ blocked'[s] = B /\ jobs'[s] = J /\ wire'[s] = wire[s]
  /\ follow'[t] = follow[t] /\ follower'[t] = follower[t] /\ blocked'[t] = blocked[t]
  /\ jobs'[t] = jobs[t] /\ wire'[t] = wire[t] /\ locked' = locked /\ orderly' = orderly
  /\ Left(s, k)' = n /\ (n # <<>> => run'[s][k].op = run[s][k].op)
  /\ run'[s][l] = run[s][l] /\ run'[t][k] = run[t][k] /\ run'[t][l] = run[t][l]

LEMMA EffectOn ==
  ASSUME NEW s, NEW t, Pair(s, t), NEW k \in Slots, NEW l \in Slots, k # l,
         NEW F, NEW W, NEW B, NEW J, NEW n, Effect(s, k, F, W, B, J, n)
  PROVE  Changed(s, t, k, l, F, W, B, J, n)
BY DEF Effect, Pair, Changed

-----------------------------------------------------------------------------
(* The statements of an episode, one step per statement that may be next.  *)

LEMMA FollowLists ==
  /\ FollowsCreate # <<>> /\ Head(FollowsCreate) = "IsBlocked" /\ Tail(FollowsCreate) = Creating
  /\ Creating # <<>> /\ Head(Creating) = "CreateFollow" /\ Tail(Creating) = Created
  /\ Created # <<>> /\ Head(Created) = "RefreshFollowing" /\ Tail(Created) = Asking
  /\ Asking # <<>> /\ Head(Asking) = "SendFollow" /\ Tail(Asking) = <<>>
  /\ InboxFollow # <<>> /\ Head(InboxFollow) = "IsBlocked" /\ Tail(InboxFollow) = Follow2
  /\ Follow2 # <<>> /\ Head(Follow2) = "CreateFollower" /\ Tail(Follow2) = Follow3
  /\ Follow3 # <<>> /\ Head(Follow3) = "RefreshFollowers" /\ Tail(Follow3) = Follow4
  /\ Follow4 # <<>> /\ Head(Follow4) = "AutoAccept" /\ Tail(Follow4) = <<>>
  /\ InboxAccept # <<>> /\ Head(InboxAccept) = "IsBlocked" /\ Tail(InboxAccept) = Accept2
  /\ Accept2 # <<>> /\ Head(Accept2) = "GetFollowByTarget" /\ Tail(Accept2) = Accept3
  /\ Accept3 # <<>> /\ Head(Accept3) = "UpdateFollow" /\ Tail(Accept3) = <<>>
BY DEF FollowsCreate, Creating, Created, Asking, InboxFollow, Follow2, Follow3, Follow4, InboxAccept, Accept2, Accept3

LEMMA FollowingGoesOn ==
  ASSUME GraphInv, NEW a, NEW b, Pair(a, b), Following(a, b), Left(b, "api") = <<>>,
         NEW s \in Servers, NEW k \in Slots, Statement(s, k)
  PROVE  Following(a, b)' /\ Left(b, "api")' = <<>>
<1>s. a \in Servers /\ b \in Servers /\ "api" \in Slots /\ "inbox" \in Slots /\ Pair(b, a)
  BY DEF Pair, Slots
<1>w. \/ s = a /\ k = "api" /\ Left(a, "api") \in {FollowsCreate, Creating, Created, Asking}
      \/ s = b /\ k = "inbox" /\ Left(b, "inbox") \in {InboxFollow, Follow2, Follow3, Follow4}
      \/ s = a /\ k = "inbox" /\ Left(a, "inbox") \in {InboxAccept, Accept2, Accept3}
  BY StatementNames DEF Pair, Slots, Following, Left
<1>1. CASE s = a /\ k = "api" /\ Left(a, "api") = FollowsCreate
  <2>0. IsBlocked(a, "api")
    BY <1>s, <1>1, StatementNames, FollowLists DEF Left, Gets
  <2>l. Tail(Left(a, "api")) = Creating
    BY <1>1, FollowLists
  <2>1. \/ IsBlockedBy(a) /\ Effect(a, "api", follow[a], follower[a], blocked[a], jobs[a], <<>>)
        \/ ~IsBlockedBy(a) /\ Effect(a, "api", follow[a], follower[a], blocked[a], jobs[a], Creating)
    BY <1>s, <1>1, <2>0, <2>l, IsBlockedDoes
  <2>2. CASE IsBlockedBy(a) /\ Effect(a, "api", follow[a], follower[a], blocked[a], jobs[a], <<>>)
    <3>1. Changed(a, b, "api", "inbox", follow[a], follower[a], blocked[a], jobs[a], <<>>)
      BY <1>s, <2>2, EffectOn
    <3> QED
      BY <1>1, <2>2, <3>1, FollowLists, SMTT(60) DEF Changed, Following, Agree, Clean, IsBlockedBy, Out, Sends, Left, NoFollow, NoFollower
  <2>3. CASE ~IsBlockedBy(a) /\ Effect(a, "api", follow[a], follower[a], blocked[a], jobs[a], Creating)
    <3>1. Changed(a, b, "api", "inbox", follow[a], follower[a], blocked[a], jobs[a], Creating)
      BY <1>s, <2>3, EffectOn
    <3> QED
      BY <1>1, <2>3, <3>1, FollowLists, SMTT(60) DEF Changed, Following, Agree, Clean, IsBlockedBy, Out, Sends, Left, NoFollow, NoFollower
  <2> QED
    BY <2>1, <2>2, <2>3
<1>2. CASE s = a /\ k = "api" /\ Left(a, "api") = Creating
  <2>0. CreateFollow(a, "api")
    BY <1>s, <1>2, StatementNames, FollowLists DEF Left, Gets
  <2>l. Tail(Left(a, "api")) = Created
    BY <1>2, FollowLists
  <2>1. \/ follow[a] # NoFollow /\ Effect(a, "api", follow[a], follower[a], blocked[a], jobs[a], <<>>)
        \/ \E F : follow[a] = NoFollow /\ F # NoFollow /\ ~F.accepted /\ Effect(a, "api", F, follower[a], blocked[a], jobs[a], Created)
    BY <1>s, <1>2, <2>0, <2>l, CreateFollowDoes
  <2>2. CASE follow[a] # NoFollow /\ Effect(a, "api", follow[a], follower[a], blocked[a], jobs[a], <<>>)
    <3>1. Changed(a, b, "api", "inbox", follow[a], follower[a], blocked[a], jobs[a], <<>>)
      BY <1>s, <2>2, EffectOn
    <3> QED
      BY <1>2, <2>2, <3>1, FollowLists, SMTT(60) DEF Changed, Following, Agree, Clean, IsBlockedBy, Out, Sends, Left, NoFollow, NoFollower
  <2>3. ASSUME NEW F, follow[a] = NoFollow /\ F # NoFollow /\ ~F.accepted, Effect(a, "api", F, follower[a], blocked[a], jobs[a], Created)
        PROVE  Following(a, b)' /\ Left(b, "api")' = <<>>
    <3>1. Changed(a, b, "api", "inbox", F, follower[a], blocked[a], jobs[a], Created)
      BY <1>s, <2>3, EffectOn
    <3> QED
      BY <1>2, <2>3, <3>1, FollowLists, SMTT(60) DEF Changed, Following, Agree, Clean, IsBlockedBy, Out, Sends, Left, NoFollow, NoFollower
  <2> QED
    BY <2>1, <2>2, <2>3
<1>3. CASE s = a /\ k = "api" /\ Left(a, "api") = Created
  <2>0. RefreshFollowingCount(a, "api")
    BY <1>s, <1>3, StatementNames, FollowLists DEF Left, Gets
  <2>l. Tail(Left(a, "api")) = Asking
    BY <1>3, FollowLists
  <2>1. Effect(a, "api", follow[a], follower[a], blocked[a], jobs[a], Asking)
    BY <1>s, <1>3, <2>0, <2>l, RefreshDoes
  <2>2. Changed(a, b, "api", "inbox", follow[a], follower[a], blocked[a], jobs[a], Asking)
    BY <1>s, <2>1, EffectOn
  <2> QED
    BY <1>3, <2>1, <2>2, FollowLists, SMTT(60) DEF Changed, Following, Agree, Clean, IsBlockedBy, Out, Sends, Left, NoFollow, NoFollower
<1>4. CASE s = a /\ k = "api" /\ Left(a, "api") = Asking
  <2>0. Enqueue(a, "api", "SendFollow", "Follow", run[a]["api"].found)
    BY <1>s, <1>4, StatementNames, FollowLists DEF Left
  <2>p. \E j : j.type = "Follow" /\ Effect(a, "api", follow[a], follower[a], blocked[a], jobs[a] \cup {j}, Tail(Left(a, "api")))
    BY <1>s, <2>0, EnqueueDoes
  <2>l. Tail(Left(a, "api")) = <<>>
    BY <1>4, FollowLists
  <2>1. PICK j : j.type = "Follow" /\ Effect(a, "api", follow[a], follower[a], blocked[a], jobs[a] \cup {j}, <<>>)
    BY <2>l, <2>p
  <2>2. Changed(a, b, "api", "inbox", follow[a], follower[a], blocked[a], jobs[a] \cup {j}, <<>>)
    BY <1>s, <2>1, EffectOn
  <2> QED
    BY <1>4, <2>1, <2>2, FollowLists, SMTT(60) DEF Changed, Following, Agree, Clean, IsBlockedBy, Out, Sends, Left, NoFollow, NoFollower
<1>5. CASE s = b /\ k = "inbox" /\ Left(b, "inbox") = InboxFollow
  <2>0. IsBlocked(b, "inbox")
    BY <1>s, <1>5, StatementNames, FollowLists DEF Left, Gets
  <2>l. Tail(Left(b, "inbox")) = Follow2
    BY <1>5, FollowLists
  <2>1. \/ IsBlockedBy(b) /\ Effect(b, "inbox", follow[b], follower[b], blocked[b], jobs[b], <<>>)
        \/ ~IsBlockedBy(b) /\ Effect(b, "inbox", follow[b], follower[b], blocked[b], jobs[b], Follow2)
    BY <1>s, <1>5, <2>0, <2>l, IsBlockedDoes
  <2>2. CASE IsBlockedBy(b) /\ Effect(b, "inbox", follow[b], follower[b], blocked[b], jobs[b], <<>>)
    <3>1. Changed(b, a, "inbox", "api", follow[b], follower[b], blocked[b], jobs[b], <<>>)
      BY <1>s, <2>2, EffectOn
    <3> QED
      BY <1>5, <2>2, <3>1, FollowLists, SMTT(60) DEF Changed, Following, Agree, Clean, IsBlockedBy, Out, Sends, Left, NoFollow, NoFollower
  <2>3. CASE ~IsBlockedBy(b) /\ Effect(b, "inbox", follow[b], follower[b], blocked[b], jobs[b], Follow2)
    <3>1. Changed(b, a, "inbox", "api", follow[b], follower[b], blocked[b], jobs[b], Follow2)
      BY <1>s, <2>3, EffectOn
    <3> QED
      BY <1>5, <2>3, <3>1, FollowLists, SMTT(60) DEF Changed, Following, Agree, Clean, IsBlockedBy, Out, Sends, Left, NoFollow, NoFollower
  <2> QED
    BY <2>1, <2>2, <2>3
<1>6. CASE s = b /\ k = "inbox" /\ Left(b, "inbox") = Follow2
  <2>0. CreateFollower(b, "inbox")
    BY <1>s, <1>6, StatementNames, FollowLists DEF Left, Gets
  <2>l. Tail(Left(b, "inbox")) = Follow3
    BY <1>6, FollowLists
  <2>1. \/ follower[b] # NoFollower /\ Effect(b, "inbox", follow[b], follower[b], blocked[b], jobs[b], <<>>)
        \/ \E W : follower[b] = NoFollower /\ W.state = (IF locked[b] THEN "pending" ELSE "approved") /\ Effect(b, "inbox", follow[b], W, blocked[b], jobs[b], Follow3)
    BY <1>s, <1>6, <2>0, <2>l, CreateFollowerDoes
  <2>2. CASE follower[b] # NoFollower /\ Effect(b, "inbox", follow[b], follower[b], blocked[b], jobs[b], <<>>)
    <3>1. Changed(b, a, "inbox", "api", follow[b], follower[b], blocked[b], jobs[b], <<>>)
      BY <1>s, <2>2, EffectOn
    <3> QED
      BY <1>6, <2>2, <3>1, FollowLists, SMTT(60) DEF Changed, Following, Agree, Clean, IsBlockedBy, Out, Sends, Left, NoFollow, NoFollower
  <2>3. ASSUME NEW W, follower[b] = NoFollower /\ W.state = (IF locked[b] THEN "pending" ELSE "approved"), Effect(b, "inbox", follow[b], W, blocked[b], jobs[b], Follow3)
        PROVE  Following(a, b)' /\ Left(b, "api")' = <<>>
    <3>1. Changed(b, a, "inbox", "api", follow[b], W, blocked[b], jobs[b], Follow3)
      BY <1>s, <2>3, EffectOn
    <3> QED
      BY <1>6, <2>3, <3>1, FollowLists, SMTT(60) DEF Changed, Following, Agree, Clean, IsBlockedBy, Out, Sends, Left, NoFollow, NoFollower
  <2> QED
    BY <2>1, <2>2, <2>3
<1>7. CASE s = b /\ k = "inbox" /\ Left(b, "inbox") = Follow3
  <2>0. RefreshFollowersCount(b, "inbox")
    BY <1>s, <1>7, StatementNames, FollowLists DEF Left, Gets
  <2>l. Tail(Left(b, "inbox")) = Follow4
    BY <1>7, FollowLists
  <2>1. Effect(b, "inbox", follow[b], follower[b], blocked[b], jobs[b], Follow4)
    BY <1>s, <1>7, <2>0, <2>l, RefreshDoes
  <2>2. Changed(b, a, "inbox", "api", follow[b], follower[b], blocked[b], jobs[b], Follow4)
    BY <1>s, <2>1, EffectOn
  <2> QED
    BY <1>7, <2>1, <2>2, FollowLists, SMTT(60) DEF Changed, Following, Agree, Clean, IsBlockedBy, Out, Sends, Left, NoFollow, NoFollower
<1>8. CASE s = b /\ k = "inbox" /\ Left(b, "inbox") = Follow4
  <2>0. AutoAccept(b, "inbox")
    BY <1>s, <1>8, StatementNames, FollowLists DEF Left, Gets
  <2>l. Tail(Left(b, "inbox")) = <<>>
    BY <1>8, FollowLists
  <2>1. \/ locked[b] /\ Effect(b, "inbox", follow[b], follower[b], blocked[b], jobs[b], <<>>)
        \/ \E j : ~locked[b] /\ j.type = "Accept" /\ Effect(b, "inbox", follow[b], follower[b], blocked[b], jobs[b] \cup {j}, <<>>)
    BY <1>s, <1>8, <2>0, <2>l, AutoAcceptDoes
  <2>2. CASE locked[b] /\ Effect(b, "inbox", follow[b], follower[b], blocked[b], jobs[b], <<>>)
    <3>1. Changed(b, a, "inbox", "api", follow[b], follower[b], blocked[b], jobs[b], <<>>)
      BY <1>s, <2>2, EffectOn
    <3> QED
      BY <1>8, <2>2, <3>1, FollowLists, SMTT(60) DEF Changed, Following, Agree, Clean, IsBlockedBy, Out, Sends, Left, NoFollow, NoFollower
  <2>3. ASSUME NEW j, ~locked[b] /\ j.type = "Accept", Effect(b, "inbox", follow[b], follower[b], blocked[b], jobs[b] \cup {j}, <<>>)
        PROVE  Following(a, b)' /\ Left(b, "api")' = <<>>
    <3>1. Changed(b, a, "inbox", "api", follow[b], follower[b], blocked[b], jobs[b] \cup {j}, <<>>)
      BY <1>s, <2>3, EffectOn
    <3> QED
      BY <1>8, <2>3, <3>1, FollowLists, SMTT(60) DEF Changed, Following, Agree, Clean, IsBlockedBy, Out, Sends, Left, NoFollow, NoFollower
  <2> QED
    BY <2>1, <2>2, <2>3
<1>9. CASE s = a /\ k = "inbox" /\ Left(a, "inbox") = InboxAccept
  <2>0. IsBlocked(a, "inbox")
    BY <1>s, <1>9, StatementNames, FollowLists DEF Left, Gets
  <2>l. Tail(Left(a, "inbox")) = Accept2
    BY <1>9, FollowLists
  <2>n. ~IsBlockedBy(a)
    BY <1>9, FollowLists DEF Following, Clean, Agree, IsBlockedBy, Left, NoFollow, NoFollower
  <2>1. Effect(a, "inbox", follow[a], follower[a], blocked[a], jobs[a], Accept2)
    BY <1>s, <1>9, <2>0, <2>n, <2>l, IsBlockedDoes
  <2>2. Changed(a, b, "inbox", "api", follow[a], follower[a], blocked[a], jobs[a], Accept2)
    BY <1>s, <2>1, EffectOn
  <2> QED
    BY <1>9, <2>1, <2>2, FollowLists, SMTT(60) DEF Changed, Following, Agree, Clean, IsBlockedBy, Out, Sends, Left, NoFollow, NoFollower
<1>10. CASE s = a /\ k = "inbox" /\ Left(a, "inbox") = Accept2
  <2>0. GetFollowByTarget(a, "inbox")
    BY <1>s, <1>10, StatementNames, FollowLists DEF Left, Gets
  <2>l. Tail(Left(a, "inbox")) = Accept3 /\ Accept3 # <<>>
    BY <1>10, FollowLists
  <2>n. follow[a] # NoFollow
    BY <1>10, FollowLists DEF Following, Clean, Agree, IsBlockedBy, Left, NoFollow, NoFollower
  <2>1. run'[a]["inbox"].found = follow[a].id /\ Effect(a, "inbox", follow[a], follower[a], blocked[a], jobs[a], Accept3)
    BY <1>s, <1>10, <2>0, <2>n, <2>l, GetFollowByTargetDoes
  <2>2. Changed(a, b, "inbox", "api", follow[a], follower[a], blocked[a], jobs[a], Accept3)
    BY <1>s, <2>1, EffectOn
  <2> QED
    BY <1>10, <2>1, <2>2, FollowLists, SMTT(60) DEF Changed, Following, Agree, Clean, IsBlockedBy, Out, Sends, Left, NoFollow, NoFollower
<1>11. CASE s = a /\ k = "inbox" /\ Left(a, "inbox") = Accept3
  <2>0. UpdateFollow(a, "inbox")
    BY <1>s, <1>11, StatementNames, FollowLists DEF Left, Gets
  <2>l. Tail(Left(a, "inbox")) = <<>>
    BY <1>11, FollowLists
  <2>n. run[a]["inbox"].found = follow[a].id
    BY <1>11, FollowLists DEF Following, Clean, Agree, IsBlockedBy, Left, NoFollow, NoFollower
  <2>1. PICK F : F.accepted /\ Effect(a, "inbox", F, follower[a], blocked[a], jobs[a], <<>>)
    BY <1>s, <1>11, <2>0, <2>n, <2>l, UpdateFollowDoes
  <2>2. Changed(a, b, "inbox", "api", F, follower[a], blocked[a], jobs[a], <<>>)
    BY <1>s, <2>1, EffectOn
  <2> QED
    BY <1>11, <2>1, <2>2, FollowLists, SMTT(60) DEF Changed, Following, Agree, Clean, IsBlockedBy, Out, Sends, Left, NoFollow, NoFollower
<1> QED
  BY <1>w, <1>1, <1>2, <1>3, <1>4, <1>5, <1>6, <1>7, <1>8, <1>9, <1>10, <1>11

LEMMA UndoLists ==
  /\ FollowsDelete # <<>> /\ Head(FollowsDelete) = "GetFollow" /\ Tail(FollowsDelete) = Dropping
  /\ Dropping # <<>> /\ Head(Dropping) = "DeleteFollow" /\ Tail(Dropping) = Dropped
  /\ Dropped # <<>> /\ Head(Dropped) = "RefreshFollowing" /\ Tail(Dropped) = Undoing
  /\ Undoing # <<>> /\ Head(Undoing) = "SendUndoFollow" /\ Tail(Undoing) = <<>>
  /\ InboxUndo # <<>> /\ Head(InboxUndo) = "DeleteFollowerByActor" /\ Tail(InboxUndo) = Undo2
  /\ Undo2 # <<>> /\ Head(Undo2) = "RefreshFollowers" /\ Tail(Undo2) = <<>>
  /\ Len(Dropping) = 3
BY DEF FollowsDelete, Dropping, Dropped, Undoing, InboxUndo, Undo2

LEMMA UnfollowingGoesOn ==
  ASSUME GraphInv, NEW a, NEW b, Pair(a, b), Unfollowing(a, b), Left(b, "api") = <<>>,
         NEW s \in Servers, NEW k \in Slots, Statement(s, k)
  PROVE  Unfollowing(a, b)' /\ Left(b, "api")' = <<>>
<1>s. a \in Servers /\ b \in Servers /\ "api" \in Slots /\ "inbox" \in Slots /\ Pair(b, a)
  BY DEF Pair, Slots
<1>w. \/ s = a /\ k = "api" /\ Left(a, "api") \in {FollowsDelete, Dropping, Dropped, Undoing}
      \/ s = b /\ k = "inbox" /\ Left(b, "inbox") \in {InboxUndo, Undo2}
  BY StatementNames DEF Pair, Slots, Unfollowing, Left
<1>1. CASE s = a /\ k = "api" /\ Left(a, "api") = FollowsDelete
  <2>0. GetFollowByTarget(a, "api")
    BY <1>s, <1>1, StatementNames, UndoLists DEF Left, Gets
  <2>l. Tail(Left(a, "api")) = Dropping /\ Dropping # <<>>
    BY <1>1, UndoLists
  <2>n. follow[a] # NoFollow
    BY <1>1, UndoLists DEF Unfollowing, Clean, Agree, IsBlockedBy, Left, NoFollow, NoFollower
  <2>1. run'[a]["api"].found = follow[a].id /\ Effect(a, "api", follow[a], follower[a], blocked[a], jobs[a], Dropping)
    BY <1>s, <1>1, <2>0, <2>n, <2>l, GetFollowByTargetDoes
  <2>2. Changed(a, b, "api", "inbox", follow[a], follower[a], blocked[a], jobs[a], Dropping)
    BY <1>s, <2>1, EffectOn
  <2> QED
    BY <1>1, <2>1, <2>2, UndoLists, SMTT(60) DEF Changed, Unfollowing, Agree, Clean, IsBlockedBy, Out, Sends, Left, NoFollow, NoFollower
<1>2. CASE s = a /\ k = "api" /\ Left(a, "api") = Dropping
  <2>0. DeleteFollow(a, "api")
    BY <1>s, <1>2, StatementNames, UndoLists DEF Left, Gets
  <2>l. Tail(Left(a, "api")) = Dropped /\ Tail(Dropped) = Undoing /\ Len(Dropping) = 3
    BY <1>2, UndoLists
  <2>n. follow[a] # NoFollow /\ run[a]["api"].found = follow[a].id
    BY <1>2, UndoLists DEF Unfollowing, Clean, Agree, IsBlockedBy, Left, NoFollow, NoFollower
  <2>1. Effect(a, "api", NoFollow, follower[a], blocked[a], jobs[a], Dropped)
    BY <1>s, <1>2, <2>0, <2>n, <2>l, DeleteFollowDoes
  <2>2. Changed(a, b, "api", "inbox", NoFollow, follower[a], blocked[a], jobs[a], Dropped)
    BY <1>s, <2>1, EffectOn
  <2> QED
    BY <1>2, <2>1, <2>2, UndoLists, SMTT(60) DEF Changed, Unfollowing, Agree, Clean, IsBlockedBy, Out, Sends, Left, NoFollow, NoFollower
<1>3. CASE s = a /\ k = "api" /\ Left(a, "api") = Dropped
  <2>0. RefreshFollowingCount(a, "api")
    BY <1>s, <1>3, StatementNames, UndoLists DEF Left, Gets
  <2>l. Tail(Left(a, "api")) = Undoing
    BY <1>3, UndoLists
  <2>1. Effect(a, "api", follow[a], follower[a], blocked[a], jobs[a], Undoing)
    BY <1>s, <1>3, <2>0, <2>l, RefreshDoes
  <2>2. Changed(a, b, "api", "inbox", follow[a], follower[a], blocked[a], jobs[a], Undoing)
    BY <1>s, <2>1, EffectOn
  <2> QED
    BY <1>3, <2>1, <2>2, UndoLists, SMTT(60) DEF Changed, Unfollowing, Agree, Clean, IsBlockedBy, Out, Sends, Left, NoFollow, NoFollower
<1>4. CASE s = a /\ k = "api" /\ Left(a, "api") = Undoing
  <2>0. Enqueue(a, "api", "SendUndoFollow", "Undo", run[a]["api"].found)
    BY <1>s, <1>4, StatementNames, UndoLists DEF Left
  <2>p. \E j : j.type = "Undo" /\ Effect(a, "api", follow[a], follower[a], blocked[a], jobs[a] \cup {j}, Tail(Left(a, "api")))
    BY <1>s, <2>0, EnqueueDoes
  <2>l. Tail(Left(a, "api")) = <<>>
    BY <1>4, UndoLists
  <2>1. PICK j : j.type = "Undo" /\ Effect(a, "api", follow[a], follower[a], blocked[a], jobs[a] \cup {j}, <<>>)
    BY <2>l, <2>p
  <2>2. Changed(a, b, "api", "inbox", follow[a], follower[a], blocked[a], jobs[a] \cup {j}, <<>>)
    BY <1>s, <2>1, EffectOn
  <2> QED
    BY <1>4, <2>1, <2>2, UndoLists, SMTT(60) DEF Changed, Unfollowing, Agree, Clean, IsBlockedBy, Out, Sends, Left, NoFollow, NoFollower
<1>5. CASE s = b /\ k = "inbox" /\ Left(b, "inbox") = InboxUndo
  <2>0. DeleteFollowerByActorURI(b, "inbox")
    BY <1>s, <1>5, StatementNames, UndoLists DEF Left, Gets
  <2>l. Tail(Left(b, "inbox")) = Undo2
    BY <1>5, UndoLists
  <2>1. Effect(b, "inbox", follow[b], NoFollower, blocked[b], jobs[b], Undo2)
    BY <1>s, <1>5, <2>0, <2>l, DeleteFollowerByActorDoes
  <2>2. Changed(b, a, "inbox", "api", follow[b], NoFollower, blocked[b], jobs[b], Undo2)
    BY <1>s, <2>1, EffectOn
  <2> QED
    BY <1>5, <2>1, <2>2, UndoLists, SMTT(60) DEF Changed, Unfollowing, Agree, Clean, IsBlockedBy, Out, Sends, Left, NoFollow, NoFollower
<1>6. CASE s = b /\ k = "inbox" /\ Left(b, "inbox") = Undo2
  <2>0. RefreshFollowersCount(b, "inbox")
    BY <1>s, <1>6, StatementNames, UndoLists DEF Left, Gets
  <2>l. Tail(Left(b, "inbox")) = <<>>
    BY <1>6, UndoLists
  <2>1. Effect(b, "inbox", follow[b], follower[b], blocked[b], jobs[b], <<>>)
    BY <1>s, <1>6, <2>0, <2>l, RefreshDoes
  <2>2. Changed(b, a, "inbox", "api", follow[b], follower[b], blocked[b], jobs[b], <<>>)
    BY <1>s, <2>1, EffectOn
  <2> QED
    BY <1>6, <2>1, <2>2, UndoLists, SMTT(60) DEF Changed, Unfollowing, Agree, Clean, IsBlockedBy, Out, Sends, Left, NoFollow, NoFollower
<1> QED
  BY <1>w, <1>1, <1>2, <1>3, <1>4, <1>5, <1>6

LEMMA ApproveLists ==
  /\ FollowersApprove # <<>> /\ Head(FollowersApprove) = "GetFollower" /\ Tail(FollowersApprove) = Approval
  /\ Approval # <<>> /\ Head(Approval) = "ApproveFollower" /\ Tail(Approval) = Approved
  /\ Approved # <<>> /\ Head(Approved) = "RefreshFollowers" /\ Tail(Approved) = Accepting
  /\ Accepting # <<>> /\ Head(Accepting) = "SendAccept" /\ Tail(Accepting) = <<>>
  /\ InboxAccept # <<>> /\ Head(InboxAccept) = "IsBlocked" /\ Tail(InboxAccept) = Accept2
  /\ Accept2 # <<>> /\ Head(Accept2) = "GetFollowByTarget" /\ Tail(Accept2) = Accept3
  /\ Accept3 # <<>> /\ Head(Accept3) = "UpdateFollow" /\ Tail(Accept3) = <<>>
BY DEF FollowersApprove, Approval, Approved, Accepting, InboxAccept, Accept2, Accept3

LEMMA ApprovingGoesOn ==
  ASSUME GraphInv, NEW a, NEW b, Pair(a, b), Approving(a, b), Left(b, "api") = <<>>,
         NEW s \in Servers, NEW k \in Slots, Statement(s, k)
  PROVE  Approving(a, b)' /\ Left(b, "api")' = <<>>
<1>s. a \in Servers /\ b \in Servers /\ "api" \in Slots /\ "inbox" \in Slots /\ Pair(b, a)
  BY DEF Pair, Slots
<1>w. \/ s = a /\ k = "api" /\ Left(a, "api") \in {FollowersApprove, Approval, Approved, Accepting}
      \/ s = b /\ k = "inbox" /\ Left(b, "inbox") \in {InboxAccept, Accept2, Accept3}
  BY StatementNames DEF Pair, Slots, Approving, Left
<1>1. CASE s = a /\ k = "api" /\ Left(a, "api") = FollowersApprove
  <2>0. GetFollower(a, "api")
    BY <1>s, <1>1, StatementNames, ApproveLists DEF Left, Gets
  <2>l. Tail(Left(a, "api")) = Approval /\ Approval # <<>>
    BY <1>1, ApproveLists
  <2>n. run[a]["api"].of = follower[a].of
    BY <1>1, ApproveLists DEF Approving, Clean, Agree, IsBlockedBy, Left, NoFollow, NoFollower
  <2>1. run'[a]["api"].of = run[a]["api"].of /\ Effect(a, "api", follow[a], follower[a], blocked[a], jobs[a], Approval)
    BY <1>s, <1>1, <2>0, <2>n, <2>l, GetFollowerDoes
  <2>2. Changed(a, b, "api", "inbox", follow[a], follower[a], blocked[a], jobs[a], Approval)
    BY <1>s, <2>1, EffectOn
  <2> QED
    BY <1>1, <2>1, <2>2, ApproveLists, SMTT(60) DEF Changed, Approving, Agree, Clean, IsBlockedBy, Out, Sends, Left, NoFollow, NoFollower
<1>2. CASE s = a /\ k = "api" /\ Left(a, "api") = Approval
  <2>0. ApproveFollower(a, "api")
    BY <1>s, <1>2, StatementNames, ApproveLists DEF Left, Gets
  <2>l. Tail(Left(a, "api")) = Approved
    BY <1>2, ApproveLists
  <2>n. run[a]["api"].of = follower[a].of
    BY <1>2, ApproveLists DEF Approving, Clean, Agree, IsBlockedBy, Left, NoFollow, NoFollower
  <2>1. PICK W : W.state = "approved" /\ Effect(a, "api", follow[a], W, blocked[a], jobs[a], Approved)
    BY <1>s, <1>2, <2>0, <2>n, <2>l, ApproveFollowerDoes
  <2>2. Changed(a, b, "api", "inbox", follow[a], W, blocked[a], jobs[a], Approved)
    BY <1>s, <2>1, EffectOn
  <2> QED
    BY <1>2, <2>1, <2>2, ApproveLists, SMTT(60) DEF Changed, Approving, Agree, Clean, IsBlockedBy, Out, Sends, Left, NoFollow, NoFollower
<1>3. CASE s = a /\ k = "api" /\ Left(a, "api") = Approved
  <2>0. RefreshFollowersCount(a, "api")
    BY <1>s, <1>3, StatementNames, ApproveLists DEF Left, Gets
  <2>l. Tail(Left(a, "api")) = Accepting
    BY <1>3, ApproveLists
  <2>1. Effect(a, "api", follow[a], follower[a], blocked[a], jobs[a], Accepting)
    BY <1>s, <1>3, <2>0, <2>l, RefreshDoes
  <2>2. Changed(a, b, "api", "inbox", follow[a], follower[a], blocked[a], jobs[a], Accepting)
    BY <1>s, <2>1, EffectOn
  <2> QED
    BY <1>3, <2>1, <2>2, ApproveLists, SMTT(60) DEF Changed, Approving, Agree, Clean, IsBlockedBy, Out, Sends, Left, NoFollow, NoFollower
<1>4. CASE s = a /\ k = "api" /\ Left(a, "api") = Accepting
  <2>0. Enqueue(a, "api", "SendAccept", "Accept", run[a]["api"].of)
    BY <1>s, <1>4, StatementNames, ApproveLists DEF Left
  <2>p. \E j : j.type = "Accept" /\ Effect(a, "api", follow[a], follower[a], blocked[a], jobs[a] \cup {j}, Tail(Left(a, "api")))
    BY <1>s, <2>0, EnqueueDoes
  <2>l. Tail(Left(a, "api")) = <<>>
    BY <1>4, ApproveLists
  <2>1. PICK j : j.type = "Accept" /\ Effect(a, "api", follow[a], follower[a], blocked[a], jobs[a] \cup {j}, <<>>)
    BY <2>l, <2>p
  <2>2. Changed(a, b, "api", "inbox", follow[a], follower[a], blocked[a], jobs[a] \cup {j}, <<>>)
    BY <1>s, <2>1, EffectOn
  <2> QED
    BY <1>4, <2>1, <2>2, ApproveLists, SMTT(60) DEF Changed, Approving, Agree, Clean, IsBlockedBy, Out, Sends, Left, NoFollow, NoFollower
<1>5. CASE s = b /\ k = "inbox" /\ Left(b, "inbox") = InboxAccept
  <2>0. IsBlocked(b, "inbox")
    BY <1>s, <1>5, StatementNames, ApproveLists DEF Left, Gets
  <2>l. Tail(Left(b, "inbox")) = Accept2
    BY <1>5, ApproveLists
  <2>n. ~IsBlockedBy(b)
    BY <1>5, ApproveLists DEF Approving, Clean, Agree, IsBlockedBy, Left, NoFollow, NoFollower
  <2>1. Effect(b, "inbox", follow[b], follower[b], blocked[b], jobs[b], Accept2)
    BY <1>s, <1>5, <2>0, <2>n, <2>l, IsBlockedDoes
  <2>2. Changed(b, a, "inbox", "api", follow[b], follower[b], blocked[b], jobs[b], Accept2)
    BY <1>s, <2>1, EffectOn
  <2> QED
    BY <1>5, <2>1, <2>2, ApproveLists, SMTT(60) DEF Changed, Approving, Agree, Clean, IsBlockedBy, Out, Sends, Left, NoFollow, NoFollower
<1>6. CASE s = b /\ k = "inbox" /\ Left(b, "inbox") = Accept2
  <2>0. GetFollowByTarget(b, "inbox")
    BY <1>s, <1>6, StatementNames, ApproveLists DEF Left, Gets
  <2>l. Tail(Left(b, "inbox")) = Accept3 /\ Accept3 # <<>>
    BY <1>6, ApproveLists
  <2>n. follow[b] # NoFollow
    BY <1>6, ApproveLists DEF Approving, Clean, Agree, IsBlockedBy, Left, NoFollow, NoFollower
  <2>1. run'[b]["inbox"].found = follow[b].id /\ Effect(b, "inbox", follow[b], follower[b], blocked[b], jobs[b], Accept3)
    BY <1>s, <1>6, <2>0, <2>n, <2>l, GetFollowByTargetDoes
  <2>2. Changed(b, a, "inbox", "api", follow[b], follower[b], blocked[b], jobs[b], Accept3)
    BY <1>s, <2>1, EffectOn
  <2> QED
    BY <1>6, <2>1, <2>2, ApproveLists, SMTT(60) DEF Changed, Approving, Agree, Clean, IsBlockedBy, Out, Sends, Left, NoFollow, NoFollower
<1>7. CASE s = b /\ k = "inbox" /\ Left(b, "inbox") = Accept3
  <2>0. UpdateFollow(b, "inbox")
    BY <1>s, <1>7, StatementNames, ApproveLists DEF Left, Gets
  <2>l. Tail(Left(b, "inbox")) = <<>>
    BY <1>7, ApproveLists
  <2>n. run[b]["inbox"].found = follow[b].id
    BY <1>7, ApproveLists DEF Approving, Clean, Agree, IsBlockedBy, Left, NoFollow, NoFollower
  <2>1. PICK F : F.accepted /\ Effect(b, "inbox", F, follower[b], blocked[b], jobs[b], <<>>)
    BY <1>s, <1>7, <2>0, <2>n, <2>l, UpdateFollowDoes
  <2>2. Changed(b, a, "inbox", "api", F, follower[b], blocked[b], jobs[b], <<>>)
    BY <1>s, <2>1, EffectOn
  <2> QED
    BY <1>7, <2>1, <2>2, ApproveLists, SMTT(60) DEF Changed, Approving, Agree, Clean, IsBlockedBy, Out, Sends, Left, NoFollow, NoFollower
<1> QED
  BY <1>w, <1>1, <1>2, <1>3, <1>4, <1>5, <1>6, <1>7

LEMMA RejectLists ==
  /\ FollowersReject # <<>> /\ Head(FollowersReject) = "GetFollower" /\ Tail(FollowersReject) = Rejection
  /\ Rejection # <<>> /\ Head(Rejection) = "DeleteFollower" /\ Tail(Rejection) = Rejected
  /\ Rejected # <<>> /\ Head(Rejected) = "RefreshFollowers" /\ Tail(Rejected) = Refusing
  /\ Refusing # <<>> /\ Head(Refusing) = "SendReject" /\ Tail(Refusing) = <<>>
  /\ InboxReject # <<>> /\ Head(InboxReject) = "IsBlocked" /\ Tail(InboxReject) = Reject2
  /\ Reject2 # <<>> /\ Head(Reject2) = "GetFollowByTarget" /\ Tail(Reject2) = Reject3
  /\ Reject3 # <<>> /\ Head(Reject3) = "DeleteFollow" /\ Tail(Reject3) = Reject4
  /\ Reject4 # <<>> /\ Head(Reject4) = "RefreshFollowing" /\ Tail(Reject4) = <<>>
  /\ Len(Reject3) = 2
BY DEF FollowersReject, Rejection, Rejected, Refusing, InboxReject, Reject2, Reject3, Reject4

LEMMA RejectingGoesOn ==
  ASSUME GraphInv, NEW a, NEW b, Pair(a, b), Rejecting(a, b), Left(b, "api") = <<>>,
         NEW s \in Servers, NEW k \in Slots, Statement(s, k)
  PROVE  Rejecting(a, b)' /\ Left(b, "api")' = <<>>
<1>s. a \in Servers /\ b \in Servers /\ "api" \in Slots /\ "inbox" \in Slots /\ Pair(b, a)
  BY DEF Pair, Slots
<1>w. \/ s = a /\ k = "api" /\ Left(a, "api") \in {FollowersReject, Rejection, Rejected, Refusing}
      \/ s = b /\ k = "inbox" /\ Left(b, "inbox") \in {InboxReject, Reject2, Reject3, Reject4}
  BY StatementNames DEF Pair, Slots, Rejecting, Left
<1>1. CASE s = a /\ k = "api" /\ Left(a, "api") = FollowersReject
  <2>0. GetFollower(a, "api")
    BY <1>s, <1>1, StatementNames, RejectLists DEF Left, Gets
  <2>l. Tail(Left(a, "api")) = Rejection /\ Rejection # <<>>
    BY <1>1, RejectLists
  <2>n. run[a]["api"].of = follower[a].of
    BY <1>1, RejectLists DEF Rejecting, Clean, Agree, IsBlockedBy, Left, NoFollow, NoFollower
  <2>1. run'[a]["api"].of = run[a]["api"].of /\ Effect(a, "api", follow[a], follower[a], blocked[a], jobs[a], Rejection)
    BY <1>s, <1>1, <2>0, <2>n, <2>l, GetFollowerDoes
  <2>2. Changed(a, b, "api", "inbox", follow[a], follower[a], blocked[a], jobs[a], Rejection)
    BY <1>s, <2>1, EffectOn
  <2> QED
    BY <1>1, <2>1, <2>2, RejectLists, SMTT(60) DEF Changed, Rejecting, Agree, Clean, IsBlockedBy, Out, Sends, Left, NoFollow, NoFollower
<1>2. CASE s = a /\ k = "api" /\ Left(a, "api") = Rejection
  <2>0. DeleteFollower(a, "api")
    BY <1>s, <1>2, StatementNames, RejectLists DEF Left, Gets
  <2>l. Tail(Left(a, "api")) = Rejected
    BY <1>2, RejectLists
  <2>n. run[a]["api"].of = follower[a].of
    BY <1>2, RejectLists DEF Rejecting, Clean, Agree, IsBlockedBy, Left, NoFollow, NoFollower
  <2>1. Effect(a, "api", follow[a], NoFollower, blocked[a], jobs[a], Rejected)
    BY <1>s, <1>2, <2>0, <2>n, <2>l, DeleteFollowerDoes
  <2>2. Changed(a, b, "api", "inbox", follow[a], NoFollower, blocked[a], jobs[a], Rejected)
    BY <1>s, <2>1, EffectOn
  <2> QED
    BY <1>2, <2>1, <2>2, RejectLists, SMTT(60) DEF Changed, Rejecting, Agree, Clean, IsBlockedBy, Out, Sends, Left, NoFollow, NoFollower
<1>3. CASE s = a /\ k = "api" /\ Left(a, "api") = Rejected
  <2>0. RefreshFollowersCount(a, "api")
    BY <1>s, <1>3, StatementNames, RejectLists DEF Left, Gets
  <2>l. Tail(Left(a, "api")) = Refusing
    BY <1>3, RejectLists
  <2>1. Effect(a, "api", follow[a], follower[a], blocked[a], jobs[a], Refusing)
    BY <1>s, <1>3, <2>0, <2>l, RefreshDoes
  <2>2. Changed(a, b, "api", "inbox", follow[a], follower[a], blocked[a], jobs[a], Refusing)
    BY <1>s, <2>1, EffectOn
  <2> QED
    BY <1>3, <2>1, <2>2, RejectLists, SMTT(60) DEF Changed, Rejecting, Agree, Clean, IsBlockedBy, Out, Sends, Left, NoFollow, NoFollower
<1>4. CASE s = a /\ k = "api" /\ Left(a, "api") = Refusing
  <2>0. Enqueue(a, "api", "SendReject", "Reject", run[a]["api"].of)
    BY <1>s, <1>4, StatementNames, RejectLists DEF Left
  <2>p. \E j : j.type = "Reject" /\ Effect(a, "api", follow[a], follower[a], blocked[a], jobs[a] \cup {j}, Tail(Left(a, "api")))
    BY <1>s, <2>0, EnqueueDoes
  <2>l. Tail(Left(a, "api")) = <<>>
    BY <1>4, RejectLists
  <2>1. PICK j : j.type = "Reject" /\ Effect(a, "api", follow[a], follower[a], blocked[a], jobs[a] \cup {j}, <<>>)
    BY <2>l, <2>p
  <2>2. Changed(a, b, "api", "inbox", follow[a], follower[a], blocked[a], jobs[a] \cup {j}, <<>>)
    BY <1>s, <2>1, EffectOn
  <2> QED
    BY <1>4, <2>1, <2>2, RejectLists, SMTT(60) DEF Changed, Rejecting, Agree, Clean, IsBlockedBy, Out, Sends, Left, NoFollow, NoFollower
<1>5. CASE s = b /\ k = "inbox" /\ Left(b, "inbox") = InboxReject
  <2>0. IsBlocked(b, "inbox")
    BY <1>s, <1>5, StatementNames, RejectLists DEF Left, Gets
  <2>l. Tail(Left(b, "inbox")) = Reject2
    BY <1>5, RejectLists
  <2>1. \/ Effect(b, "inbox", follow[b], follower[b], blocked[b], jobs[b], <<>>)
        \/ Effect(b, "inbox", follow[b], follower[b], blocked[b], jobs[b], Reject2)
    BY <1>s, <1>5, <2>0, <2>l, IsBlockedDoes
  <2>2. CASE Effect(b, "inbox", follow[b], follower[b], blocked[b], jobs[b], <<>>)
    <3>1. Changed(b, a, "inbox", "api", follow[b], follower[b], blocked[b], jobs[b], <<>>)
      BY <1>s, <2>2, EffectOn
    <3> QED
      BY <1>5, <2>2, <3>1, RejectLists, SMTT(60) DEF Changed, Rejecting, Agree, Clean, IsBlockedBy, Out, Sends, Left, NoFollow, NoFollower
  <2>3. CASE Effect(b, "inbox", follow[b], follower[b], blocked[b], jobs[b], Reject2)
    <3>1. Changed(b, a, "inbox", "api", follow[b], follower[b], blocked[b], jobs[b], Reject2)
      BY <1>s, <2>3, EffectOn
    <3> QED
      BY <1>5, <2>3, <3>1, RejectLists, SMTT(60) DEF Changed, Rejecting, Agree, Clean, IsBlockedBy, Out, Sends, Left, NoFollow, NoFollower
  <2> QED
    BY <2>1, <2>2, <2>3
<1>6. CASE s = b /\ k = "inbox" /\ Left(b, "inbox") = Reject2
  <2>0. GetFollowByTarget(b, "inbox")
    BY <1>s, <1>6, StatementNames, RejectLists DEF Left, Gets
  <2>l. Tail(Left(b, "inbox")) = Reject3 /\ Reject3 # <<>>
    BY <1>6, RejectLists
  <2>1. \/ Effect(b, "inbox", follow[b], follower[b], blocked[b], jobs[b], <<>>)
        \/ Effect(b, "inbox", follow[b], follower[b], blocked[b], jobs[b], Reject3)
    BY <1>s, <1>6, <2>0, <2>l, GetFollowByTargetDoes
  <2>2. CASE Effect(b, "inbox", follow[b], follower[b], blocked[b], jobs[b], <<>>)
    <3>1. Changed(b, a, "inbox", "api", follow[b], follower[b], blocked[b], jobs[b], <<>>)
      BY <1>s, <2>2, EffectOn
    <3> QED
      BY <1>6, <2>2, <3>1, RejectLists, SMTT(60) DEF Changed, Rejecting, Agree, Clean, IsBlockedBy, Out, Sends, Left, NoFollow, NoFollower
  <2>3. CASE Effect(b, "inbox", follow[b], follower[b], blocked[b], jobs[b], Reject3)
    <3>1. Changed(b, a, "inbox", "api", follow[b], follower[b], blocked[b], jobs[b], Reject3)
      BY <1>s, <2>3, EffectOn
    <3> QED
      BY <1>6, <2>3, <3>1, RejectLists, SMTT(60) DEF Changed, Rejecting, Agree, Clean, IsBlockedBy, Out, Sends, Left, NoFollow, NoFollower
  <2> QED
    BY <2>1, <2>2, <2>3
<1>7. CASE s = b /\ k = "inbox" /\ Left(b, "inbox") = Reject3
  <2>0. DeleteFollow(b, "inbox")
    BY <1>s, <1>7, StatementNames, RejectLists DEF Left, Gets
  <2>l. Tail(Left(b, "inbox")) = Reject4 /\ Tail(Reject4) = <<>> /\ Len(Reject3) = 2
    BY <1>7, RejectLists
  <2>1. PICK F, n : F \in {NoFollow, follow[b]} /\ n \in {<<>>, Reject4} /\ Effect(b, "inbox", F, follower[b], blocked[b], jobs[b], n)
    BY <1>s, <1>7, <2>0, <2>l, DeleteFollowMay
  <2>2. Changed(b, a, "inbox", "api", F, follower[b], blocked[b], jobs[b], n)
    BY <1>s, <2>1, EffectOn
  <2> QED
    BY <1>7, <2>1, <2>2, RejectLists, SMTT(60) DEF Changed, Rejecting, Agree, Clean, IsBlockedBy, Out, Sends, Left, NoFollow, NoFollower
<1>8. CASE s = b /\ k = "inbox" /\ Left(b, "inbox") = Reject4
  <2>0. RefreshFollowingCount(b, "inbox")
    BY <1>s, <1>8, StatementNames, RejectLists DEF Left, Gets
  <2>l. Tail(Left(b, "inbox")) = <<>>
    BY <1>8, RejectLists
  <2>1. Effect(b, "inbox", follow[b], follower[b], blocked[b], jobs[b], <<>>)
    BY <1>s, <1>8, <2>0, <2>l, RefreshDoes
  <2>2. Changed(b, a, "inbox", "api", follow[b], follower[b], blocked[b], jobs[b], <<>>)
    BY <1>s, <2>1, EffectOn
  <2> QED
    BY <1>8, <2>1, <2>2, RejectLists, SMTT(60) DEF Changed, Rejecting, Agree, Clean, IsBlockedBy, Out, Sends, Left, NoFollow, NoFollower
<1> QED
  BY <1>w, <1>1, <1>2, <1>3, <1>4, <1>5, <1>6, <1>7, <1>8

LEMMA BlockLists ==
  /\ BlocksCreate # <<>> /\ Head(BlocksCreate) = "CreateBlock" /\ Tail(BlocksCreate) = Block2
  /\ Block2 # <<>> /\ Head(Block2) = "DeleteFollowerByActor" /\ Tail(Block2) = Block3
  /\ Block3 # <<>> /\ Head(Block3) = "RefreshFollowers" /\ Tail(Block3) = Block4
  /\ Block4 # <<>> /\ Head(Block4) = "GetFollowByTarget" /\ Tail(Block4) = Block5
  /\ Block5 # <<>> /\ Head(Block5) = "DeleteFollow" /\ Tail(Block5) = Block6
  /\ Block6 # <<>> /\ Head(Block6) = "RefreshFollowing" /\ Tail(Block6) = Block7
  /\ Block7 # <<>> /\ Head(Block7) = "SendBlock" /\ Tail(Block7) = <<>>
  /\ InboxBlock # <<>> /\ Head(InboxBlock) = "DeleteFollowerByActor" /\ Tail(InboxBlock) = BlockIn2
  /\ BlockIn2 # <<>> /\ Head(BlockIn2) = "RefreshFollowers" /\ Tail(BlockIn2) = Reject2
  /\ Reject2 # <<>> /\ Head(Reject2) = "GetFollowByTarget" /\ Tail(Reject2) = Reject3
  /\ Reject3 # <<>> /\ Head(Reject3) = "DeleteFollow" /\ Tail(Reject3) = Reject4
  /\ Reject4 # <<>> /\ Head(Reject4) = "RefreshFollowing" /\ Tail(Reject4) = <<>>
  /\ Len(Reject3) = 2
  /\ Len(Block5) = 3
  /\ (IF Len(Block5) <= 2 THEN <<>> ELSE Tail(Tail(Block5))) = Block7
BY DEF BlocksCreate, Block2, Block3, Block4, Block5, Block6, Block7, InboxBlock, BlockIn2, Reject2, Reject3, Reject4

LEMMA BlocksGoesOn ==
  ASSUME GraphInv, NEW a, NEW b, Pair(a, b), Blocks(a, b), Left(b, "api") = <<>>,
         NEW s \in Servers, NEW k \in Slots, Statement(s, k)
  PROVE  Blocks(a, b)' /\ Left(b, "api")' = <<>>
<1>s. a \in Servers /\ b \in Servers /\ "api" \in Slots /\ "inbox" \in Slots /\ Pair(b, a)
  BY DEF Pair, Slots
<1>w. \/ s = a /\ k = "api" /\ Left(a, "api") \in {BlocksCreate, Block2, Block3, Block4, Block5, Block6, Block7}
      \/ s = b /\ k = "inbox" /\ Left(b, "inbox") \in {InboxBlock, BlockIn2, Reject2, Reject3, Reject4}
  BY StatementNames DEF Pair, Slots, Blocks, Left
<1>1. CASE s = a /\ k = "api" /\ Left(a, "api") = BlocksCreate
  <2>0. CreateBlock(a, "api", "CreateBlock", "actor")
    BY <1>s, <1>1, StatementNames, BlockLists DEF Left, Gets
  <2>l. Tail(Left(a, "api")) = Block2
    BY <1>1, BlockLists
  <2>1. \/ Effect(a, "api", follow[a], follower[a], blocked[a], jobs[a], <<>>)
        \/ \E B : TRUE /\ Effect(a, "api", follow[a], follower[a], B, jobs[a], Block2)
    BY <1>s, <1>1, <2>0, <2>l, CreateBlockDoes
  <2>2. CASE Effect(a, "api", follow[a], follower[a], blocked[a], jobs[a], <<>>)
    <3>1. Changed(a, b, "api", "inbox", follow[a], follower[a], blocked[a], jobs[a], <<>>)
      BY <1>s, <2>2, EffectOn
    <3> QED
      BY <1>1, <2>2, <3>1, BlockLists, SMTT(60) DEF Changed, Blocks, Agree, Clean, IsBlockedBy, Out, Sends, Left, NoFollow, NoFollower
  <2>3. ASSUME NEW B, TRUE, Effect(a, "api", follow[a], follower[a], B, jobs[a], Block2)
        PROVE  Blocks(a, b)' /\ Left(b, "api")' = <<>>
    <3>1. Changed(a, b, "api", "inbox", follow[a], follower[a], B, jobs[a], Block2)
      BY <1>s, <2>3, EffectOn
    <3> QED
      BY <1>1, <2>3, <3>1, BlockLists, SMTT(60) DEF Changed, Blocks, Agree, Clean, IsBlockedBy, Out, Sends, Left, NoFollow, NoFollower
  <2> QED
    BY <2>1, <2>2, <2>3
<1>2. CASE s = a /\ k = "api" /\ Left(a, "api") = Block2
  <2>0. DeleteFollowerByActorURI(a, "api")
    BY <1>s, <1>2, StatementNames, BlockLists DEF Left, Gets
  <2>l. Tail(Left(a, "api")) = Block3
    BY <1>2, BlockLists
  <2>1. Effect(a, "api", follow[a], NoFollower, blocked[a], jobs[a], Block3)
    BY <1>s, <1>2, <2>0, <2>l, DeleteFollowerByActorDoes
  <2>2. Changed(a, b, "api", "inbox", follow[a], NoFollower, blocked[a], jobs[a], Block3)
    BY <1>s, <2>1, EffectOn
  <2> QED
    BY <1>2, <2>1, <2>2, BlockLists, SMTT(60) DEF Changed, Blocks, Agree, Clean, IsBlockedBy, Out, Sends, Left, NoFollow, NoFollower
<1>3. CASE s = a /\ k = "api" /\ Left(a, "api") = Block3
  <2>0. RefreshFollowersCount(a, "api")
    BY <1>s, <1>3, StatementNames, BlockLists DEF Left, Gets
  <2>l. Tail(Left(a, "api")) = Block4
    BY <1>3, BlockLists
  <2>1. Effect(a, "api", follow[a], follower[a], blocked[a], jobs[a], Block4)
    BY <1>s, <1>3, <2>0, <2>l, RefreshDoes
  <2>2. Changed(a, b, "api", "inbox", follow[a], follower[a], blocked[a], jobs[a], Block4)
    BY <1>s, <2>1, EffectOn
  <2> QED
    BY <1>3, <2>1, <2>2, BlockLists, SMTT(60) DEF Changed, Blocks, Agree, Clean, IsBlockedBy, Out, Sends, Left, NoFollow, NoFollower
<1>4. CASE s = a /\ k = "api" /\ Left(a, "api") = Block4
  <2>0. GetFollowByTarget(a, "api")
    BY <1>s, <1>4, StatementNames, BlockLists DEF Left, Gets
  <2>l. Tail(Left(a, "api")) = Block5 /\ Block5 # <<>>
    BY <1>4, BlockLists
  <2>n. run[a]["api"].op = "blocks_create"
    BY <1>4, BlockLists DEF Blocks, Clean, Agree, IsBlockedBy, Left, NoFollow, NoFollower
  <2>1. run'[a]["api"].found = follow[a].id /\ Effect(a, "api", follow[a], follower[a], blocked[a], jobs[a], Block5)
    BY <1>s, <1>4, <2>0, <2>n, <2>l, GetFollowByTargetDoes
  <2>2. Changed(a, b, "api", "inbox", follow[a], follower[a], blocked[a], jobs[a], Block5)
    BY <1>s, <2>1, EffectOn
  <2> QED
    BY <1>4, <2>1, <2>2, BlockLists, SMTT(60) DEF Changed, Blocks, Agree, Clean, IsBlockedBy, Out, Sends, Left, NoFollow, NoFollower
<1>5. CASE s = a /\ k = "api" /\ Left(a, "api") = Block5
  <2>0. DeleteFollow(a, "api")
    BY <1>s, <1>5, StatementNames, BlockLists DEF Left, Gets
  <2>l. Tail(Left(a, "api")) = Block6 /\ Tail(Block6) = Block7 /\ Len(Block5) = 3
    BY <1>5, BlockLists
  <2>n. run[a]["api"].found = follow[a].id
    BY <1>5, BlockLists DEF Blocks, Clean, Agree, IsBlockedBy, Left, NoFollow, NoFollower
  <2>p. PICK F, n : /\ F \in {NoFollow, follow[a]} /\ (follow[a].id = run[a]["api"].found => F = NoFollow)
                    /\ \/ n = Tail(Left(a, "api"))
                       \/ n = IF Len(Left(a, "api")) <= 2 THEN <<>> ELSE Tail(Tail(Left(a, "api")))
                    /\ Effect(a, "api", F, follower[a], blocked[a], jobs[a], n)
    BY <1>s, <2>0, DeleteFollowMay
  <2>q. n \in {Block6, Block7}
    BY <1>5, <2>p, BlockLists
  <2>1. F = NoFollow /\ n \in {Block6, Block7} /\ Effect(a, "api", F, follower[a], blocked[a], jobs[a], n)
    BY <2>n, <2>p, <2>q
  <2>2. Changed(a, b, "api", "inbox", F, follower[a], blocked[a], jobs[a], n)
    BY <1>s, <2>1, EffectOn
  <2> QED
    BY <1>5, <2>1, <2>2, BlockLists, SMTT(60) DEF Changed, Blocks, Agree, Clean, IsBlockedBy, Out, Sends, Left, NoFollow, NoFollower
<1>6. CASE s = a /\ k = "api" /\ Left(a, "api") = Block6
  <2>0. RefreshFollowingCount(a, "api")
    BY <1>s, <1>6, StatementNames, BlockLists DEF Left, Gets
  <2>l. Tail(Left(a, "api")) = Block7
    BY <1>6, BlockLists
  <2>1. Effect(a, "api", follow[a], follower[a], blocked[a], jobs[a], Block7)
    BY <1>s, <1>6, <2>0, <2>l, RefreshDoes
  <2>2. Changed(a, b, "api", "inbox", follow[a], follower[a], blocked[a], jobs[a], Block7)
    BY <1>s, <2>1, EffectOn
  <2> QED
    BY <1>6, <2>1, <2>2, BlockLists, SMTT(60) DEF Changed, Blocks, Agree, Clean, IsBlockedBy, Out, Sends, Left, NoFollow, NoFollower
<1>7. CASE s = a /\ k = "api" /\ Left(a, "api") = Block7
  <2>0. Enqueue(a, "api", "SendBlock", "Block", 0)
    BY <1>s, <1>7, StatementNames, BlockLists DEF Left
  <2>p. \E j : j.type = "Block" /\ Effect(a, "api", follow[a], follower[a], blocked[a], jobs[a] \cup {j}, Tail(Left(a, "api")))
    BY <1>s, <2>0, EnqueueDoes
  <2>l. Tail(Left(a, "api")) = <<>>
    BY <1>7, BlockLists
  <2>1. PICK j : j.type = "Block" /\ Effect(a, "api", follow[a], follower[a], blocked[a], jobs[a] \cup {j}, <<>>)
    BY <2>l, <2>p
  <2>2. Changed(a, b, "api", "inbox", follow[a], follower[a], blocked[a], jobs[a] \cup {j}, <<>>)
    BY <1>s, <2>1, EffectOn
  <2> QED
    BY <1>7, <2>1, <2>2, BlockLists, SMTT(60) DEF Changed, Blocks, Agree, Clean, IsBlockedBy, Out, Sends, Left, NoFollow, NoFollower
<1>8. CASE s = b /\ k = "inbox" /\ Left(b, "inbox") = InboxBlock
  <2>0. DeleteFollowerByActorURI(b, "inbox")
    BY <1>s, <1>8, StatementNames, BlockLists DEF Left, Gets
  <2>l. Tail(Left(b, "inbox")) = BlockIn2
    BY <1>8, BlockLists
  <2>1. Effect(b, "inbox", follow[b], NoFollower, blocked[b], jobs[b], BlockIn2)
    BY <1>s, <1>8, <2>0, <2>l, DeleteFollowerByActorDoes
  <2>2. Changed(b, a, "inbox", "api", follow[b], NoFollower, blocked[b], jobs[b], BlockIn2)
    BY <1>s, <2>1, EffectOn
  <2> QED
    BY <1>8, <2>1, <2>2, BlockLists, SMTT(60) DEF Changed, Blocks, Agree, Clean, IsBlockedBy, Out, Sends, Left, NoFollow, NoFollower
<1>9. CASE s = b /\ k = "inbox" /\ Left(b, "inbox") = BlockIn2
  <2>0. RefreshFollowersCount(b, "inbox")
    BY <1>s, <1>9, StatementNames, BlockLists DEF Left, Gets
  <2>l. Tail(Left(b, "inbox")) = Reject2
    BY <1>9, BlockLists
  <2>1. Effect(b, "inbox", follow[b], follower[b], blocked[b], jobs[b], Reject2)
    BY <1>s, <1>9, <2>0, <2>l, RefreshDoes
  <2>2. Changed(b, a, "inbox", "api", follow[b], follower[b], blocked[b], jobs[b], Reject2)
    BY <1>s, <2>1, EffectOn
  <2> QED
    BY <1>9, <2>1, <2>2, BlockLists, SMTT(60) DEF Changed, Blocks, Agree, Clean, IsBlockedBy, Out, Sends, Left, NoFollow, NoFollower
<1>10. CASE s = b /\ k = "inbox" /\ Left(b, "inbox") = Reject2
  <2>0. GetFollowByTarget(b, "inbox")
    BY <1>s, <1>10, StatementNames, BlockLists DEF Left, Gets
  <2>l. Tail(Left(b, "inbox")) = Reject3 /\ Reject3 # <<>>
    BY <1>10, BlockLists
  <2>1. \/ follow[b] = NoFollow /\ Effect(b, "inbox", follow[b], follower[b], blocked[b], jobs[b], <<>>)
        \/ run'[b]["inbox"].found = follow[b].id /\ Effect(b, "inbox", follow[b], follower[b], blocked[b], jobs[b], Reject3)
    BY <1>s, <1>10, <2>0, <2>l, GetFollowByTargetDoes
  <2>2. CASE follow[b] = NoFollow /\ Effect(b, "inbox", follow[b], follower[b], blocked[b], jobs[b], <<>>)
    <3>1. Changed(b, a, "inbox", "api", follow[b], follower[b], blocked[b], jobs[b], <<>>)
      BY <1>s, <2>2, EffectOn
    <3> QED
      BY <1>10, <2>2, <3>1, BlockLists, SMTT(60) DEF Changed, Blocks, Agree, Clean, IsBlockedBy, Out, Sends, Left, NoFollow, NoFollower
  <2>3. CASE run'[b]["inbox"].found = follow[b].id /\ Effect(b, "inbox", follow[b], follower[b], blocked[b], jobs[b], Reject3)
    <3>1. Changed(b, a, "inbox", "api", follow[b], follower[b], blocked[b], jobs[b], Reject3)
      BY <1>s, <2>3, EffectOn
    <3> QED
      BY <1>10, <2>3, <3>1, BlockLists, SMTT(60) DEF Changed, Blocks, Agree, Clean, IsBlockedBy, Out, Sends, Left, NoFollow, NoFollower
  <2> QED
    BY <2>1, <2>2, <2>3
<1>11. CASE s = b /\ k = "inbox" /\ Left(b, "inbox") = Reject3
  <2>0. DeleteFollow(b, "inbox")
    BY <1>s, <1>11, StatementNames, BlockLists DEF Left, Gets
  <2>l. Tail(Left(b, "inbox")) = Reject4 /\ Tail(Reject4) = <<>> /\ Len(Reject3) = 2
    BY <1>11, BlockLists
  <2>1. PICK F, n : F \in {NoFollow, follow[b]} /\ n \in {<<>>, Reject4} /\ (run[b]["inbox"].found = follow[b].id => F = NoFollow) /\ Effect(b, "inbox", F, follower[b], blocked[b], jobs[b], n)
    BY <1>s, <1>11, <2>0, <2>l, DeleteFollowMay
  <2>2. Changed(b, a, "inbox", "api", F, follower[b], blocked[b], jobs[b], n)
    BY <1>s, <2>1, EffectOn
  <2> QED
    BY <1>11, <2>1, <2>2, BlockLists, SMTT(60) DEF Changed, Blocks, Agree, Clean, IsBlockedBy, Out, Sends, Left, NoFollow, NoFollower
<1>12. CASE s = b /\ k = "inbox" /\ Left(b, "inbox") = Reject4
  <2>0. RefreshFollowingCount(b, "inbox")
    BY <1>s, <1>12, StatementNames, BlockLists DEF Left, Gets
  <2>l. Tail(Left(b, "inbox")) = <<>>
    BY <1>12, BlockLists
  <2>1. Effect(b, "inbox", follow[b], follower[b], blocked[b], jobs[b], <<>>)
    BY <1>s, <1>12, <2>0, <2>l, RefreshDoes
  <2>2. Changed(b, a, "inbox", "api", follow[b], follower[b], blocked[b], jobs[b], <<>>)
    BY <1>s, <2>1, EffectOn
  <2> QED
    BY <1>12, <2>1, <2>2, BlockLists, SMTT(60) DEF Changed, Blocks, Agree, Clean, IsBlockedBy, Out, Sends, Left, NoFollow, NoFollower
<1> QED
  BY <1>w, <1>1, <1>2, <1>3, <1>4, <1>5, <1>6, <1>7, <1>8, <1>9, <1>10, <1>11, <1>12

LEMMA UnblockLists ==
  /\ BlocksDelete # <<>> /\ Head(BlocksDelete) = "DeleteBlock" /\ Tail(BlocksDelete) = Unblocked
  /\ Unblocked # <<>> /\ Head(Unblocked) = "SendUndoBlock" /\ Tail(Unblocked) = <<>>
BY DEF BlocksDelete, Unblocked

LEMMA UnblocksGoesOn ==
  ASSUME GraphInv, NEW a, NEW b, Pair(a, b), Unblocks(a, b), Left(b, "api") = <<>>,
         NEW s \in Servers, NEW k \in Slots, Statement(s, k)
  PROVE  Unblocks(a, b)' /\ Left(b, "api")' = <<>>
<1>s. a \in Servers /\ b \in Servers /\ "api" \in Slots /\ "inbox" \in Slots /\ Pair(b, a)
  BY DEF Pair, Slots
<1>w. \/ s = a /\ k = "api" /\ Left(a, "api") \in {BlocksDelete, Unblocked}
  BY StatementNames DEF Pair, Slots, Unblocks, Left
<1>1. CASE s = a /\ k = "api" /\ Left(a, "api") = BlocksDelete
  <2>0. DeleteBlock(a, "api", "DeleteBlock", "actor")
    BY <1>s, <1>1, StatementNames, UnblockLists DEF Left, Gets
  <2>l. Tail(Left(a, "api")) = Unblocked
    BY <1>1, UnblockLists
  <2>1. Effect(a, "api", follow[a], follower[a], blocked[a] \ {"actor"}, jobs[a], Unblocked)
    BY <1>s, <1>1, <2>0, <2>l, DeleteBlockDoes
  <2>2. Changed(a, b, "api", "inbox", follow[a], follower[a], blocked[a] \ {"actor"}, jobs[a], Unblocked)
    BY <1>s, <2>1, EffectOn
  <2> QED
    BY <1>1, <2>1, <2>2, UnblockLists, SMTT(60) DEF Changed, Unblocks, Agree, Clean, IsBlockedBy, Out, Sends, Left, NoFollow, NoFollower
<1>2. CASE s = a /\ k = "api" /\ Left(a, "api") = Unblocked
  <2>0. Enqueue(a, "api", "SendUndoBlock", "UndoBlock", 0)
    BY <1>s, <1>2, StatementNames, UnblockLists DEF Left
  <2>p. \E j : j.type = "UndoBlock" /\ Effect(a, "api", follow[a], follower[a], blocked[a], jobs[a] \cup {j}, Tail(Left(a, "api")))
    BY <1>s, <2>0, EnqueueDoes
  <2>l. Tail(Left(a, "api")) = <<>>
    BY <1>2, UnblockLists
  <2>1. PICK j : j.type = "UndoBlock" /\ Effect(a, "api", follow[a], follower[a], blocked[a], jobs[a] \cup {j}, <<>>)
    BY <2>l, <2>p
  <2>2. Changed(a, b, "api", "inbox", follow[a], follower[a], blocked[a], jobs[a] \cup {j}, <<>>)
    BY <1>s, <2>1, EffectOn
  <2> QED
    BY <1>2, <2>1, <2>2, UnblockLists, SMTT(60) DEF Changed, Unblocks, Agree, Clean, IsBlockedBy, Out, Sends, Left, NoFollow, NoFollower
<1> QED
  BY <1>w, <1>1, <1>2


-----------------------------------------------------------------------------
(* The episode of a request.                                               *)

LEMMA EpisodeGoesOn ==
  ASSUME GraphInv, NEW a, NEW b, Pair(a, b), Episode(a, b), NEW s \in Servers, NEW k \in Slots, Statement(s, k)
  PROVE  Episode(a, b)'
BY FollowingGoesOn, UnfollowingGoesOn, ApprovingGoesOn, RejectingGoesOn, BlocksGoesOn, UnblocksGoesOn
   DEF Episode

\* The other server, by name.
LEMMA PairOf ==
  ASSUME NEW s \in Servers
  PROVE  Pair(s, Other(s)) /\ Pair(Other(s), s)
<1>1. Other(s) \in Servers /\ Other(s) # s
  BY OtherServer
<1> QED
  BY <1>1, TwoServers DEF Pair

\* An activity of s may disappear, and nothing else happens.
Fewer(s, t, j) ==
  /\ j \in Out(s) /\ Out(s)' \subseteq Out(s) /\ Out(t)' = Out(t)
  /\ follow' = follow /\ follower' = follower /\ blocked' = blocked /\ locked' = locked /\ run' = run

LEMMA EpisodeWaits ==
  ASSUME NEW a, NEW b, Episode(a, b), Out(a)' = Out(a), Out(b)' = Out(b),
         follow' = follow, follower' = follower, blocked' = blocked, locked' = locked, run' = run
  PROVE  Episode(a, b)'
BY SMTT(60) DEF Episode, Following, Unfollowing, Approving, Rejecting, Blocks, Unblocks, Agree, Clean, IsBlockedBy,
       Sends, Left

LEMMA SendWaits ==
  ASSUME GraphInv, NEW a, NEW b, Pair(a, b), Episode(a, b), NEW s \in Servers, NEW j \in jobs[s], Execute(s, j)
  PROVE  Episode(a, b)'
<1>1. Send(s, j)
  BY DEF Execute, HandleSendFollow, HandleSendUndoFollow, HandleAcceptFollow, HandleRejectFollow,
         HandleSendBlock, HandleSendUndoBlock
<1>2. \A x \in Servers : Out(x)' = Out(x)
  BY <1>1 DEF Send, Out, GraphInv, RowsOK
<1>3. /\ follow' = follow /\ follower' = follower /\ blocked' = blocked
      /\ locked' = locked /\ run' = run
  BY <1>1 DEF Send, tables
<1> QED
  BY <1>2, <1>3, EpisodeWaits DEF Pair

LEMMA GivesUp ==
  ASSUME GraphInv, NEW a, NEW b, Pair(a, b), Episode(a, b), NEW s \in Servers, NEW j \in jobs[s], GiveUp(s, j),
         orderly'
  PROVE  Episode(a, b)'
<1>1. j.type = "Follow"
  BY DEF GiveUp
<1>2. /\ j \in Out(s) /\ Out(s)' \subseteq Out(s) /\ \A x \in Servers : x # s => Out(x)' = Out(x)
  BY DEF GiveUp, Out, GraphInv, RowsOK
<1>3. /\ follow' = follow /\ follower' = follower /\ blocked' = blocked
      /\ locked' = locked /\ run' = run
  BY DEF GiveUp, tables
<1>4. Following(a, b) /\ s = a
  BY <1>1, <1>2, SMTT(60) DEF Episode, Following, Unfollowing, Approving, Rejecting, Blocks, Unblocks, Sends, Pair
<1>5. /\ Out(a)' \subseteq Out(a) /\ Out(b)' = Out(b) /\ Out(a) # {}
  BY <1>2, <1>4 DEF Pair
<1>6. Following(a, b)'
  BY <1>3, <1>4, <1>5, SMTT(60) DEF Following, Agree, Clean, IsBlockedBy, Sends, Left
<1> QED
  BY <1>3, <1>6 DEF Episode, Left

\* An activity of s arrives at t.
Arrives(s, t, j, n) ==
  /\ j \in Out(s) /\ Out(s)' \subseteq Out(s) /\ Out(t)' = Out(t)
  /\ follow' = follow /\ follower' = follower /\ blocked' = blocked /\ locked' = locked
  /\ Left(t, "inbox") = <<>> /\ Left(t, "inbox")' = n
  /\ run'[s] = run[s] /\ run'[t]["api"] = run[t]["api"]

LEMMA ReceiveDoes ==
  ASSUME GraphInv, NEW s, NEW t, Pair(s, t), NEW j \in wire[s], Receive(s, j)
  PROVE  Arrives(s, t, j, Activities[j.type])
<1>1. Other(s) = t /\ s \in Servers /\ t \in Servers /\ s # t
  BY OtherServer DEF Pair
<1>2. j \in Out(s) /\ Out(s)' \subseteq Out(s) /\ Out(t)' = Out(t)
  BY <1>1 DEF Receive, Out, GraphInv, RowsOK
<1>3. follow' = follow /\ follower' = follower /\ blocked' = blocked /\ locked' = locked
  BY DEF Receive, tables
<1>4. PICK n : n = IF Activities[j.type] = <<>> THEN Idle
                   ELSE [op |-> j.type, todo |-> Activities[j.type], found |-> 0, of |-> j.of]
  OBVIOUS
<1>5. n.todo = Activities[j.type]
  BY <1>4 DEF Idle
<1>6. RunBecomes(t, "inbox", n) /\ run[t]["inbox"] = Idle
  BY <1>1, <1>4 DEF Receive, RunBecomes
<1>7. "inbox" \in Slots /\ "api" \in Slots
  BY DEF Slots
<1>8. run'[t]["inbox"] = n /\ \A x \in Servers, l \in Slots : x # t \/ l # "inbox" => run'[x][l] = run[x][l]
  BY <1>1, <1>6, <1>7, RunMoves
<1>9. run'[t]["api"] = run[t]["api"]
  BY <1>1, <1>7, <1>8
<1>10. run'[s] = run[s]
  BY <1>1, <1>6 DEF RunBecomes, GraphInv, RunsOK
<1> QED
  BY <1>2, <1>3, <1>5, <1>6, <1>8, <1>9, <1>10 DEF Arrives, Left, Idle

LEMMA ActivityLists ==
  /\ Activities["Follow"] = InboxFollow /\ Activities["Undo"] = InboxUndo /\ Activities["Accept"] = InboxAccept
  /\ Activities["Reject"] = InboxReject /\ Activities["Block"] = InboxBlock /\ Activities["UndoBlock"] = <<>>
BY DEF Activities

LEMMA FollowArrives ==
  ASSUME NEW a, NEW b, Following(a, b), NEW j, Arrives(a, b, j, InboxFollow)
  PROVE  Following(a, b)'
BY FollowLists, SMTT(60) DEF Arrives, Following, Agree, Clean, IsBlockedBy, Sends, Left

LEMMA AnswerArrives ==
  ASSUME NEW a, NEW b, Following(a, b), NEW j, Arrives(b, a, j, InboxAccept)
  PROVE  Following(a, b)'
BY FollowLists, SMTT(60) DEF Arrives, Following, Agree, Clean, IsBlockedBy, Sends, Left

LEMMA UndoArrives ==
  ASSUME NEW a, NEW b, Unfollowing(a, b), NEW j, Arrives(a, b, j, InboxUndo)
  PROVE  Unfollowing(a, b)'
BY UndoLists, SMTT(60) DEF Arrives, Unfollowing, Agree, Clean, IsBlockedBy, Sends, Left

LEMMA AcceptArrives ==
  ASSUME NEW a, NEW b, Approving(a, b), NEW j, Arrives(a, b, j, InboxAccept)
  PROVE  Approving(a, b)'
BY ApproveLists, SMTT(60) DEF Arrives, Approving, Agree, Clean, IsBlockedBy, Sends, Left

LEMMA RejectArrives ==
  ASSUME NEW a, NEW b, Rejecting(a, b), NEW j, Arrives(a, b, j, InboxReject)
  PROVE  Rejecting(a, b)'
BY RejectLists, SMTT(60) DEF Arrives, Rejecting, Agree, Clean, IsBlockedBy, Sends, Left

LEMMA BlockArrives ==
  ASSUME NEW a, NEW b, Blocks(a, b), NEW j, Arrives(a, b, j, InboxBlock)
  PROVE  Blocks(a, b)'
BY BlockLists, SMTT(60) DEF Arrives, Blocks, Agree, Clean, IsBlockedBy, Sends, Left

LEMMA UndoBlockArrives ==
  ASSUME NEW a, NEW b, Unblocks(a, b), NEW j, Arrives(a, b, j, <<>>)
  PROVE  Unblocks(a, b)'
BY UnblockLists, SMTT(60) DEF Arrives, Unblocks, Agree, Clean, IsBlockedBy, Sends, Left

LEMMA EpisodeReceives ==
  ASSUME GraphInv, NEW a, NEW b, Pair(a, b), Episode(a, b), NEW s \in Servers, NEW j \in wire[s], Receive(s, j)
  PROVE  Episode(a, b)'
<1>1. Pair(b, a) /\ (s = a \/ s = b)
  BY DEF Pair
<1>2. CASE s = a
  <2>1. Arrives(a, b, j, Activities[j.type])
    BY <1>2, ReceiveDoes
  <2>2. Left(b, "api")' = <<>> /\ j \in Out(a)
    BY <2>1 DEF Arrives, Left, Episode
  <2>3. CASE Following(a, b)
    BY <2>1, <2>2, <2>3, ActivityLists, FollowArrives DEF Episode, Following, Sends
  <2>4. CASE Unfollowing(a, b)
    BY <2>1, <2>2, <2>4, ActivityLists, UndoArrives DEF Episode, Unfollowing, Sends
  <2>5. CASE Approving(a, b)
    BY <2>1, <2>2, <2>5, ActivityLists, AcceptArrives DEF Episode, Approving, Sends
  <2>6. CASE Rejecting(a, b)
    BY <2>1, <2>2, <2>6, ActivityLists, RejectArrives DEF Episode, Rejecting, Sends
  <2>7. CASE Blocks(a, b)
    <3>1. j.type = "Block"
      BY <2>2, <2>7 DEF Blocks, Sends
    <3>2. Blocks(a, b)'
      BY <2>1, <2>7, <3>1, ActivityLists, BlockArrives
    <3> QED
      BY <2>2, <3>2 DEF Episode
  <2>8. CASE Unblocks(a, b)
    BY <2>1, <2>2, <2>8, ActivityLists, UndoBlockArrives DEF Episode, Unblocks, Sends
  <2> QED
    BY <2>3, <2>4, <2>5, <2>6, <2>7, <2>8 DEF Episode
<1>3. CASE s = b
  <2>1. Arrives(b, a, j, Activities[j.type])
    BY <1>1, <1>3, ReceiveDoes
  <2>2. Left(b, "api")' = <<>> /\ j \in Out(b)
    BY <2>1 DEF Arrives, Left, Episode
  <2>3. Following(a, b) /\ j.type = "Accept"
    BY <2>2 DEF Episode, Following, Unfollowing, Approving, Rejecting, Blocks, Unblocks, Sends
  <2> QED
    BY <2>1, <2>2, <2>3, ActivityLists, AnswerArrives DEF Episode
<1> QED
  BY <1>1, <1>2, <1>3

\* When all is quiet the episode is over.
Settled(a, b) == Clean(a) /\ Clean(b) /\ Agree(a, b) /\ Agree(b, a)

LEMMA QuietIs ==
  ASSUME Quiet, NEW s \in Servers
  PROVE  /\ Out(s) = {} /\ Left(s, "api") = <<>> /\ Left(s, "inbox") = <<>>
         /\ jobs[s] = {} /\ wire[s] = {}
BY DEF Quiet, Out, Left, Slots, Idle

LEMMA EpisodeSettles ==
  ASSUME NEW a, NEW b, Pair(a, b), Episode(a, b), Quiet
  PROVE  Settled(a, b)
<1>1. /\ Out(a) = {} /\ Left(a, "api") = <<>> /\ Left(a, "inbox") = <<>>
      /\ Out(b) = {} /\ Left(b, "api") = <<>> /\ Left(b, "inbox") = <<>>
  BY QuietIs DEF Pair
<1>2. Following(a, b) => Settled(a, b)
  BY <1>1, FollowLists DEF Following, Settled, Agree, NoFollow, NoFollower
<1>3. Unfollowing(a, b) => Settled(a, b)
  BY <1>1, UndoLists DEF Unfollowing, Settled, Agree, NoFollow, NoFollower
<1>4. Approving(a, b) => Settled(a, b)
  BY <1>1, ApproveLists DEF Approving, Settled, Agree, NoFollow, NoFollower
<1>5. Rejecting(a, b) => Settled(a, b)
  BY <1>1, RejectLists DEF Rejecting, Settled, Agree, NoFollow, NoFollower
<1>6. Blocks(a, b) => Settled(a, b)
  BY <1>1, BlockLists DEF Blocks, Settled, Agree, Clean, NoFollow, NoFollower
<1>7. Unblocks(a, b) => Settled(a, b)
  BY DEF Unblocks, Settled
<1> QED
  BY <1>2, <1>3, <1>4, <1>5, <1>6, <1>7 DEF Episode

\* A request begins when all is quiet.
Begins(s, t, op) ==
  /\ follow' = follow /\ follower' = follower /\ blocked' = blocked /\ locked' = locked
  /\ Out(s)' = {} /\ Out(t)' = {}
  /\ run'[s]["api"] = [op |-> op, todo |-> Methods[op], found |-> 0, of |-> follower[s].of]
  /\ Left(s, "inbox")' = <<>> /\ Left(t, "inbox")' = <<>> /\ Left(t, "api")' = <<>>

LEMMA CallDoes ==
  ASSUME GraphInv, NEW s, NEW t, Pair(s, t), NEW op, Call(s, op), Quiet
  PROVE  Begins(s, t, op)
<1>1. s \in Servers /\ t \in Servers /\ s # t /\ "api" \in Slots /\ "inbox" \in Slots
  BY DEF Pair, Slots
<1>2. PICK n : n = [op |-> op, todo |-> Methods[op], found |-> 0, of |-> follower[s].of]
  OBVIOUS
<1>3. RunBecomes(s, "api", n)
  BY <1>2 DEF Call, RunBecomes
<1>4. run'[s]["api"] = n /\ \A x \in Servers, l \in Slots : x # s \/ l # "api" => run'[x][l] = run[x][l]
  BY <1>1, <1>3, RunMoves
<1>5. /\ follow' = follow /\ follower' = follower /\ blocked' = blocked /\ locked' = locked
      /\ jobs' = jobs /\ wire' = wire
  BY DEF Call, tables
<1>6. Out(s) = {} /\ Out(t) = {} /\ Left(s, "inbox") = <<>> /\ Left(t, "inbox") = <<>> /\ Left(t, "api") = <<>>
  BY <1>1, QuietIs
<1>7. Out(s)' = {} /\ Out(t)' = {}
  BY <1>5, <1>6 DEF Out
<1>8. Left(s, "inbox")' = <<>> /\ Left(t, "inbox")' = <<>> /\ Left(t, "api")' = <<>>
  BY <1>1, <1>4, <1>6 DEF Left
<1> QED
  BY <1>2, <1>4, <1>5, <1>7, <1>8 DEF Begins

LEMMA MethodLists ==
  /\ Methods["follows_create"] = FollowsCreate /\ Methods["follows_delete"] = FollowsDelete
  /\ Methods["followers_approve"] = FollowersApprove /\ Methods["followers_reject"] = FollowersReject
  /\ Methods["blocks_create"] = BlocksCreate /\ Methods["blocks_delete"] = BlocksDelete
BY DEF Methods

LEMMA EpisodeBegins ==
  ASSUME GraphInv, NEW s, NEW t, Pair(s, t), Settled(s, t), Quiet, NEW op \in Ops, Call(s, op), orderly'
  PROVE  Episode(s, t)'
<1>1. Begins(s, t, op)
  BY CallDoes
<1>2. op \in {"follows_create", "follows_delete", "followers_approve", "followers_reject",
              "blocks_create", "blocks_delete"}
  BY OpsAreMethods DEF Methods, Call, Silent
<1>3. Left(s, "api")' = Methods[op] /\ run'[s]["api"].op = op /\ run'[s]["api"].of = follower'[s].of
  BY <1>1 DEF Begins, Left
<1>4. /\ op \in {"followers_approve", "followers_reject"} => follower[s].state = "pending"
      /\ op = "follows_delete" => follow[s] # NoFollow
  BY DEF Call, ListPendingFollowers, ListFollows
<1>5. Left(t, "api")' = <<>>
  BY <1>1 DEF Begins
<1>6. CASE op = "follows_create"
  <2>1. Following(s, t)'
    BY <1>1, <1>3, <1>6, MethodLists, FollowLists DEF Begins, Following, Settled, Agree, Clean, IsBlockedBy, Sends
  <2> QED
    BY <1>5, <2>1 DEF Episode
<1>7. CASE op = "follows_delete"
  <2>1. Unfollowing(s, t)'
    BY <1>1, <1>3, <1>4, <1>7, MethodLists, UndoLists
       DEF Begins, Unfollowing, Settled, Agree, Clean, IsBlockedBy, Sends
  <2> QED
    BY <1>5, <2>1 DEF Episode
<1>8. CASE op = "followers_approve"
  <2>1. Approving(s, t)'
    BY <1>1, <1>3, <1>4, <1>8, MethodLists, ApproveLists
       DEF Begins, Approving, Settled, Agree, Clean, IsBlockedBy, Sends, NoFollower
  <2> QED
    BY <1>5, <2>1 DEF Episode
<1>9. CASE op = "followers_reject"
  <2>1. Rejecting(s, t)'
    BY <1>1, <1>3, <1>4, <1>9, MethodLists, RejectLists
       DEF Begins, Rejecting, Settled, Agree, Clean, IsBlockedBy, Sends, NoFollower
  <2> QED
    BY <1>5, <2>1 DEF Episode
<1>10. CASE op = "blocks_create"
  <2>1. Blocks(s, t)'
    BY <1>1, <1>3, <1>10, MethodLists, BlockLists DEF Begins, Blocks, Settled, Agree, Clean, IsBlockedBy, Sends
  <2> QED
    BY <1>5, <2>1 DEF Episode
<1>11. CASE op = "blocks_delete"
  <2>1. Unblocks(s, t)'
    BY <1>1, <1>3, <1>11, MethodLists, UnblockLists DEF Begins, Unblocks, Settled, Agree, Clean, IsBlockedBy, Sends
  <2> QED
    BY <1>5, <2>1 DEF Episode
<1> QED
  BY <1>2, <1>6, <1>7, <1>8, <1>9, <1>10, <1>11

LEMMA InitEpisode == Init => OrderInv
<1> SUFFICES ASSUME Init PROVE \E a \in Servers : Episode(a, Other(a))
  BY DEF OrderInv
<1>1. PICK stage \in [Servers -> {"none", "asked", "accepted"}] :
        /\ follow = [s \in Servers |->
                       IF stage[s] = "none" THEN NoFollow
                       ELSE [id |-> 1, accepted |-> stage[s] = "accepted"]]
        /\ follower = [s \in Servers |->
                         CASE stage[Other(s)] = "none" -> NoFollower
                           [] stage[Other(s)] = "asked" -> [state |-> "pending", of |-> 1]
                           [] stage[Other(s)] = "accepted" -> [state |-> "approved", of |-> 1]]
        /\ blocked = [s \in Servers |-> {}]
        /\ run = [s \in Servers |-> [k \in Slots |-> Idle]]
        /\ jobs = [s \in Servers |-> {}] /\ wire = [s \in Servers |-> {}]
  BY DEF Init
<1>2. PICK a \in Servers : TRUE
  BY TwoServers
<1>3. PICK b : b = Other(a)
  OBVIOUS
<1>4. Pair(a, b) /\ Pair(b, a)
  BY <1>3, PairOf
<1>5. Other(a) = b /\ Other(b) = a
  BY <1>3, <1>4, OtherServer DEF Pair
<1>6. ASSUME NEW x, NEW y, Pair(x, y), Other(y) = x PROVE Agree(x, y)
  <2>1. follow[x] = IF stage[x] = "none" THEN NoFollow ELSE [id |-> 1, accepted |-> stage[x] = "accepted"]
    BY <1>1, <1>6 DEF Pair
  <2>2. follower[y] = CASE stage[x] = "none" -> NoFollower
                        [] stage[x] = "asked" -> [state |-> "pending", of |-> 1]
                        [] stage[x] = "accepted" -> [state |-> "approved", of |-> 1]
    BY <1>1, <1>6 DEF Pair
  <2>3. CASE stage[x] = "none"
    BY <2>1, <2>2, <2>3 DEF Agree, NoFollow, NoFollower
  <2>4. CASE stage[x] = "asked"
    <3>1. follow[x] = [id |-> 1, accepted |-> FALSE] /\ follower[y] = [state |-> "pending", of |-> 1]
      BY <2>1, <2>2, <2>4
    <3>2. follow[x].id = 1 /\ ~follow[x].accepted /\ follower[y].state = "pending"
      BY <3>1
    <3> QED
      BY <3>2 DEF Agree, NoFollow
  <2>5. CASE stage[x] = "accepted"
    <3>1. follow[x] = [id |-> 1, accepted |-> TRUE] /\ follower[y] = [state |-> "approved", of |-> 1]
      BY <2>1, <2>2, <2>5
    <3>2. follow[x].id = 1 /\ follow[x].accepted /\ follower[y].state = "approved"
      BY <3>1
    <3> QED
      BY <3>2 DEF Agree, NoFollow
  <2> QED
    BY <1>1, <1>6, <2>3, <2>4, <2>5 DEF Pair
<1>7. ASSUME NEW x \in Servers
      PROVE  /\ Clean(x) /\ Out(x) = {} /\ Left(x, "api") = <<>> /\ Left(x, "inbox") = <<>>
  BY <1>1 DEF Clean, IsBlockedBy, Out, Left, Idle, Slots
<1>8. Agree(a, b) /\ Agree(b, a) /\ a \in Servers /\ b \in Servers
  BY <1>4, <1>5, <1>6 DEF Pair
<1>9. Unblocks(a, b)
  BY <1>7, <1>8 DEF Unblocks, Sends
<1> QED
  BY <1>3, <1>7, <1>8, <1>9 DEF Episode

\* No statement says that it began in a quiet system.
LEMMA StatementIsNoRequest ==
  ASSUME NEW s, NEW k, Statement(s, k)
  PROVE  orderly' = orderly
<1>1. /\ IsBlocked(s, k) \/ CreateFollow(s, k) \/ GetFollowByTarget(s, k) \/ UpdateFollow(s, k)
           \/ DeleteFollow(s, k) \/ DeleteFollowsByTargetDomain(s, k) => orderly' = orderly
      /\ CreateFollower(s, k) \/ GetFollower(s, k) \/ ApproveFollower(s, k) \/ DeleteFollower(s, k)
           \/ DeleteFollowerByActorURI(s, k) \/ DeleteFollowersByActorDomain(s, k) => orderly' = orderly
  BY DEF IsBlocked, CreateFollow, GetFollowByTarget, UpdateFollow, DeleteFollow, DeleteFollowsByTargetDomain,
         CreateFollower, GetFollower, ApproveFollower, DeleteFollower, DeleteFollowerByActorURI,
         DeleteFollowersByActorDomain, Change, history
<1>2. \A n, m : CreateBlock(s, k, n, m) \/ DeleteBlock(s, k, n, m) => orderly' = orderly
  BY DEF CreateBlock, DeleteBlock, Change
<1>3. RefreshFollowersCount(s, k) \/ RefreshFollowingCount(s, k) \/ CancelByDomain(s, k) => orderly' = orderly
  BY DEF RefreshFollowersCount, RefreshFollowingCount, CancelByDomain, history
<1>4. \A n, x, y : Enqueue(s, k, n, x, y) => orderly' = orderly
  BY DEF Enqueue, history
<1>5. AutoAccept(s, k) => orderly' = orderly
  BY <1>4 DEF AutoAccept, history
<1> QED
  BY <1>1, <1>2, <1>3, <1>4, <1>5 DEF Statement, SendAnswers, SendRequests

\* While every request began in a quiet system, all that is under way belongs to
\* one of them: the rows of the two sides, and what is queued, sent and at work,
\* are those of one episode.
THEOREM OneEpisodeAtATime == Spec => []OrderInv
<1>1. OrderInv /\ GraphInv /\ [Next]_vars => OrderInv'
  <2> SUFFICES ASSUME OrderInv, GraphInv, [Next]_vars, orderly'
               PROVE  \E a \in Servers : Episode(a, Other(a))'
    BY DEF OrderInv
  <2>1. ASSUME orderly
        PROVE  \E a \in Servers : Episode(a, Other(a)) /\ Pair(a, Other(a))
    BY <2>1, PairOf DEF OrderInv
  <2>2. ASSUME NEW s \in Servers, NEW k \in Slots, Statement(s, k)
        PROVE  \E a \in Servers : Episode(a, Other(a))'
    BY <2>1, <2>2, StatementIsNoRequest, EpisodeGoesOn
  <2>3. ASSUME NEW s \in Servers, NEW op \in Ops, Call(s, op)
        PROVE  \E a \in Servers : Episode(a, Other(a))'
    <3>1. orderly /\ Quiet
      BY <2>3 DEF Call
    <3>2. PICK a \in Servers : Episode(a, Other(a)) /\ Pair(a, Other(a))
      BY <2>1, <3>1
    <3>3. Settled(a, Other(a))
      BY <3>1, <3>2, EpisodeSettles
    <3>4. Settled(s, Other(s)) /\ Pair(s, Other(s))
      BY <3>2, <3>3, PairOf DEF Settled, Pair
    <3> QED
      BY <2>3, <3>1, <3>4, EpisodeBegins
  <2>4. ASSUME NEW s \in Servers, NEW j \in jobs[s], Execute(s, j)
        PROVE  \E a \in Servers : Episode(a, Other(a))'
    <3>1. orderly
      BY <2>4 DEF Execute, HandleSendFollow, HandleSendUndoFollow, HandleAcceptFollow, HandleRejectFollow,
                  HandleSendBlock, HandleSendUndoBlock, Send, history
    <3> QED
      BY <2>1, <2>4, <3>1, SendWaits
  <2>5. ASSUME NEW s \in Servers, NEW j \in jobs[s], GiveUp(s, j)
        PROVE  \E a \in Servers : Episode(a, Other(a))'
    <3>1. orderly
      BY <2>5 DEF GiveUp
    <3> QED
      BY <2>1, <2>5, <3>1, GivesUp
  <2>6. ASSUME NEW s \in Servers, NEW j \in wire[s], Receive(s, j)
        PROVE  \E a \in Servers : Episode(a, Other(a))'
    <3>1. orderly
      BY <2>6 DEF Receive, history
    <3> QED
      BY <2>1, <2>6, <3>1, EpisodeReceives
  <2>7. CASE UNCHANGED vars
    <3>1. PICK a \in Servers : Episode(a, Other(a)) /\ Pair(a, Other(a))
      BY <2>1, <2>7 DEF vars
    <3>2. \A x : Out(x)' = Out(x)
      BY <2>7 DEF vars, Out
    <3>3. /\ follow' = follow /\ follower' = follower /\ blocked' = blocked
          /\ locked' = locked /\ run' = run
      BY <2>7 DEF vars, tables
    <3>4. Episode(a, Other(a))'
      BY <3>1, <3>2, <3>3, EpisodeWaits
    <3> QED
      BY <3>4
  <2> QED
    BY <2>2, <2>3, <2>4, <2>5, <2>6, <2>7 DEF Next
<1> QED
  BY <1>1, InitEpisode, GraphInvariant, PTL DEF Spec

\* Once all is quiet, whoever is approved as a follower knows it and whoever is
\* listed as one wants to be, however often deliveries were repeated and
\* whatever order they came in.
THEOREM TheSidesAgree == Spec => []SidesAgree
<1>1. OrderInv => SidesAgree
  <2> SUFFICES ASSUME OrderInv, orderly, Quiet, NEW s \in Servers
               PROVE  Agree(s, Other(s))
    BY DEF SidesAgree, Agree
  <2>1. PICK a \in Servers : Episode(a, Other(a)) /\ Pair(a, Other(a))
    BY PairOf DEF OrderInv
  <2>2. Settled(a, Other(a))
    BY <2>1, EpisodeSettles
  <2>3. \/ s = a
        \/ s = Other(a) /\ Other(s) = a
    BY <2>1, OtherServer DEF Pair
  <2> QED
    BY <2>2, <2>3 DEF Settled
<1> QED
  BY <1>1, OneEpisodeAtATime, PTL

=============================================================================
