----------------------------- MODULE PostsProofs -----------------------------
(***************************************************************************)
(* Proofs about module Posts, for any number of requests and edits and any *)
(* of the methods.                                                         *)
(***************************************************************************)
EXTENDS Posts, FiniteSetTheorems, SequenceTheorems, TLAPS

\* The statements, and the operations whose lists have them.
Users ==
  [GetPost |-> {"posts_update", "posts_delete", "posts_pin", "favourites_create",
                "favourites_delete", "reblogs_create", "reblogs_delete", "Like", "UndoLike",
                "Announce", "UndoAnnounce", "Update", "Delete", "deliver_post"},
   CreatePost |-> {"posts_create"}, UpdatePost |-> {"posts_update"},
   DeletePost |-> {"posts_delete", "Delete"}, PinPost |-> {"posts_pin"},
   UnpinPost |-> {"posts_delete", "posts_unpin"},
   RefreshPostCount |-> {"posts_create", "posts_delete", "reblogs_create", "reblogs_delete"},
   CreateFavourite |-> {"favourites_create", "Like"},
   DeleteFavourite |-> {"favourites_delete", "UndoLike"},
   CreateReblog |-> {"reblogs_create", "Announce"},
   DeleteReblog |-> {"reblogs_delete", "UndoAnnounce"},
   CreateWrapper |-> {"reblogs_create"}, CreateRemoteWrapper |-> {"Announce"},
   DeleteReblogPost |-> {"reblogs_delete"}, Notify |-> {"Like", "Announce", "Create"},
   DeleteNotification |-> {"UndoLike", "UndoAnnounce"}, FetchNote |-> {"Announce"},
   StoreNote |-> {"Announce", "Create"}, UpdateNote |-> {"Update"},
   EnqueueMentioned |-> {"deliver_post"}, UpdatePostMentions |-> {"deliver_post"},
   Fanout |-> {"deliver_post"}, EnqueueDeliverPost |-> {"posts_create"},
   EnqueueUpdatePost |-> {"posts_update"}, EnqueueDeliverDelete |-> {"posts_delete"},
   EnqueueSendLike |-> {"favourites_create"}, EnqueueSendUndoLike |-> {"favourites_delete"},
   EnqueueSendAnnounce |-> {"reblogs_create"}, EnqueueSendUndoAnnounce |-> {"reblogs_delete"}]

Statements == DOMAIN Users

\* What the reader tells the author.
Answers == {"Like", "UndoLike", "Announce", "UndoAnnounce"}

Jobs(s) == IF s = Author THEN JobTypes ELSE Answers

\* The operations of a slot.
OpsAt(s, k) ==
  {"none"} \cup
  CASE k = "api" -> IF s = Author THEN DOMAIN Methods ELSE Interactions
    [] k = "inbox" -> IF s = Author THEN Answers ELSE Activities
    [] k = "worker" -> {x \in {"deliver_post"} : s = Author}

-----------------------------------------------------------------------------
(* Lists of statements.                                                    *)

EachThen(t, X, y) == \A i \in 1..Len(t) : t[i] \in X => i + 1 \in 1..Len(t) /\ t[i + 1] = y

EachAfter(t, X, Y) == \A i \in 1..Len(t) : t[i] \in X /\ i # 1 => t[i - 1] \in Y

\* The statements of Posts after which a counter is to be refreshed.
Counted(op) ==
  {"CreatePost", "CreateWrapper", "DeleteReblogPost"} \cup {x \in {"DeletePost"} : op = "posts_delete"}

\* Which statement follows, or comes before, which.
GoodOrder(op, t) ==
  /\ EachThen(t, Counted(op), "RefreshPostCount")
  /\ op = "reblogs_create" => EachThen(t, {"CreateReblog"}, "CreateWrapper")
  /\ op = "reblogs_delete" => EachThen(t, {"DeleteReblog"}, "DeleteReblogPost")
  /\ op = "UndoLike" => EachThen(t, {"DeleteFavourite"}, "DeleteNotification")
  /\ op = "UndoAnnounce" => EachThen(t, {"DeleteReblog"}, "DeleteNotification")
  /\ EachAfter(t, {"CreatePost"}, {}) /\ EachAfter(t, {"PinPost"}, {"GetPost"})
  /\ op = "posts_delete" => EachAfter(t, {"DeletePost"}, {"UnpinPost"})
  /\ EachAfter(t, {"CreateWrapper"}, {"CreateReblog"})
  /\ EachAfter(t, {"DeleteReblogPost"}, {"DeleteReblog"})
  /\ op = "Like" => EachAfter(t, {"Notify"}, {"CreateFavourite"})
  /\ op = "Announce" => EachAfter(t, {"Notify"}, {"CreateReblog", "StoreNote"})
  /\ EachAfter(t, {"StoreNote"}, {"FetchNote"})
  /\ EachAfter(t, {"EnqueueMentioned"}, {"GetPost"})
  /\ EachAfter(t, {"UpdatePostMentions"}, {"EnqueueMentioned"})

\* What is left of the lists of Posts.
Good(op, t) ==
  /\ t \in Seq(Statements) /\ \A i \in 1..Len(t) : op \in Users[t[i]]
  /\ GoodOrder(op, t)

\* An Announce of the author's own post needs no fetching.
Lacks(t, X) == \A i \in 1..Len(t) : t[i] \notin X

-----------------------------------------------------------------------------
(* The invariant.                                                          *)

Wrapper == [local : 0..1, remote : BOOLEAN]

Rows == Row \cup {NoPost}

AllOps == {"none", "deliver_post"} \cup DOMAIN Methods \cup Activities

Requests == [op : AllOps, todo : Seq(Statements), read : Rows, new : Rows]

Here(r, X) == r.todo # <<>> /\ Head(r.todo) \in X

\* A request has what its statements need.
RequestOK(s, k, r) ==
  /\ r \in Requests /\ r.op \in OpsAt(s, k) /\ Good(r.op, r.todo)
  /\ r.todo = <<>> => r = Idle
  /\ s = Author => Lacks(r.todo, {"StoreNote"})
  /\ r.op \in {"posts_create", "posts_update", "Create"} => r.new \in Row
  /\ r.op = "posts_update" => r.new.text > 0
  /\ Here(r, {"StoreNote"}) => r.new \in Row
  /\ Here(r, {"EnqueueMentioned", "UpdatePostMentions"}) => r.read \in Row

RowsOK ==
  /\ post \in [Servers -> Rows]
  /\ favourite \in [Servers -> SUBSET Servers] /\ reblog \in [Servers -> SUBSET Servers]
  /\ wrapper \in [Servers -> Wrapper] /\ notice \in [Servers -> SUBSET Notices]
  /\ pinned \in [Servers -> BOOLEAN] /\ postCount \in [Servers -> 0..2]
  /\ ops \in 0..MaxOps /\ created \in BOOLEAN /\ refused \in BOOLEAN /\ smooth \in BOOLEAN

QueuesOK ==
  /\ jobs \in [Servers -> Seq(JobTypes)] /\ wire \in [Servers -> SUBSET Activity]
  /\ \A s \in Servers : jobs[s] \in Seq(Jobs(s)) /\ wire[s] \subseteq {a \in Activity : a.type \in Jobs(s)}

RunsOK ==
  /\ run \in [Servers -> [Slots -> Requests]]
  /\ \A s \in Servers, k \in Slots : RequestOK(s, k, run[s][k])

\* With r the API request of s: the counter is right or about to be; the own
\* reblog has its wrapper but for between the statements about the two; what is
\* about to be pinned is public, and what is about to be deleted is not pinned.
ApiOK(s, r) ==
  /\ postCount[s] = LocalPosts(s) \/ Here(r, {"RefreshPostCount"})
  /\ Here(r, {"CreateWrapper"}) => s \in reblog[s] /\ wrapper[s].local = 0
  /\ Here(r, {"DeleteReblogPost"}) => s \notin reblog[s]
  /\ ~Here(r, {"CreateWrapper", "DeleteReblogPost"}) =>
       wrapper[s].local = IF s \in reblog[s] THEN 1 ELSE 0
  /\ Here(r, {"PinPost"}) => post[s].vis = "public"
  /\ Here(r, {"DeletePost"}) => ~pinned[s]
  /\ Here(r, {"CreatePost"}) => ~created

\* The rows that reference the post.
RowOK(s) ==
  /\ reblog[s] # {} => post[s] # NoPost
  /\ pinned[s] => s = Author /\ post[s] # NoPost /\ (post[s].vis = "public" \/ post[s].text > 0)

\* With r the request in the inbox of the author: a notification has its reason
\* or is about to go.
InboxOK(r) ==
  post[Author] # NoPost =>
    /\ "favourite" \in notice[Author] =>
         Reader \in favourite[Author] \/ (Here(r, {"DeleteNotification"}) /\ r.op = "UndoLike")
    /\ "reblog" \in notice[Author] =>
         Reader \in reblog[Author] \/ (Here(r, {"DeleteNotification"}) /\ r.op = "UndoAnnounce")
    /\ Here(r, {"Notify"}) /\ r.op = "Like" => Reader \in favourite[Author]
    /\ Here(r, {"Notify"}) /\ r.op = "Announce" => Reader \in reblog[Author]

\* Before there is a post there is nothing.
FreshOK ==
  ~created =>
    /\ \A s \in Servers : post[s] = NoPost /\ jobs[s] = <<>> /\ wire[s] = {}
    /\ notice[Author] = {}
    /\ \A s \in Servers, k \in Slots :
         run[s][k] # Idle => s = Author /\ k = "api" /\ Here(run[s][k], {"CreatePost"})

PostsInv ==
  /\ RowsOK /\ QueuesOK /\ RunsOK /\ FreshOK /\ InboxOK(run[Author]["inbox"])
  /\ \A s \in Servers : ApiOK(s, run[s]["api"]) /\ RowOK(s)

LEMMA UsersAre ==
  /\ Users["GetPost"] = {"posts_update", "posts_delete", "posts_pin", "favourites_create", "favourites_delete", "reblogs_create", "reblogs_delete", "Like", "UndoLike", "Announce", "UndoAnnounce", "Update", "Delete", "deliver_post"}
  /\ Users["CreatePost"] = {"posts_create"}
  /\ Users["UpdatePost"] = {"posts_update"}
  /\ Users["DeletePost"] = {"posts_delete", "Delete"}
  /\ Users["PinPost"] = {"posts_pin"}
  /\ Users["UnpinPost"] = {"posts_delete", "posts_unpin"}
  /\ Users["RefreshPostCount"] = {"posts_create", "posts_delete", "reblogs_create", "reblogs_delete"}
  /\ Users["CreateFavourite"] = {"favourites_create", "Like"}
  /\ Users["DeleteFavourite"] = {"favourites_delete", "UndoLike"}
  /\ Users["CreateReblog"] = {"reblogs_create", "Announce"}
  /\ Users["DeleteReblog"] = {"reblogs_delete", "UndoAnnounce"}
  /\ Users["CreateWrapper"] = {"reblogs_create"}
  /\ Users["CreateRemoteWrapper"] = {"Announce"}
  /\ Users["DeleteReblogPost"] = {"reblogs_delete"}
  /\ Users["Notify"] = {"Like", "Announce", "Create"}
  /\ Users["DeleteNotification"] = {"UndoLike", "UndoAnnounce"}
  /\ Users["FetchNote"] = {"Announce"}
  /\ Users["StoreNote"] = {"Announce", "Create"}
  /\ Users["UpdateNote"] = {"Update"}
  /\ Users["EnqueueMentioned"] = {"deliver_post"}
  /\ Users["UpdatePostMentions"] = {"deliver_post"}
  /\ Users["Fanout"] = {"deliver_post"}
  /\ Users["EnqueueDeliverPost"] = {"posts_create"}
  /\ Users["EnqueueUpdatePost"] = {"posts_update"}
  /\ Users["EnqueueDeliverDelete"] = {"posts_delete"}
  /\ Users["EnqueueSendLike"] = {"favourites_create"}
  /\ Users["EnqueueSendUndoLike"] = {"favourites_delete"}
  /\ Users["EnqueueSendAnnounce"] = {"reblogs_create"}
  /\ Users["EnqueueSendUndoAnnounce"] = {"reblogs_delete"}
BY DEF Users

LEMMA StatementsAre ==
  Statements =
    {"GetPost", "CreatePost", "UpdatePost", "DeletePost", "PinPost", "UnpinPost", "RefreshPostCount", "CreateFavourite", "DeleteFavourite", "CreateReblog", "DeleteReblog", "CreateWrapper", "CreateRemoteWrapper", "DeleteReblogPost", "Notify", "DeleteNotification", "FetchNote", "StoreNote", "UpdateNote", "EnqueueMentioned", "UpdatePostMentions", "Fanout", "EnqueueDeliverPost", "EnqueueUpdatePost", "EnqueueDeliverDelete", "EnqueueSendLike", "EnqueueSendUndoLike", "EnqueueSendAnnounce", "EnqueueSendUndoAnnounce"}
BY DEF Statements, Users

\* The lists as they are.
LEMMA PostsCreateIsGood == Good("posts_create", PostsCreate) /\ Lacks(PostsCreate, {"StoreNote"})
<1> PICK t : t = PostsCreate
  OBVIOUS
<1>1. t \in Seq(Statements) /\ Len(t) = 3 /\ 1..Len(t) = {1, 2, 3}
  BY StatementsAre DEF PostsCreate
<1>2. t[1] = "CreatePost" /\ t[2] = "RefreshPostCount" /\ t[3] = "EnqueueDeliverPost"
  BY DEF PostsCreate
<1>3. \A i \in 1..Len(t) : "posts_create" \in Users[t[i]]
  BY <1>1, <1>2, UsersAre
<1>4. GoodOrder("posts_create", t)
  BY <1>1, <1>2 DEF GoodOrder, EachThen, EachAfter, Counted
<1> QED
  BY <1>1, <1>2, <1>3, <1>4 DEF Good, Lacks

LEMMA PostsUpdateIsGood == Good("posts_update", PostsUpdate) /\ Lacks(PostsUpdate, {"StoreNote"})
<1> PICK t : t = PostsUpdate
  OBVIOUS
<1>1. t \in Seq(Statements) /\ Len(t) = 3 /\ 1..Len(t) = {1, 2, 3}
  BY StatementsAre DEF PostsUpdate
<1>2. t[1] = "GetPost" /\ t[2] = "UpdatePost" /\ t[3] = "EnqueueUpdatePost"
  BY DEF PostsUpdate
<1>3. \A i \in 1..Len(t) : "posts_update" \in Users[t[i]]
  BY <1>1, <1>2, UsersAre
<1>4. GoodOrder("posts_update", t)
  BY <1>1, <1>2 DEF GoodOrder, EachThen, EachAfter, Counted
<1> QED
  BY <1>1, <1>2, <1>3, <1>4 DEF Good, Lacks

LEMMA PostsDeleteIsGood == Good("posts_delete", PostsDelete) /\ Lacks(PostsDelete, {"StoreNote"})
<1> PICK t : t = PostsDelete
  OBVIOUS
<1>1. t \in Seq(Statements) /\ Len(t) = 5 /\ 1..Len(t) = {1, 2, 3, 4, 5}
  BY StatementsAre DEF PostsDelete
<1>2. t[1] = "GetPost" /\ t[2] = "UnpinPost" /\ t[3] = "DeletePost" /\ t[4] = "RefreshPostCount" /\ t[5] = "EnqueueDeliverDelete"
  BY DEF PostsDelete
<1>3. \A i \in 1..Len(t) : "posts_delete" \in Users[t[i]]
  BY <1>1, <1>2, UsersAre
<1>4. GoodOrder("posts_delete", t)
  BY <1>1, <1>2 DEF GoodOrder, EachThen, EachAfter, Counted
<1> QED
  BY <1>1, <1>2, <1>3, <1>4 DEF Good, Lacks

LEMMA PostsPinIsGood == Good("posts_pin", PostsPin) /\ Lacks(PostsPin, {"StoreNote"})
<1> PICK t : t = PostsPin
  OBVIOUS
<1>1. t \in Seq(Statements) /\ Len(t) = 2 /\ 1..Len(t) = {1, 2}
  BY StatementsAre DEF PostsPin
<1>2. t[1] = "GetPost" /\ t[2] = "PinPost"
  BY DEF PostsPin
<1>3. \A i \in 1..Len(t) : "posts_pin" \in Users[t[i]]
  BY <1>1, <1>2, UsersAre
<1>4. GoodOrder("posts_pin", t)
  BY <1>1, <1>2 DEF GoodOrder, EachThen, EachAfter, Counted
<1> QED
  BY <1>1, <1>2, <1>3, <1>4 DEF Good, Lacks

LEMMA PostsUnpinIsGood == Good("posts_unpin", PostsUnpin) /\ Lacks(PostsUnpin, {"StoreNote"})
<1> PICK t : t = PostsUnpin
  OBVIOUS
<1>1. t \in Seq(Statements) /\ Len(t) = 1 /\ 1..Len(t) = {1}
  BY StatementsAre DEF PostsUnpin
<1>2. t[1] = "UnpinPost"
  BY DEF PostsUnpin
<1>3. \A i \in 1..Len(t) : "posts_unpin" \in Users[t[i]]
  BY <1>1, <1>2, UsersAre
<1>4. GoodOrder("posts_unpin", t)
  BY <1>1, <1>2 DEF GoodOrder, EachThen, EachAfter, Counted
<1> QED
  BY <1>1, <1>2, <1>3, <1>4 DEF Good, Lacks

LEMMA FavouritesCreateIsGood == Good("favourites_create", FavouritesCreate) /\ Lacks(FavouritesCreate, {"StoreNote"})
<1> PICK t : t = FavouritesCreate
  OBVIOUS
<1>1. t \in Seq(Statements) /\ Len(t) = 3 /\ 1..Len(t) = {1, 2, 3}
  BY StatementsAre DEF FavouritesCreate
<1>2. t[1] = "GetPost" /\ t[2] = "CreateFavourite" /\ t[3] = "EnqueueSendLike"
  BY DEF FavouritesCreate
<1>3. \A i \in 1..Len(t) : "favourites_create" \in Users[t[i]]
  BY <1>1, <1>2, UsersAre
<1>4. GoodOrder("favourites_create", t)
  BY <1>1, <1>2 DEF GoodOrder, EachThen, EachAfter, Counted
<1> QED
  BY <1>1, <1>2, <1>3, <1>4 DEF Good, Lacks

LEMMA FavouritesDeleteIsGood == Good("favourites_delete", FavouritesDelete) /\ Lacks(FavouritesDelete, {"StoreNote"})
<1> PICK t : t = FavouritesDelete
  OBVIOUS
<1>1. t \in Seq(Statements) /\ Len(t) = 3 /\ 1..Len(t) = {1, 2, 3}
  BY StatementsAre DEF FavouritesDelete
<1>2. t[1] = "GetPost" /\ t[2] = "DeleteFavourite" /\ t[3] = "EnqueueSendUndoLike"
  BY DEF FavouritesDelete
<1>3. \A i \in 1..Len(t) : "favourites_delete" \in Users[t[i]]
  BY <1>1, <1>2, UsersAre
<1>4. GoodOrder("favourites_delete", t)
  BY <1>1, <1>2 DEF GoodOrder, EachThen, EachAfter, Counted
<1> QED
  BY <1>1, <1>2, <1>3, <1>4 DEF Good, Lacks

LEMMA ReblogsCreateIsGood == Good("reblogs_create", ReblogsCreate) /\ Lacks(ReblogsCreate, {"StoreNote"})
<1> PICK t : t = ReblogsCreate
  OBVIOUS
<1>1. t \in Seq(Statements) /\ Len(t) = 5 /\ 1..Len(t) = {1, 2, 3, 4, 5}
  BY StatementsAre DEF ReblogsCreate
<1>2. t[1] = "GetPost" /\ t[2] = "CreateReblog" /\ t[3] = "CreateWrapper" /\ t[4] = "RefreshPostCount" /\ t[5] = "EnqueueSendAnnounce"
  BY DEF ReblogsCreate
<1>3. \A i \in 1..Len(t) : "reblogs_create" \in Users[t[i]]
  BY <1>1, <1>2, UsersAre
<1>4. GoodOrder("reblogs_create", t)
  BY <1>1, <1>2 DEF GoodOrder, EachThen, EachAfter, Counted
<1> QED
  BY <1>1, <1>2, <1>3, <1>4 DEF Good, Lacks

LEMMA ReblogsDeleteIsGood == Good("reblogs_delete", ReblogsDelete) /\ Lacks(ReblogsDelete, {"StoreNote"})
<1> PICK t : t = ReblogsDelete
  OBVIOUS
<1>1. t \in Seq(Statements) /\ Len(t) = 5 /\ 1..Len(t) = {1, 2, 3, 4, 5}
  BY StatementsAre DEF ReblogsDelete
<1>2. t[1] = "GetPost" /\ t[2] = "DeleteReblog" /\ t[3] = "DeleteReblogPost" /\ t[4] = "RefreshPostCount" /\ t[5] = "EnqueueSendUndoAnnounce"
  BY DEF ReblogsDelete
<1>3. \A i \in 1..Len(t) : "reblogs_delete" \in Users[t[i]]
  BY <1>1, <1>2, UsersAre
<1>4. GoodOrder("reblogs_delete", t)
  BY <1>1, <1>2 DEF GoodOrder, EachThen, EachAfter, Counted
<1> QED
  BY <1>1, <1>2, <1>3, <1>4 DEF Good, Lacks

LEMMA InboxLikeIsGood == Good("Like", InboxLike) /\ Lacks(InboxLike, {"StoreNote"})
<1> PICK t : t = InboxLike
  OBVIOUS
<1>1. t \in Seq(Statements) /\ Len(t) = 3 /\ 1..Len(t) = {1, 2, 3}
  BY StatementsAre DEF InboxLike
<1>2. t[1] = "GetPost" /\ t[2] = "CreateFavourite" /\ t[3] = "Notify"
  BY DEF InboxLike
<1>3. \A i \in 1..Len(t) : "Like" \in Users[t[i]]
  BY <1>1, <1>2, UsersAre
<1>4. GoodOrder("Like", t)
  BY <1>1, <1>2 DEF GoodOrder, EachThen, EachAfter, Counted
<1> QED
  BY <1>1, <1>2, <1>3, <1>4 DEF Good, Lacks

LEMMA InboxUndoLikeIsGood == Good("UndoLike", InboxUndoLike) /\ Lacks(InboxUndoLike, {"StoreNote"})
<1> PICK t : t = InboxUndoLike
  OBVIOUS
<1>1. t \in Seq(Statements) /\ Len(t) = 3 /\ 1..Len(t) = {1, 2, 3}
  BY StatementsAre DEF InboxUndoLike
<1>2. t[1] = "GetPost" /\ t[2] = "DeleteFavourite" /\ t[3] = "DeleteNotification"
  BY DEF InboxUndoLike
<1>3. \A i \in 1..Len(t) : "UndoLike" \in Users[t[i]]
  BY <1>1, <1>2, UsersAre
<1>4. GoodOrder("UndoLike", t)
  BY <1>1, <1>2 DEF GoodOrder, EachThen, EachAfter, Counted
<1> QED
  BY <1>1, <1>2, <1>3, <1>4 DEF Good, Lacks

LEMMA InboxCreateIsGood == Good("Create", InboxCreate)
<1> PICK t : t = InboxCreate
  OBVIOUS
<1>1. t \in Seq(Statements) /\ Len(t) = 2 /\ 1..Len(t) = {1, 2}
  BY StatementsAre DEF InboxCreate
<1>2. t[1] = "StoreNote" /\ t[2] = "Notify"
  BY DEF InboxCreate
<1>3. \A i \in 1..Len(t) : "Create" \in Users[t[i]]
  BY <1>1, <1>2, UsersAre
<1>4. GoodOrder("Create", t)
  BY <1>1, <1>2 DEF GoodOrder, EachThen, EachAfter, Counted
<1> QED
  BY <1>1, <1>2, <1>3, <1>4 DEF Good, Lacks

LEMMA InboxUpdateIsGood == Good("Update", InboxUpdate) /\ Lacks(InboxUpdate, {"StoreNote"})
<1> PICK t : t = InboxUpdate
  OBVIOUS
<1>1. t \in Seq(Statements) /\ Len(t) = 2 /\ 1..Len(t) = {1, 2}
  BY StatementsAre DEF InboxUpdate
<1>2. t[1] = "GetPost" /\ t[2] = "UpdateNote"
  BY DEF InboxUpdate
<1>3. \A i \in 1..Len(t) : "Update" \in Users[t[i]]
  BY <1>1, <1>2, UsersAre
<1>4. GoodOrder("Update", t)
  BY <1>1, <1>2 DEF GoodOrder, EachThen, EachAfter, Counted
<1> QED
  BY <1>1, <1>2, <1>3, <1>4 DEF Good, Lacks

LEMMA InboxDeleteIsGood == Good("Delete", InboxDelete) /\ Lacks(InboxDelete, {"StoreNote"})
<1> PICK t : t = InboxDelete
  OBVIOUS
<1>1. t \in Seq(Statements) /\ Len(t) = 2 /\ 1..Len(t) = {1, 2}
  BY StatementsAre DEF InboxDelete
<1>2. t[1] = "GetPost" /\ t[2] = "DeletePost"
  BY DEF InboxDelete
<1>3. \A i \in 1..Len(t) : "Delete" \in Users[t[i]]
  BY <1>1, <1>2, UsersAre
<1>4. GoodOrder("Delete", t)
  BY <1>1, <1>2 DEF GoodOrder, EachThen, EachAfter, Counted
<1> QED
  BY <1>1, <1>2, <1>3, <1>4 DEF Good, Lacks

LEMMA DeliverPostIsGood == Good("deliver_post", DeliverPost) /\ Lacks(DeliverPost, {"StoreNote"})
<1> PICK t : t = DeliverPost
  OBVIOUS
<1>1. t \in Seq(Statements) /\ Len(t) = 4 /\ 1..Len(t) = {1, 2, 3, 4}
  BY StatementsAre DEF DeliverPost
<1>2. t[1] = "GetPost" /\ t[2] = "EnqueueMentioned" /\ t[3] = "UpdatePostMentions" /\ t[4] = "Fanout"
  BY DEF DeliverPost
<1>3. \A i \in 1..Len(t) : "deliver_post" \in Users[t[i]]
  BY <1>1, <1>2, UsersAre
<1>4. GoodOrder("deliver_post", t)
  BY <1>1, <1>2 DEF GoodOrder, EachThen, EachAfter, Counted
<1> QED
  BY <1>1, <1>2, <1>3, <1>4 DEF Good, Lacks

LEMMA BoostIsGood == Good("Announce", <<"GetPost", "CreateReblog", "Notify">>) /\ Lacks(<<"GetPost", "CreateReblog", "Notify">>, {"StoreNote"})
<1> PICK t : t = <<"GetPost", "CreateReblog", "Notify">>
  OBVIOUS
<1>1. t \in Seq(Statements) /\ Len(t) = 3 /\ 1..Len(t) = {1, 2, 3}
  BY StatementsAre
<1>2. t[1] = "GetPost" /\ t[2] = "CreateReblog" /\ t[3] = "Notify"
  OBVIOUS
<1>3. \A i \in 1..Len(t) : "Announce" \in Users[t[i]]
  BY <1>1, <1>2, UsersAre
<1>4. GoodOrder("Announce", t)
  BY <1>1, <1>2 DEF GoodOrder, EachThen, EachAfter, Counted
<1> QED
  BY <1>1, <1>2, <1>3, <1>4 DEF Good, Lacks

LEMMA RepeatIsGood == Good("Announce", <<"CreateRemoteWrapper">>) /\ Lacks(<<"CreateRemoteWrapper">>, {"StoreNote"})
<1> PICK t : t = <<"CreateRemoteWrapper">>
  OBVIOUS
<1>1. t \in Seq(Statements) /\ Len(t) = 1 /\ 1..Len(t) = {1}
  BY StatementsAre
<1>2. t[1] = "CreateRemoteWrapper"
  OBVIOUS
<1>3. \A i \in 1..Len(t) : "Announce" \in Users[t[i]]
  BY <1>1, <1>2, UsersAre
<1>4. GoodOrder("Announce", t)
  BY <1>1, <1>2 DEF GoodOrder, EachThen, EachAfter, Counted
<1> QED
  BY <1>1, <1>2, <1>3, <1>4 DEF Good, Lacks

LEMMA FetchIsGood == Good("Announce", <<"FetchNote", "StoreNote", "Notify">>)
<1> PICK t : t = <<"FetchNote", "StoreNote", "Notify">>
  OBVIOUS
<1>1. t \in Seq(Statements) /\ Len(t) = 3 /\ 1..Len(t) = {1, 2, 3}
  BY StatementsAre
<1>2. t[1] = "FetchNote" /\ t[2] = "StoreNote" /\ t[3] = "Notify"
  OBVIOUS
<1>3. \A i \in 1..Len(t) : "Announce" \in Users[t[i]]
  BY <1>1, <1>2, UsersAre
<1>4. GoodOrder("Announce", t)
  BY <1>1, <1>2 DEF GoodOrder, EachThen, EachAfter, Counted
<1> QED
  BY <1>1, <1>2, <1>3, <1>4 DEF Good, Lacks

LEMMA UnboostIsGood == Good("UndoAnnounce", <<"GetPost", "DeleteReblog", "DeleteNotification">>) /\ Lacks(<<"GetPost", "DeleteReblog", "DeleteNotification">>, {"StoreNote"})
<1> PICK t : t = <<"GetPost", "DeleteReblog", "DeleteNotification">>
  OBVIOUS
<1>1. t \in Seq(Statements) /\ Len(t) = 3 /\ 1..Len(t) = {1, 2, 3}
  BY StatementsAre
<1>2. t[1] = "GetPost" /\ t[2] = "DeleteReblog" /\ t[3] = "DeleteNotification"
  OBVIOUS
<1>3. \A i \in 1..Len(t) : "UndoAnnounce" \in Users[t[i]]
  BY <1>1, <1>2, UsersAre
<1>4. GoodOrder("UndoAnnounce", t)
  BY <1>1, <1>2 DEF GoodOrder, EachThen, EachAfter, Counted
<1> QED
  BY <1>1, <1>2, <1>3, <1>4 DEF Good, Lacks

LEMMA LastIsGood == Good("deliver_post", <<"Fanout">>) /\ Lacks(<<"Fanout">>, {"StoreNote"})
<1> PICK t : t = <<"Fanout">>
  OBVIOUS
<1>1. t \in Seq(Statements) /\ Len(t) = 1 /\ 1..Len(t) = {1}
  BY StatementsAre
<1>2. t[1] = "Fanout"
  OBVIOUS
<1>3. \A i \in 1..Len(t) : "deliver_post" \in Users[t[i]]
  BY <1>1, <1>2, UsersAre
<1>4. GoodOrder("deliver_post", t)
  BY <1>1, <1>2 DEF GoodOrder, EachThen, EachAfter, Counted
<1> QED
  BY <1>1, <1>2, <1>3, <1>4 DEF Good, Lacks
-----------------------------------------------------------------------------
(* What a request is after a statement.                                    *)

LEMMA Shifted ==
  ASSUME NEW t \in Seq(Statements), t # <<>>
  PROVE  /\ Tail(t) \in Seq(Statements) /\ Head(t) = t[1] /\ Len(t) \in Nat \ {0}
         /\ Len(Tail(t)) = Len(t) - 1
         /\ \A i \in 1..Len(Tail(t)) : Tail(t)[i] = t[i + 1] /\ i + 1 \in 1..Len(t)
OBVIOUS

LEMMA NotEmpty ==
  ASSUME NEW t \in Seq(Statements)
  PROVE  /\ t # <<>> <=> 1 \in 1..Len(t)
         /\ t # <<>> => Head(t) = t[1]
<1>1. t = <<>> => Len(t) = 0
  BY EmptySeq
<1>2. t # <<>> => Len(t) \in Nat \ {0} /\ Head(t) = t[1]
  BY EmptySeq
<1> QED
  BY <1>1, <1>2

LEMMA TailLacks ==
  ASSUME NEW t \in Seq(Statements), t # <<>>, NEW X, Lacks(t, X)
  PROVE  Lacks(Tail(t), X) /\ Head(t) \notin X
<1>1. 1 \in 1..Len(t)
  BY Shifted
<1> QED
  BY <1>1, Shifted DEF Lacks

LEMMA TailThen ==
  ASSUME NEW t \in Seq(Statements), t # <<>>, NEW X, NEW y, EachThen(t, X, y)
  PROVE  EachThen(Tail(t), X, y) /\ (Head(t) \in X => Tail(t) # <<>> /\ Head(Tail(t)) = y)
<1> PICK u : u = Tail(t)
  OBVIOUS
<1>1. /\ u \in Seq(Statements) /\ Head(t) = t[1] /\ Len(t) \in Nat \ {0} /\ Len(u) = Len(t) - 1
      /\ \A i \in 1..Len(u) : u[i] = t[i + 1] /\ i + 1 \in 1..Len(t)
  BY Shifted
<1>2. EachThen(u, X, y)
  <2> SUFFICES ASSUME NEW i \in 1..Len(u), u[i] \in X PROVE i + 1 \in 1..Len(u) /\ u[i + 1] = y
    BY DEF EachThen
  <2>1. t[i + 1] \in X /\ i + 1 \in 1..Len(t)
    BY <1>1
  <2>2. i + 2 \in 1..Len(t) /\ t[i + 2] = y
    BY <2>1 DEF EachThen
  <2>3. i + 1 \in 1..Len(u)
    BY <1>1, <2>2
  <2> QED
    BY <1>1, <2>2, <2>3
<1>3. ASSUME Head(t) \in X PROVE u # <<>> /\ Head(u) = y
  <2>1. 1 \in 1..Len(t) /\ t[1] \in X
    BY <1>1, <1>3
  <2>2. 2 \in 1..Len(t) /\ t[1 + 1] = y
    BY <2>1 DEF EachThen
  <2>3. 1 \in 1..Len(u) /\ u[1] = t[1 + 1]
    BY <1>1, <2>2
  <2>4. u # <<>> /\ Head(u) = u[1]
    BY <1>1, <2>3, NotEmpty
  <2> QED
    BY <2>2, <2>3, <2>4
<1> QED
  BY <1>2, <1>3

LEMMA TailAfter ==
  ASSUME NEW t \in Seq(Statements), t # <<>>, NEW X, NEW Y, EachAfter(t, X, Y)
  PROVE  /\ EachAfter(Tail(t), X, Y)
         /\ Tail(t) # <<>> /\ Head(Tail(t)) \in X => Head(t) \in Y
<1> PICK u : u = Tail(t)
  OBVIOUS
<1>1. /\ u \in Seq(Statements) /\ Head(t) = t[1] /\ Len(t) \in Nat \ {0} /\ Len(u) = Len(t) - 1
      /\ \A i \in 1..Len(u) : u[i] = t[i + 1] /\ i + 1 \in 1..Len(t)
  BY Shifted
<1>2. EachAfter(u, X, Y)
  <2> SUFFICES ASSUME NEW i \in 1..Len(u), u[i] \in X, i # 1 PROVE u[i - 1] \in Y
    BY DEF EachAfter
  <2>1. t[i + 1] \in X /\ i + 1 \in 1..Len(t) /\ i + 1 # 1
    BY <1>1
  <2>2. t[(i + 1) - 1] \in Y
    BY <2>1 DEF EachAfter
  <2>3. i - 1 \in 1..Len(u) /\ (i - 1) + 1 = (i + 1) - 1
    BY <1>1
  <2>4. u[i - 1] = t[(i + 1) - 1]
    BY <1>1, <2>3
  <2> QED
    BY <2>2, <2>4
<1>3. ASSUME u # <<>>, Head(u) \in X PROVE Head(t) \in Y
  <2>1. Head(u) = u[1]
    BY <1>1, <1>3, NotEmpty
  <2>2. 1 \in 1..Len(u)
    BY <1>1, <1>3, NotEmpty
  <2>3. t[2] \in X /\ 2 \in 1..Len(t) /\ 2 # 1
    BY <1>1, <1>3, <2>1, <2>2
  <2>4. t[2 - 1] \in Y
    BY <2>3 DEF EachAfter
  <2> QED
    BY <1>1, <2>4
<1> QED
  BY <1>2, <1>3

LEMMA GoodTail ==
  ASSUME NEW op, NEW t, Good(op, t), t # <<>>
  PROVE  Good(op, Tail(t)) /\ Head(t) \in Statements /\ op \in Users[Head(t)]
<1>1. t \in Seq(Statements) /\ (\A i \in 1..Len(t) : op \in Users[t[i]]) /\ GoodOrder(op, t)
  BY DEF Good
<1>2. Head(t) \in Statements /\ op \in Users[Head(t)]
  <2>1. 1 \in 1..Len(t) /\ Head(t) = t[1] /\ t[1] \in Statements
    BY <1>1, Shifted
  <2> QED
    BY <1>1, <2>1
<1>3. Tail(t) \in Seq(Statements) /\ \A i \in 1..Len(Tail(t)) : op \in Users[Tail(t)[i]]
  BY <1>1, Shifted
<1>4. /\ \A X, y : EachThen(t, X, y) => EachThen(Tail(t), X, y)
      /\ \A X, Y : EachAfter(t, X, Y) => EachAfter(Tail(t), X, Y)
  BY <1>1, TailThen, TailAfter
<1>5. GoodOrder(op, Tail(t))
  BY <1>1, <1>4 DEF GoodOrder
<1> QED
  BY <1>2, <1>3, <1>5 DEF Good

\* What comes next.
LEMMA GoesTo ==
  ASSUME NEW op, NEW t, Good(op, t), t # <<>>
  PROVE  /\ Head(t) \in Counted(op) => Tail(t) # <<>> /\ Head(Tail(t)) = "RefreshPostCount"
         /\ op = "reblogs_create" /\ Head(t) = "CreateReblog" =>
              Tail(t) # <<>> /\ Head(Tail(t)) = "CreateWrapper"
         /\ op = "reblogs_delete" /\ Head(t) = "DeleteReblog" =>
              Tail(t) # <<>> /\ Head(Tail(t)) = "DeleteReblogPost"
         /\ op = "UndoLike" /\ Head(t) = "DeleteFavourite" =>
              Tail(t) # <<>> /\ Head(Tail(t)) = "DeleteNotification"
         /\ op = "UndoAnnounce" /\ Head(t) = "DeleteReblog" =>
              Tail(t) # <<>> /\ Head(Tail(t)) = "DeleteNotification"
<1>1. t \in Seq(Statements) /\ GoodOrder(op, t)
  BY DEF Good
<1>2. \A X, y : EachThen(t, X, y) /\ Head(t) \in X => Tail(t) # <<>> /\ Head(Tail(t)) = y
  BY <1>1, TailThen
<1>3. Head(t) \in Counted(op) => Tail(t) # <<>> /\ Head(Tail(t)) = "RefreshPostCount"
  BY <1>1, <1>2 DEF GoodOrder
<1>4. /\ op = "reblogs_create" => EachThen(t, {"CreateReblog"}, "CreateWrapper")
      /\ op = "reblogs_delete" => EachThen(t, {"DeleteReblog"}, "DeleteReblogPost")
      /\ op = "UndoLike" => EachThen(t, {"DeleteFavourite"}, "DeleteNotification")
      /\ op = "UndoAnnounce" => EachThen(t, {"DeleteReblog"}, "DeleteNotification")
  BY <1>1 DEF GoodOrder
<1> QED
  BY <1>2, <1>3, <1>4

\* What has come before.
LEMMA ComesFrom ==
  ASSUME NEW op, NEW t, Good(op, t), t # <<>>, Tail(t) # <<>>
  PROVE  /\ Head(Tail(t)) # "CreatePost"
         /\ Head(Tail(t)) = "PinPost" => Head(t) = "GetPost"
         /\ op = "posts_delete" /\ Head(Tail(t)) = "DeletePost" => Head(t) = "UnpinPost"
         /\ Head(Tail(t)) = "CreateWrapper" => Head(t) = "CreateReblog"
         /\ Head(Tail(t)) = "DeleteReblogPost" => Head(t) = "DeleteReblog"
         /\ op = "Like" /\ Head(Tail(t)) = "Notify" => Head(t) = "CreateFavourite"
         /\ op = "Announce" /\ Head(Tail(t)) = "Notify" => Head(t) \in {"CreateReblog", "StoreNote"}
         /\ Head(Tail(t)) = "StoreNote" => Head(t) = "FetchNote"
         /\ Head(Tail(t)) = "EnqueueMentioned" => Head(t) = "GetPost"
         /\ Head(Tail(t)) = "UpdatePostMentions" => Head(t) = "EnqueueMentioned"
<1>1. t \in Seq(Statements) /\ GoodOrder(op, t)
  BY DEF Good
<1> PICK h : h = Head(t)
  OBVIOUS
<1> PICK u : u = Tail(t)
  OBVIOUS
<1> PICK g : g = Head(u)
  OBVIOUS
<1>2. \A X, Y : EachAfter(t, X, Y) /\ g \in X => h \in Y
  BY <1>1, TailAfter
<1>3. /\ EachAfter(t, {"CreatePost"}, {}) /\ EachAfter(t, {"PinPost"}, {"GetPost"})
      /\ op = "posts_delete" => EachAfter(t, {"DeletePost"}, {"UnpinPost"})
      /\ EachAfter(t, {"CreateWrapper"}, {"CreateReblog"})
      /\ EachAfter(t, {"DeleteReblogPost"}, {"DeleteReblog"})
      /\ op = "Like" => EachAfter(t, {"Notify"}, {"CreateFavourite"})
      /\ op = "Announce" => EachAfter(t, {"Notify"}, {"CreateReblog", "StoreNote"})
      /\ EachAfter(t, {"StoreNote"}, {"FetchNote"})
      /\ EachAfter(t, {"EnqueueMentioned"}, {"GetPost"})
      /\ EachAfter(t, {"UpdatePostMentions"}, {"EnqueueMentioned"})
  BY <1>1 DEF GoodOrder
<1>4. g # "CreatePost"
  <2>1. g \in {"CreatePost"} => h \in {}
    BY <1>2, <1>3
  <2> QED
    BY <2>1
<1>5. /\ g = "PinPost" => h = "GetPost"
      /\ op = "posts_delete" /\ g = "DeletePost" => h = "UnpinPost"
      /\ g = "CreateWrapper" => h = "CreateReblog"
      /\ g = "DeleteReblogPost" => h = "DeleteReblog"
  BY <1>2, <1>3
<1>6. /\ op = "Like" /\ g = "Notify" => h = "CreateFavourite"
      /\ op = "Announce" /\ g = "Notify" => h \in {"CreateReblog", "StoreNote"}
      /\ g = "StoreNote" => h = "FetchNote"
      /\ g = "EnqueueMentioned" => h = "GetPost"
      /\ g = "UpdatePostMentions" => h = "EnqueueMentioned"
  BY <1>2, <1>3
<1> QED
  BY <1>4, <1>5, <1>6

Moved(r, read, new) ==
  IF Len(r.todo) = 1 THEN Idle ELSE [r EXCEPT !.todo = Tail(r.todo), !.read = read, !.new = new]

LEMMA OpNames ==
  /\ DOMAIN Methods = {"posts_create", "posts_update", "posts_delete", "posts_pin", "posts_unpin",
                       "favourites_create", "favourites_delete", "reblogs_create", "reblogs_delete"}
  /\ Interactions = {"favourites_create", "favourites_delete", "reblogs_create", "reblogs_delete"}
  /\ Activities = {"Like", "UndoLike", "Announce", "UndoAnnounce", "Create", "Update", "Delete"}
  /\ Answers = {"Like", "UndoLike", "Announce", "UndoAnnounce"}
  /\ JobTypes = {"Like", "UndoLike", "Announce", "UndoAnnounce", "Create", "Update", "Delete", "deliver_post"}
BY DEF Methods, Interactions, Activities, Answers, JobTypes

LEMMA EmptyIsGood == \A op : Good(op, <<>>) /\ \A X : Lacks(<<>>, X)
<1>1. <<>> \in Seq(Statements) /\ 1..Len(<<>>) = {}
  OBVIOUS
<1>2. \A X, y : EachThen(<<>>, X, y) /\ EachAfter(<<>>, X, y) /\ Lacks(<<>>, X)
  BY <1>1 DEF EachThen, EachAfter, Lacks
<1> QED
  BY <1>1, <1>2 DEF Good, GoodOrder

LEMMA IdleOK ==
  /\ Idle \in Requests /\ Idle.todo = <<>> /\ Idle.op = "none"
  /\ \A X : ~Here(Idle, X)
  /\ \A s, k : RequestOK(s, k, Idle)
<1>1. Idle \in Requests /\ Idle.todo = <<>> /\ Idle.op = "none"
  BY DEF Idle, Request, Requests, Rows, AllOps
<1>2. \A X : ~Here(Idle, X)
  BY <1>1 DEF Here
<1>3. \A s, k : Idle.op \in OpsAt(s, k)
  BY <1>1 DEF OpsAt
<1> QED
  BY <1>1, <1>2, <1>3, EmptyIsGood DEF RequestOK

LEMMA MovedIs ==
  ASSUME NEW r \in Requests, Good(r.op, r.todo), r.todo # <<>>, NEW read \in Rows, NEW new \in Rows,
         NEW n, n = Moved(r, read, new)
  PROVE  /\ n \in Requests /\ n.todo = Tail(r.todo)
         /\ n.todo # <<>> => n.op = r.op /\ n.read = read /\ n.new = new
         /\ n.todo = <<>> => n = Idle
<1> PICK u : u = Tail(r.todo)
  OBVIOUS
<1>1. r.todo \in Seq(Statements) /\ u \in Seq(Statements) /\ Len(u) = Len(r.todo) - 1 /\ Len(r.todo) \in Nat
  BY Shifted DEF Requests
<1>2. Len(r.todo) = 1 <=> u = <<>>
  <2>1. u # <<>> <=> 1 \in 1..Len(u)
    BY <1>1, NotEmpty
  <2>2. Len(u) \in Nat
    BY <1>1
  <2>3. \A m \in Nat : 1 \in 1..m <=> m # 0
    OBVIOUS
  <2>4. Len(r.todo) = 1 <=> Len(u) = 0
    BY <1>1
  <2> QED
    BY <2>1, <2>2, <2>3, <2>4
<1>3. CASE Len(r.todo) = 1
  BY <1>2, <1>3, IdleOK DEF Moved
<1>4. CASE Len(r.todo) # 1
  <2>1. n = [r EXCEPT !.todo = u, !.read = read, !.new = new]
    BY <1>4 DEF Moved
  <2>2. n.todo = u /\ n.op = r.op /\ n.read = read /\ n.new = new
    BY <2>1 DEF Requests
  <2>3. n \in Requests
    BY <1>1, <2>1 DEF Requests
  <2> QED
    BY <1>2, <1>4, <2>2, <2>3
<1> QED
  BY <1>3, <1>4

\* A request that goes on has what its statements need.
LEMMA MovedOK ==
  ASSUME NEW s, NEW k, NEW r, RequestOK(s, k, r), r.todo # <<>>, NEW read \in Rows, NEW new \in Rows,
         NEW n, n = Moved(r, read, new),
         Head(r.todo) \in {"GetPost", "EnqueueMentioned"} => read \in Row,
         IF Head(r.todo) = "FetchNote" THEN new \in Row ELSE new = r.new \/ r.op = "deliver_post"
  PROVE  RequestOK(s, k, n)
<1>1. /\ r \in Requests /\ r.op \in OpsAt(s, k) /\ Good(r.op, r.todo) /\ r.todo \in Seq(Statements)
      /\ s = Author => Lacks(r.todo, {"StoreNote"})
  BY DEF RequestOK, Requests
<1>2. /\ n \in Requests /\ n.todo = Tail(r.todo)
      /\ n.todo # <<>> => n.op = r.op /\ n.read = read /\ n.new = new
      /\ n.todo = <<>> => n = Idle
  BY <1>1, MovedIs
<1>3. CASE n.todo = <<>>
  BY <1>2, <1>3, IdleOK
<1>4. CASE n.todo # <<>>
  <2>1. Good(n.op, n.todo) /\ r.op \in Users[Head(r.todo)]
    BY <1>1, <1>2, <1>4, GoodTail
  <2>2. s = Author => Lacks(n.todo, {"StoreNote"})
    BY <1>1, <1>2, TailLacks
  <2>3. Head(r.todo) = "FetchNote" => r.op = "Announce"
    BY <2>1, UsersAre
  <2>4. Here(n, {"StoreNote"}) => n.new \in Row
    <3>1. Head(n.todo) = "StoreNote" => Head(r.todo) = "FetchNote"
      BY <1>1, <1>2, <1>4, ComesFrom
    <3> QED
      BY <1>2, <3>1 DEF Here
  <2>5. Here(n, {"EnqueueMentioned", "UpdatePostMentions"}) => n.read \in Row
    <3>1. /\ Head(n.todo) = "EnqueueMentioned" => Head(r.todo) = "GetPost"
          /\ Head(n.todo) = "UpdatePostMentions" => Head(r.todo) = "EnqueueMentioned"
      BY <1>1, <1>2, <1>4, ComesFrom
    <3> QED
      BY <1>2, <3>1 DEF Here
  <2>6. /\ n.op \in {"posts_create", "posts_update", "Create"} => n.new \in Row
        /\ n.op = "posts_update" => n.new.text > 0
    BY <1>2, <1>4, <2>3 DEF RequestOK
  <2> QED
    BY <1>1, <1>2, <1>4, <2>1, <2>2, <2>4, <2>5, <2>6 DEF RequestOK
<1> QED
  BY <1>3, <1>4

\* The slot an operation runs in.
LEMMA SlotIs ==
  ASSUME NEW s \in Servers, NEW k \in Slots, NEW op \in OpsAt(s, k)
  PROVE  /\ op \in DOMAIN Methods => k = "api"
         /\ op \in Activities => k = "inbox"
         /\ op = "deliver_post" => k = "worker" /\ s = Author
         /\ k = "api" => op \notin Activities /\ op # "deliver_post"
         /\ k = "api" /\ s # Author => op \in {"none"} \cup Interactions
         /\ k = "inbox" /\ s = Author => op \in {"none"} \cup Answers
<1>1. k \in {"api", "inbox", "worker"}
  BY DEF Slots
<1>2. CASE k = "api"
  BY <1>2, OpNames DEF OpsAt
<1>3. CASE k = "inbox"
  BY <1>3, OpNames DEF OpsAt
<1>4. CASE k = "worker"
  <2>1. op \in {"none"} \cup {x \in {"deliver_post"} : s = Author}
    BY <1>4 DEF OpsAt
  <2> QED
    BY <1>4, <2>1, OpNames
<1> QED
  BY <1>1, <1>2, <1>3, <1>4

\* A statement that is next.
LEMMA AtIs ==
  ASSUME PostsInv, NEW s \in Servers, NEW k \in Slots, NEW X, At(s, k, X)
  PROVE  /\ RequestOK(s, k, run[s][k]) /\ run[s][k] \in Requests
         /\ run[s][k].todo # <<>> /\ Head(run[s][k].todo) = X
         /\ Good(run[s][k].op, run[s][k].todo) /\ run[s][k].op \in OpsAt(s, k)
         /\ run[s][k].op \in Users[X] /\ run[s][k].read \in Rows /\ run[s][k].new \in Rows
<1>1. RequestOK(s, k, run[s][k]) /\ run[s][k].todo # <<>> /\ Head(run[s][k].todo) = X
  BY DEF PostsInv, RunsOK, At
<1> PICK r : r = run[s][k]
  OBVIOUS
<1>2. r \in Requests /\ Good(r.op, r.todo) /\ r.op \in OpsAt(s, k) /\ r.read \in Rows /\ r.new \in Rows
  BY <1>1 DEF RequestOK, Requests
<1>3. r.op \in Users[X]
  BY <1>1, <1>2, GoodTail
<1> QED
  BY <1>1, <1>2, <1>3

LEMMA Started ==
  ASSUME PostsInv, NEW s \in Servers, NEW k \in Slots, NEW X, At(s, k, X), X # "CreatePost"
  PROVE  created
<1>1. run[s][k] # Idle /\ ~Here(run[s][k], {"CreatePost"})
  BY IdleOK DEF At, Here
<1> QED
  BY <1>1 DEF PostsInv, FreshOK

-----------------------------------------------------------------------------
(* Steps.                                                                  *)

\* A step of s leaves the rows of the other.
Apart(s) ==
  \A t \in Servers \ {s} :
    /\ post'[t] = post[t] /\ favourite'[t] = favourite[t] /\ reblog'[t] = reblog[t]
    /\ wrapper'[t] = wrapper[t] /\ notice'[t] = notice[t] /\ pinned'[t] = pinned[t]
    /\ postCount'[t] = postCount[t]

\* What is to be shown of a statement: that the rules hold of its server.
LEMMA StepKeeps ==
  ASSUME PostsInv, NEW s \in Servers, NEW k \in Slots, NEW n, run' = [run EXCEPT ![s][k] = n],
         RequestOK(s, k, n), RowsOK', QueuesOK', Apart(s), created',
         created \/ \A t \in Servers \ {s} : run[t]["api"] = Idle,
         ApiOK(s, run[s]["api"])', RowOK(s)', s = Author => InboxOK(run[Author]["inbox"])'
  PROVE  PostsInv'
<1>1. run \in [Servers -> [Slots -> Requests]] /\ n \in Requests
  BY DEF PostsInv, RunsOK, RequestOK
<1>2. /\ run' \in [Servers -> [Slots -> Requests]] /\ run'[s][k] = n
      /\ \A t \in Servers, l \in Slots : t # s \/ l # k => run'[t][l] = run[t][l]
  BY <1>1
<1>3. RunsOK'
  BY <1>2 DEF PostsInv, RunsOK, RequestOK, Here
<1>4. ASSUME NEW t \in Servers, t # s PROVE ApiOK(t, run[t]["api"])' /\ RowOK(t)'
  <2> PICK r : r = run[t]["api"]
    OBVIOUS
  <2>1. run'[t]["api"] = r
    BY <1>2, <1>4 DEF Slots
  <2>2. ApiOK(t, r) /\ RowOK(t)
    BY DEF PostsInv
  <2>3. LocalPosts(t)' = LocalPosts(t)
    BY <1>4 DEF Apart, LocalPosts
  <2>4. created \/ ~Here(r, {"CreatePost"})
    BY <1>4, IdleOK
  <2>5. ApiOK(t, r)'
    BY <1>4, <2>2, <2>3, <2>4 DEF Apart, ApiOK, Here
  <2> QED
    BY <1>4, <2>1, <2>2, <2>5 DEF Apart, RowOK, ApiOK, Here, LocalPosts
<1>5. InboxOK(run[Author]["inbox"])'
  <2>1. CASE s = Author
    BY <2>1
  <2>2. CASE s # Author
    <3>1. Author \in Servers \ {s}
      BY <2>2 DEF Servers
    <3>2. run'[Author]["inbox"] = run[Author]["inbox"]
      BY <1>2, <3>1 DEF Slots
    <3> QED
      BY <3>1, <3>2 DEF PostsInv, Apart, InboxOK, Here
  <2> QED
    BY <2>1, <2>2
<1>6. FreshOK'
  BY DEF FreshOK
<1> QED
  BY <1>3, <1>4, <1>5, <1>6 DEF PostsInv

\* The API request of s is untouched, and so is what it goes by.
LEMMA ApiStays ==
  ASSUME PostsInv, NEW s \in Servers, NEW k \in Slots, k # "api", NEW n, run' = [run EXCEPT ![s][k] = n],
         postCount'[s] = postCount[s], wrapper'[s].local = wrapper[s].local, pinned'[s] = pinned[s],
         s \in reblog'[s] <=> s \in reblog[s], created' = created,
         s = Author => (post'[s] = NoPost <=> post[s] = NoPost) /\ post'[s].vis = post[s].vis
  PROVE  ApiOK(s, run[s]["api"])'
<1>1. run \in [Servers -> [Slots -> Requests]] /\ RequestOK(s, "api", run[s]["api"])
  BY DEF PostsInv, RunsOK, Slots
<1> PICK r : r = run[s]["api"]
  OBVIOUS
<1>2. run'[s]["api"] = r /\ ApiOK(s, r)
  BY <1>1 DEF PostsInv, Slots
<1>3. LocalPosts(s)' = LocalPosts(s)
  BY DEF LocalPosts
<1>4. Here(r, {"PinPost"}) => s = Author
  <2> HAVE Here(r, {"PinPost"})
  <2>1. r.op \in Users["PinPost"]
    BY <1>1, GoodTail DEF Here, RequestOK
  <2> QED
    BY <1>1, <2>1, UsersAre, SlotIs, OpNames DEF RequestOK, Slots
<1>5. ApiOK(s, r)'
  BY <1>2, <1>3, <1>4 DEF ApiOK, Here
<1> QED
  BY <1>2, <1>5 DEF ApiOK, Here, LocalPosts

\* The request in the inbox of the author is untouched, and so is what it goes by.
LEMMA InboxStays ==
  ASSUME PostsInv, NEW k \in Slots, k # "inbox", NEW n, run' = [run EXCEPT ![Author][k] = n],
         notice'[Author] = notice[Author],
         Reader \in favourite[Author] => Reader \in favourite'[Author],
         Reader \in reblog[Author] => Reader \in reblog'[Author],
         post[Author] = NoPost => post'[Author] = NoPost
  PROVE  InboxOK(run[Author]["inbox"])'
<1>1. run \in [Servers -> [Slots -> Requests]] /\ Author \in Servers
  BY DEF PostsInv, RunsOK, Servers
<1> PICK r : r = run[Author]["inbox"]
  OBVIOUS
<1>2. run'[Author]["inbox"] = r /\ InboxOK(r)
  BY <1>1 DEF PostsInv, Slots
<1> QED
  BY <1>2 DEF InboxOK, Here

\* Where an API request comes from that is where the rules ask for something.
LEMMA ApiComesFrom ==
  ASSUME PostsInv, NEW s \in Servers, NEW X, At(s, "api", X), NEW read \in Rows, NEW new \in Rows,
         NEW n, n = Idle \/ n = Moved(run[s]["api"], read, new)
  PROVE  /\ ~Here(n, {"CreatePost"})
         /\ Here(n, {"PinPost"}) => X = "GetPost" /\ run[s]["api"].op = "posts_pin"
         /\ Here(n, {"DeletePost"}) => X = "UnpinPost"
         /\ Here(n, {"CreateWrapper"}) => X = "CreateReblog"
         /\ Here(n, {"DeleteReblogPost"}) => X = "DeleteReblog"
<1> "api" \in Slots
  BY DEF Slots
<1> PICK r : r = run[s]["api"]
  OBVIOUS
<1>1. /\ r \in Requests /\ r.todo # <<>> /\ Head(r.todo) = X /\ Good(r.op, r.todo)
      /\ r.op \in OpsAt(s, "api")
  BY AtIs
<1>2. CASE n = Idle
  BY <1>2, IdleOK
<1>3. CASE n = Moved(r, read, new)
  <2>1. n.todo = Tail(r.todo)
    BY <1>1, <1>3, MovedIs
  <2>2. CASE n.todo = <<>>
    BY <2>2 DEF Here
  <2>3. CASE n.todo # <<>>
    <3>1. /\ Head(n.todo) # "CreatePost"
          /\ Head(n.todo) = "PinPost" => Head(r.todo) = "GetPost"
          /\ r.op = "posts_delete" /\ Head(n.todo) = "DeletePost" => Head(r.todo) = "UnpinPost"
          /\ Head(n.todo) = "CreateWrapper" => Head(r.todo) = "CreateReblog"
          /\ Head(n.todo) = "DeleteReblogPost" => Head(r.todo) = "DeleteReblog"
      BY <1>1, <2>1, <2>3, ComesFrom
    <3>2. r.op \in Users[Head(n.todo)]
      <4>1. Good(r.op, n.todo)
        BY <1>1, <2>1, GoodTail
      <4> QED
        BY <2>3, <4>1, GoodTail
    <3>3. r.op \notin Activities
      BY <1>1, SlotIs
    <3>4. Head(n.todo) = "DeletePost" => r.op = "posts_delete"
      BY <3>2, <3>3, UsersAre, OpNames
    <3>5. Head(n.todo) = "PinPost" => r.op = "posts_pin"
      BY <3>2, UsersAre
    <3> QED
      BY <1>1, <3>1, <3>4, <3>5 DEF Here
  <2> QED
    BY <2>2, <2>3
<1> QED
  BY <1>2, <1>3

\* An API request goes on and leaves what it goes by.
LEMMA ApiMoves ==
  ASSUME PostsInv, NEW s \in Servers, NEW X, At(s, "api", X), NEW read \in Rows, NEW new \in Rows,
         NEW n, n = Idle \/ n = Moved(run[s]["api"], read, new), run' = [run EXCEPT ![s]["api"] = n],
         X \notin {"CreateWrapper", "DeleteReblogPost"}, X \in {"CreateReblog", "DeleteReblog"} => n = Idle,
         X = "GetPost" => n = Idle \/ run[s]["api"].op # "posts_pin" \/ post'[s].vis = "public",
         X = "UnpinPost" => ~pinned'[s],
         \/ postCount'[s] = LocalPosts(s)'
         \/ X # "RefreshPostCount" /\ postCount'[s] = postCount[s] /\ LocalPosts(s)' = LocalPosts(s),
         wrapper'[s].local = wrapper[s].local, reblog'[s] \cap {s} = reblog[s] \cap {s}
  PROVE  ApiOK(s, run[s]["api"])'
<1> PICK r : r = run[s]["api"]
  OBVIOUS
<1>1. run'[s]["api"] = n /\ ApiOK(s, r)
  BY DEF PostsInv, RunsOK, Slots
<1>2. r.todo # <<>> /\ Head(r.todo) = X
  BY DEF At
<1>3. /\ ~Here(n, {"CreatePost"})
      /\ Here(n, {"PinPost"}) => X = "GetPost" /\ r.op = "posts_pin"
      /\ Here(n, {"DeletePost"}) => X = "UnpinPost"
      /\ Here(n, {"CreateWrapper"}) => X = "CreateReblog"
      /\ Here(n, {"DeleteReblogPost"}) => X = "DeleteReblog"
  BY ApiComesFrom
<1>4. ~Here(n, {"CreateWrapper"}) /\ ~Here(n, {"DeleteReblogPost"})
      /\ (Here(n, {"PinPost"}) => post'[s].vis = "public") /\ (Here(n, {"DeletePost"}) => ~pinned'[s])
  BY <1>3, IdleOK
<1>5. wrapper[s].local = IF s \in reblog[s] THEN 1 ELSE 0
  BY <1>1, <1>2 DEF ApiOK, Here
<1>6. postCount'[s] = LocalPosts(s)'
  <2>1. X # "RefreshPostCount" => postCount[s] = LocalPosts(s)
    BY <1>1, <1>2 DEF ApiOK, Here
  <2> QED
    BY <2>1
<1>7. ApiOK(s, n)'
  BY <1>3, <1>4, <1>5, <1>6 DEF ApiOK, Here
<1> QED
  BY <1>1, <1>7 DEF ApiOK, Here, LocalPosts

\* Likewise when no row is changed.
LEMMA ApiRests ==
  ASSUME PostsInv, NEW s \in Servers, NEW X, At(s, "api", X), NEW read \in Rows, NEW new \in Rows,
         NEW n, n = Idle \/ n = Moved(run[s]["api"], read, new), run' = [run EXCEPT ![s]["api"] = n],
         X \notin {"CreateWrapper", "DeleteReblogPost", "RefreshPostCount", "UnpinPost"},
         X \in {"CreateReblog", "DeleteReblog"} => n = Idle,
         X = "GetPost" => n = Idle \/ run[s]["api"].op # "posts_pin" \/ post[s].vis = "public",
         post' = post, reblog' = reblog, wrapper' = wrapper, postCount' = postCount
  PROVE  ApiOK(s, run[s]["api"])'
<1>1. LocalPosts(s)' = LocalPosts(s)
  BY DEF LocalPosts
<1>2. X = "GetPost" => n = Idle \/ run[s]["api"].op # "posts_pin" \/ post'[s].vis = "public"
  OBVIOUS
<1>3. X # "RefreshPostCount" /\ postCount'[s] = postCount[s] /\ LocalPosts(s)' = LocalPosts(s)
  BY <1>1
<1>4. X \notin {"CreateWrapper", "DeleteReblogPost"} /\ (X = "UnpinPost" => ~pinned'[s])
  OBVIOUS
<1>5. wrapper'[s].local = wrapper[s].local /\ reblog'[s] \cap {s} = reblog[s] \cap {s}
  OBVIOUS
<1> QED
  BY <1>2, <1>3, <1>4, <1>5, ApiMoves

\* A request in the inbox of the author goes on and leaves what it goes by.
LEMMA InboxMoves ==
  ASSUME PostsInv, NEW X, At(Author, "inbox", X), NEW read \in Rows, NEW new \in Rows,
         NEW n, n = Idle \/ n = Moved(run[Author]["inbox"], read, new),
         run' = [run EXCEPT ![Author]["inbox"] = n],
         X \notin {"CreateFavourite", "CreateReblog", "StoreNote", "DeleteNotification"},
         notice'[Author] = notice[Author], favourite'[Author] = favourite[Author],
         reblog'[Author] = reblog[Author], post[Author] = NoPost => post'[Author] = NoPost
  PROVE  InboxOK(run[Author]["inbox"])'
<1> "inbox" \in Slots /\ Author \in Servers
  BY DEF Slots, Servers
<1> PICK r : r = run[Author]["inbox"]
  OBVIOUS
<1>1. /\ r \in Requests /\ r.todo # <<>> /\ Head(r.todo) = X /\ Good(r.op, r.todo)
  BY AtIs
<1>2. run'[Author]["inbox"] = n /\ InboxOK(r)
  BY DEF PostsInv, RunsOK
<1>3. ~(Here(n, {"Notify"}) /\ n.op \in {"Like", "Announce"})
  <2>1. CASE n = Idle
    BY <2>1, IdleOK
  <2>2. CASE n = Moved(r, read, new) /\ n.todo # <<>>
    <3>1. n.todo = Tail(r.todo) /\ n.op = r.op
      BY <1>1, <2>2, MovedIs
    <3>2. /\ r.op = "Like" /\ Head(n.todo) = "Notify" => Head(r.todo) = "CreateFavourite"
          /\ r.op = "Announce" /\ Head(n.todo) = "Notify" => Head(r.todo) \in {"CreateReblog", "StoreNote"}
      BY <1>1, <2>2, <3>1, ComesFrom
    <3> QED
      BY <1>1, <3>1, <3>2 DEF Here
  <2> QED
    BY <2>1, <2>2 DEF Here
<1>4. ~Here(r, {"DeleteNotification"})
  BY <1>1 DEF Here
<1>5. InboxOK(n)'
  BY <1>2, <1>3, <1>4 DEF InboxOK, Here
<1> QED
  BY <1>2, <1>5 DEF InboxOK, Here

\* A request goes on, or ends.
LEMMA GoesOn ==
  ASSUME PostsInv, NEW s \in Servers, NEW k \in Slots, NEW X, At(s, k, X),
         X \notin {"GetPost", "FetchNote"}, GoOn(s, k),
         NEW n, n = Moved(run[s][k], run[s][k].read, run[s][k].new)
  PROVE  /\ run' = [run EXCEPT ![s][k] = n] /\ RequestOK(s, k, n)
         /\ n.todo = Tail(run[s][k].todo) /\ (n.todo # <<>> => n.op = run[s][k].op)
<1>1. run' = [run EXCEPT ![s][k] = n]
  BY DEF GoOn, GoOnHaving, Moved
<1> PICK r : r = run[s][k]
  OBVIOUS
<1>2. /\ RequestOK(s, k, r) /\ r \in Requests /\ r.todo # <<>> /\ Head(r.todo) = X /\ Good(r.op, r.todo)
      /\ r.read \in Rows /\ r.new \in Rows
  BY AtIs
<1>3. Head(r.todo) \in {"GetPost", "EnqueueMentioned"} => r.read \in Row
  BY <1>2 DEF RequestOK, Here
<1>4. RequestOK(s, k, n)
  BY <1>2, <1>3, MovedOK
<1>5. n.todo = Tail(r.todo) /\ (n.todo # <<>> => n.op = r.op)
  BY <1>2, MovedIs
<1> QED
  BY <1>1, <1>4, <1>5

LEMMA Returns ==
  ASSUME NEW s, NEW k, Return(s, k)
  PROVE  run' = [run EXCEPT ![s][k] = Idle] /\ RequestOK(s, k, Idle)
BY IdleOK DEF Return

LEMMA QueuesStay == ASSUME PostsInv, UNCHANGED <<jobs, wire>> PROVE QueuesOK'
BY DEF PostsInv, QueuesOK

\* The queues of s after a step.
LEMMA QueuesChange ==
  ASSUME PostsInv, NEW s \in Servers, NEW js \in Seq(Jobs(s)), jobs' = [jobs EXCEPT ![s] = js],
         NEW ws, ws \subseteq {a \in Activity : a.type \in Jobs(s)}, wire' = [wire EXCEPT ![s] = ws]
  PROVE  QueuesOK'
<1>1. \A t \in Servers : jobs[t] \in Seq(Jobs(t)) /\ wire[t] \subseteq {a \in Activity : a.type \in Jobs(t)}
  BY DEF PostsInv, QueuesOK
<1>2. jobs \in [Servers -> Seq(JobTypes)] /\ wire \in [Servers -> SUBSET Activity]
  BY DEF PostsInv, QueuesOK
<1>3. js \in Seq(JobTypes)
  <2>1. Jobs(s) \subseteq JobTypes
    BY OpNames DEF Jobs
  <2> QED
    BY <2>1
<1>4. jobs' \in [Servers -> Seq(JobTypes)] /\ \A t \in Servers : jobs'[t] = IF t = s THEN js ELSE jobs[t]
  BY <1>2, <1>3
<1>5. wire' \in [Servers -> SUBSET Activity] /\ \A t \in Servers : wire'[t] = IF t = s THEN ws ELSE wire[t]
  BY <1>2
<1>6. \A t \in Servers : jobs'[t] \in Seq(Jobs(t))
  BY <1>1, <1>4
<1>7. \A t \in Servers : wire'[t] \subseteq {a \in Activity : a.type \in Jobs(t)}
  BY <1>1, <1>5
<1> QED
  BY <1>4, <1>5, <1>6, <1>7 DEF QueuesOK, Jobs

LEMMA WireStays ==
  ASSUME PostsInv, NEW s \in Servers, UNCHANGED wire
  PROVE  wire[s] \subseteq {a \in Activity : a.type \in Jobs(s)} /\ wire' = [wire EXCEPT ![s] = wire[s]]
BY DEF PostsInv, QueuesOK

LEMMA JobAdded ==
  ASSUME PostsInv, NEW s \in Servers, NEW type \in Jobs(s),
         jobs' = [jobs EXCEPT ![s] = Append(@, type)], UNCHANGED wire
  PROVE  QueuesOK'
<1>1. Append(jobs[s], type) \in Seq(Jobs(s))
  BY DEF PostsInv, QueuesOK
<1> QED
  BY <1>1, QueuesChange, WireStays

LEMMA ServersAre ==
  /\ Author \in Servers /\ Reader \in Servers /\ Author # Reader
  /\ \A s \in Servers : s = Author \/ s = Reader
  /\ "api" \in Slots /\ "inbox" \in Slots /\ "worker" \in Slots
BY ServersDiffer DEF Servers, Slots

LEMMA NoRow == NoPost \in Rows /\ NoPost \notin Row /\ NoPost.vis = "none" /\ NoPost.text = 0
BY DEF NoPost, Rows, Row

\* A step that changes no row.
LEMMA QuietKeeps ==
  ASSUME PostsInv, NEW s \in Servers, NEW k \in Slots, NEW X, At(s, k, X), NEW read \in Rows, NEW new \in Rows,
         NEW n, n = Idle \/ n = Moved(run[s][k], read, new) \/ k = "worker",
         run' = [run EXCEPT ![s][k] = n], RequestOK(s, k, n),
         X \notin {"CreatePost", "RefreshPostCount", "CreateWrapper", "DeleteReblogPost", "UnpinPost",
                   "CreateFavourite", "StoreNote", "DeleteNotification"},
         X \in {"CreateReblog", "DeleteReblog"} => k = "api" /\ n = Idle,
         X = "GetPost" => n = Idle \/ run[s][k].op # "posts_pin" \/ post[s].vis = "public",
         UNCHANGED <<rows, created, ops, smooth>>, refused' \in BOOLEAN, QueuesOK'
  PROVE  PostsInv'
<1>1. /\ post' = post /\ favourite' = favourite /\ reblog' = reblog /\ wrapper' = wrapper
      /\ notice' = notice /\ pinned' = pinned /\ postCount' = postCount
      /\ created' = created /\ ops' = ops /\ smooth' = smooth
  BY DEF rows
<1>2. RowsOK' /\ Apart(s) /\ RowOK(s)' /\ created /\ created'
  BY <1>1, Started DEF PostsInv, RowsOK, Apart, RowOK
<1>3. ApiOK(s, run[s]["api"])'
  <2>1. CASE k = "api"
    <3>1. n = Idle \/ n = Moved(run[s]["api"], read, new)
      BY <2>1
    <3> QED
      BY <1>1, <2>1, <3>1, ApiRests
  <2>2. CASE k # "api"
    BY <1>1, <2>2, ApiStays
  <2> QED
    BY <2>1, <2>2
<1>4. ASSUME s = Author PROVE InboxOK(run[Author]["inbox"])'
  <2>1. CASE k = "inbox"
    <3>1. n = Idle \/ n = Moved(run[Author]["inbox"], read, new)
      BY <1>4, <2>1
    <3>2. At(Author, "inbox", X) /\ run' = [run EXCEPT ![Author]["inbox"] = n]
      BY <1>4, <2>1
    <3> QED
      BY <1>1, <2>1, <3>1, <3>2, InboxMoves
  <2>2. CASE k # "inbox"
    BY <1>1, <1>4, <2>2, InboxStays
  <2> QED
    BY <2>1, <2>2
<1> QED
  BY <1>2, <1>3, <1>4, StepKeeps

-----------------------------------------------------------------------------
(* The statements.                                                         *)

LEMMA GetPostKeeps ==
  ASSUME PostsInv, NEW s \in Servers, NEW k \in Slots, GetPost(s, k)
  PROVE  PostsInv'
<1> PICK r : r = run[s][k]
  OBVIOUS
<1>1. At(s, k, "GetPost") /\ UNCHANGED <<rows, created, ops, smooth, refused, jobs, wire>>
  BY DEF GetPost, history
<1>2. /\ RequestOK(s, k, r) /\ r \in Requests /\ r.todo # <<>> /\ Head(r.todo) = "GetPost"
      /\ r.new \in Rows /\ r.op \in Users["GetPost"] /\ post[s] \in Rows
  BY <1>1, AtIs DEF PostsInv, RowsOK
<1>3. QueuesOK' /\ refused' \in BOOLEAN
  BY <1>1, QueuesStay DEF PostsInv, RowsOK
<1>4. CASE Return(s, k)
  <2>1. run' = [run EXCEPT ![s][k] = Idle] /\ RequestOK(s, k, Idle)
    BY <1>4, Returns
  <2> PICK n : n = Idle
    OBVIOUS
  <2>2. n = Idle \/ n = Moved(run[s][k], r.new, r.new)
    OBVIOUS
  <2>3. run' = [run EXCEPT ![s][k] = n] /\ RequestOK(s, k, n)
    BY <2>1
  <2> QED
    BY <1>1, <1>2, <1>3, <2>2, <2>3, QuietKeeps
<1>5. CASE /\ post[s] # NoPost /\ (r.op # "posts_pin" \/ post[s].vis = "public")
           /\ GoOnHaving(s, k, post[s], r.new)
  <2> PICK n : n = Moved(r, post[s], r.new)
    OBVIOUS
  <2>1. run' = [run EXCEPT ![s][k] = n]
    BY <1>5 DEF GoOnHaving, Moved
  <2>2. post[s] \in Row
    BY <1>2, <1>5 DEF Rows
  <2>3. RequestOK(s, k, n)
    BY <1>2, <2>2, MovedOK
  <2>4. n = Moved(run[s][k], post[s], r.new) /\ (run[s][k].op # "posts_pin" \/ post[s].vis = "public")
    BY <1>5
  <2> QED
    BY <1>1, <1>2, <1>3, <2>1, <2>3, <2>4, QuietKeeps
<1> QED
  BY <1>4, <1>5 DEF GetPost

\* A step that only puts a job in the queue.
LEMMA EnqueueKeeps ==
  ASSUME PostsInv, NEW s \in Servers, NEW k \in Slots, NEW X, NEW type \in Jobs(s), Enqueue(s, k, X, type),
         X \notin {"CreatePost", "RefreshPostCount", "CreateWrapper", "DeleteReblogPost", "UnpinPost",
                   "CreateFavourite", "StoreNote", "DeleteNotification", "CreateReblog", "DeleteReblog",
                   "GetPost", "FetchNote"}
  PROVE  PostsInv'
<1> PICK r : r = run[s][k]
  OBVIOUS
<1> PICK n : n = Moved(r, r.read, r.new)
  OBVIOUS
<1>1. /\ At(s, k, X) /\ UNCHANGED <<rows, created, ops, smooth, refused, wire>> /\ GoOn(s, k)
      /\ jobs' = [jobs EXCEPT ![s] = Append(@, type)]
  BY DEF Enqueue, history
<1>2. r.new \in Rows /\ r.read \in Rows
  BY <1>1, AtIs
<1>3. QueuesOK' /\ refused' \in BOOLEAN
  BY <1>1, JobAdded DEF PostsInv, RowsOK
<1>4. run' = [run EXCEPT ![s][k] = n] /\ RequestOK(s, k, n)
  BY <1>1, GoesOn
<1>5. n = Moved(run[s][k], r.read, r.new)
  OBVIOUS
<1> QED
  BY <1>1, <1>2, <1>3, <1>4, <1>5, QuietKeeps

\* A step that does nothing.
LEMMA PassKeeps ==
  ASSUME PostsInv, NEW s \in Servers, NEW k \in Slots, NEW X, At(s, k, X), GoOn(s, k) \/ Return(s, k),
         UNCHANGED <<rows, jobs, wire, created, ops, smooth>>, refused' \in BOOLEAN,
         X \notin {"CreatePost", "RefreshPostCount", "CreateWrapper", "DeleteReblogPost", "UnpinPost",
                   "CreateFavourite", "StoreNote", "DeleteNotification", "GetPost", "FetchNote"},
         X \in {"CreateReblog", "DeleteReblog"} => k = "api" /\ Return(s, k)
  PROVE  PostsInv'
<1> PICK r : r = run[s][k]
  OBVIOUS
<1>1. r.new \in Rows /\ r.read \in Rows
  BY AtIs
<1>2. QueuesOK'
  BY QueuesStay
<1>3. CASE Return(s, k)
  <2>1. run' = [run EXCEPT ![s][k] = Idle] /\ RequestOK(s, k, Idle)
    BY <1>3, Returns
  <2> QED
    BY <1>1, <1>2, <1>3, <2>1, QuietKeeps
<1>4. CASE GoOn(s, k) /\ ~Return(s, k)
  <2> PICK n : n = Moved(r, r.read, r.new)
    OBVIOUS
  <2>1. run' = [run EXCEPT ![s][k] = n] /\ RequestOK(s, k, n)
    BY <1>4, GoesOn
  <2>2. n = Moved(run[s][k], r.read, r.new) /\ X \notin {"CreateReblog", "DeleteReblog"}
    BY <1>4
  <2> QED
    BY <1>1, <1>2, <2>1, <2>2, QuietKeeps
<1> QED
  BY <1>3, <1>4

LEMMA EnqueuesKeeps ==
  ASSUME PostsInv, NEW s \in Servers, NEW k \in Slots, Enqueues(s, k)
  PROVE  PostsInv'
<1>1. ASSUME NEW X, At(s, k, X), run[s][k].op \notin Interactions, run[s][k].op \in DOMAIN Methods
      PROVE  s = Author
  <2>1. run[s][k].op \in OpsAt(s, k)
    BY <1>1, AtIs
  <2>2. k = "api"
    BY <1>1, <2>1, SlotIs
  <2> QED
    BY <1>1, <2>1, <2>2, SlotIs, OpNames
<1>2. ASSUME NEW X \in {"EnqueueDeliverPost", "EnqueueUpdatePost", "EnqueueDeliverDelete"}, At(s, k, X)
      PROVE  s = Author
  <2>1. run[s][k].op \in {"posts_create", "posts_update", "posts_delete"}
    BY <1>2, AtIs, UsersAre
  <2> QED
    BY <1>1, <1>2, <2>1, OpNames
<1>3. /\ \A type \in JobTypes : s = Author => type \in Jobs(s)
      /\ \A type \in Answers : type \in Jobs(s)
  BY OpNames DEF Jobs
<1>4. CASE Enqueue(s, k, "EnqueueDeliverPost", "deliver_post")
  <2>1. "deliver_post" \in Jobs(s)
    BY <1>2, <1>3, <1>4, OpNames DEF Enqueue
  <2> QED
    BY <1>4, <2>1, EnqueueKeeps
<1>5. CASE Enqueue(s, k, "EnqueueUpdatePost", "Update")
  <2>1. "Update" \in Jobs(s)
    BY <1>2, <1>3, <1>5, OpNames DEF Enqueue
  <2> QED
    BY <1>5, <2>1, EnqueueKeeps
<1>6. CASE Enqueue(s, k, "EnqueueDeliverDelete", "Delete")
  <2>1. "Delete" \in Jobs(s)
    BY <1>2, <1>3, <1>6, OpNames DEF Enqueue
  <2> QED
    BY <1>6, <2>1, EnqueueKeeps
<1>7. CASE Enqueue(s, k, "EnqueueSendAnnounce", "Announce")
  <2>1. "Announce" \in Jobs(s)
    BY <1>3, OpNames
  <2> QED
    BY <1>7, <2>1, EnqueueKeeps
<1>8. CASE Enqueue(s, k, "EnqueueSendUndoAnnounce", "UndoAnnounce")
  <2>1. "UndoAnnounce" \in Jobs(s)
    BY <1>3, OpNames
  <2> QED
    BY <1>8, <2>1, EnqueueKeeps
<1>9. ASSUME NEW X \in {"EnqueueSendLike", "EnqueueSendUndoLike"}, NEW type \in {"Like", "UndoLike"},
             EnqueueAbout(s, k, X, type)
      PROVE  PostsInv'
  <2>1. CASE s = Author
    <3>1. /\ At(s, k, X) /\ GoOn(s, k)
          /\ UNCHANGED <<rows, jobs, wire, created, ops, smooth>> /\ refused' = refused
      BY <1>9, <2>1 DEF EnqueueAbout, history
    <3>2. refused' \in BOOLEAN
      BY <3>1 DEF PostsInv, RowsOK
    <3> QED
      BY <1>9, <3>1, <3>2, PassKeeps
  <2>2. CASE s # Author
    <3>1. Enqueue(s, k, X, type) /\ type \in Jobs(s)
      BY <1>3, <1>9, <2>2, OpNames DEF EnqueueAbout
    <3> QED
      BY <1>9, <3>1, EnqueueKeeps
  <2> QED
    BY <2>1, <2>2
<1> QED
  BY <1>4, <1>5, <1>6, <1>7, <1>8, <1>9 DEF Enqueues

-----------------------------------------------------------------------------
(* Where the statements are, and what changes with each.                   *)

LEMMA Places ==
  ASSUME PostsInv, NEW s \in Servers, NEW k \in Slots, NEW X, At(s, k, X)
  PROVE  /\ X \in {"CreatePost", "UpdatePost", "PinPost", "UnpinPost"} => s = Author /\ k = "api"
         /\ X \in {"RefreshPostCount", "CreateWrapper", "DeleteReblogPost"} => k = "api"
         /\ X \in {"CreateRemoteWrapper", "Notify", "DeleteNotification", "FetchNote", "StoreNote",
                   "UpdateNote"} => k = "inbox"
         /\ X \in {"StoreNote", "UpdateNote"} => s = Reader
         /\ X \in {"EnqueueMentioned", "UpdatePostMentions", "Fanout"} => s = Author /\ k = "worker"
         /\ X \in {"CreateFavourite", "DeleteFavourite", "CreateReblog", "DeleteReblog"} => k \in {"api", "inbox"}
         /\ X = "DeletePost" =>
              (s = Author /\ k = "api" /\ run[s][k].op = "posts_delete") \/ (s = Reader /\ k = "inbox")
<1> PICK r : r = run[s][k]
  OBVIOUS
<1>1. /\ RequestOK(s, k, r) /\ r.todo # <<>> /\ Head(r.todo) = X /\ Good(r.op, r.todo)
      /\ r.op \in OpsAt(s, k) /\ r.op \in Users[X]
  BY AtIs
<1>2. /\ r.op \in DOMAIN Methods => k = "api"
      /\ r.op \in Activities => k = "inbox"
      /\ r.op = "deliver_post" => k = "worker" /\ s = Author
      /\ k = "api" /\ s # Author => r.op \in {"none"} \cup Interactions
      /\ k = "inbox" /\ s = Author => r.op \in {"none"} \cup Answers
  BY <1>1, SlotIs
<1>3. ASSUME X \in {"CreatePost", "UpdatePost", "PinPost", "UnpinPost"} PROVE s = Author /\ k = "api"
  <2>1. r.op \in {"posts_create", "posts_update", "posts_pin", "posts_delete", "posts_unpin"}
    BY <1>1, <1>3, UsersAre
  <2> QED
    BY <1>2, <2>1, OpNames
<1>4. ASSUME X \in {"RefreshPostCount", "CreateWrapper", "DeleteReblogPost"} PROVE k = "api"
  <2>1. r.op \in {"posts_create", "posts_delete", "reblogs_create", "reblogs_delete"}
    BY <1>1, <1>4, UsersAre
  <2> QED
    BY <1>2, <2>1, OpNames
<1>5. ASSUME X \in {"CreateRemoteWrapper", "Notify", "DeleteNotification", "FetchNote", "StoreNote",
                   "UpdateNote"}
      PROVE  k = "inbox"
  <2>1. r.op \in {"Like", "UndoLike", "Announce", "UndoAnnounce", "Create", "Update"}
    BY <1>1, <1>5, UsersAre
  <2> QED
    BY <1>2, <2>1, OpNames
<1>6. ASSUME X = "StoreNote" PROVE s = Reader
  <2>1. s = Author => "StoreNote" \notin {"StoreNote"}
    BY <1>1, <1>6, TailLacks DEF RequestOK, Requests
  <2> QED
    BY <2>1, ServersAre
<1>7. ASSUME X = "UpdateNote" PROVE s = Reader
  <2>1. r.op = "Update" /\ k = "inbox"
    BY <1>1, <1>5, <1>7, UsersAre
  <2> QED
    BY <1>2, <2>1, OpNames, ServersAre
<1>8. ASSUME X \in {"EnqueueMentioned", "UpdatePostMentions", "Fanout"} PROVE s = Author /\ k = "worker"
  BY <1>1, <1>2, <1>8, UsersAre
<1>9. ASSUME X \in {"CreateFavourite", "DeleteFavourite", "CreateReblog", "DeleteReblog"}
      PROVE  k \in {"api", "inbox"}
  <2>1. r.op \in {"favourites_create", "favourites_delete", "reblogs_create", "reblogs_delete"} \cup Answers
    BY <1>1, <1>9, UsersAre, OpNames
  <2> QED
    BY <1>2, <2>1, OpNames
<1>10. ASSUME X = "DeletePost"
       PROVE  (s = Author /\ k = "api" /\ r.op = "posts_delete") \/ (s = Reader /\ k = "inbox")
  <2>1. r.op \in {"posts_delete", "Delete"}
    BY <1>1, <1>10, UsersAre
  <2> QED
    BY <1>2, <2>1, OpNames, ServersAre
<1> QED
  BY <1>3, <1>4, <1>5, <1>6, <1>7, <1>8, <1>9, <1>10

LEMMA PostChanges ==
  ASSUME PostsInv, NEW s \in Servers, NEW p \in Rows, post' = [post EXCEPT ![s] = p],
         UNCHANGED <<favourite, reblog, wrapper, notice, pinned, postCount>>,
         ops' = ops, created' \in BOOLEAN, refused' \in BOOLEAN, smooth' = smooth
  PROVE  RowsOK' /\ Apart(s) /\ post'[s] = p
<1>1. RowsOK /\ post \in [Servers -> Rows]
  BY DEF PostsInv, RowsOK
<1>2. post' \in [Servers -> Rows] /\ post'[s] = p /\ \A t \in Servers \ {s} : post'[t] = post[t]
  BY <1>1
<1> QED
  BY <1>1, <1>2 DEF RowsOK, Apart

LEMMA FavouriteChanges ==
  ASSUME PostsInv, NEW s \in Servers, NEW f \in SUBSET Servers, favourite' = [favourite EXCEPT ![s] = f],
         UNCHANGED <<post, reblog, wrapper, notice, pinned, postCount>>,
         ops' = ops, created' \in BOOLEAN, refused' \in BOOLEAN, smooth' = smooth
  PROVE  RowsOK' /\ Apart(s) /\ favourite'[s] = f
<1>1. RowsOK /\ favourite \in [Servers -> SUBSET Servers]
  BY DEF PostsInv, RowsOK
<1>2. favourite' \in [Servers -> SUBSET Servers] /\ favourite'[s] = f /\ \A t \in Servers \ {s} : favourite'[t] = favourite[t]
  BY <1>1
<1> QED
  BY <1>1, <1>2 DEF RowsOK, Apart

LEMMA ReblogChanges ==
  ASSUME PostsInv, NEW s \in Servers, NEW f \in SUBSET Servers, reblog' = [reblog EXCEPT ![s] = f],
         UNCHANGED <<post, favourite, wrapper, notice, pinned, postCount>>,
         ops' = ops, created' \in BOOLEAN, refused' \in BOOLEAN, smooth' = smooth
  PROVE  RowsOK' /\ Apart(s) /\ reblog'[s] = f
<1>1. RowsOK /\ reblog \in [Servers -> SUBSET Servers]
  BY DEF PostsInv, RowsOK
<1>2. reblog' \in [Servers -> SUBSET Servers] /\ reblog'[s] = f /\ \A t \in Servers \ {s} : reblog'[t] = reblog[t]
  BY <1>1
<1> QED
  BY <1>1, <1>2 DEF RowsOK, Apart

LEMMA WrapperChanges ==
  ASSUME PostsInv, NEW s \in Servers, NEW w \in Wrapper, wrapper' = [wrapper EXCEPT ![s] = w],
         UNCHANGED <<post, favourite, reblog, notice, pinned, postCount>>,
         ops' = ops, created' \in BOOLEAN, refused' \in BOOLEAN, smooth' = smooth
  PROVE  RowsOK' /\ Apart(s) /\ wrapper'[s] = w
<1>1. RowsOK /\ wrapper \in [Servers -> Wrapper]
  BY DEF PostsInv, RowsOK
<1>2. wrapper' \in [Servers -> Wrapper] /\ wrapper'[s] = w /\ \A t \in Servers \ {s} : wrapper'[t] = wrapper[t]
  BY <1>1
<1> QED
  BY <1>1, <1>2 DEF RowsOK, Apart

LEMMA NoticeChanges ==
  ASSUME PostsInv, NEW s \in Servers, NEW x \in SUBSET Notices, notice' = [notice EXCEPT ![s] = x],
         UNCHANGED <<post, favourite, reblog, wrapper, pinned, postCount>>,
         ops' = ops, created' \in BOOLEAN, refused' \in BOOLEAN, smooth' = smooth
  PROVE  RowsOK' /\ Apart(s) /\ notice'[s] = x
<1>1. RowsOK /\ notice \in [Servers -> SUBSET Notices]
  BY DEF PostsInv, RowsOK
<1>2. notice' \in [Servers -> SUBSET Notices] /\ notice'[s] = x /\ \A t \in Servers \ {s} : notice'[t] = notice[t]
  BY <1>1
<1> QED
  BY <1>1, <1>2 DEF RowsOK, Apart

LEMMA PinnedChanges ==
  ASSUME PostsInv, NEW s \in Servers, NEW y \in BOOLEAN, pinned' = [pinned EXCEPT ![s] = y],
         UNCHANGED <<post, favourite, reblog, wrapper, notice, postCount>>,
         ops' = ops, created' \in BOOLEAN, refused' \in BOOLEAN, smooth' = smooth
  PROVE  RowsOK' /\ Apart(s) /\ pinned'[s] = y
<1>1. RowsOK /\ pinned \in [Servers -> BOOLEAN]
  BY DEF PostsInv, RowsOK
<1>2. pinned' \in [Servers -> BOOLEAN] /\ pinned'[s] = y /\ \A t \in Servers \ {s} : pinned'[t] = pinned[t]
  BY <1>1
<1> QED
  BY <1>1, <1>2 DEF RowsOK, Apart

LEMMA PostCountChanges ==
  ASSUME PostsInv, NEW s \in Servers, NEW c \in 0..2, postCount' = [postCount EXCEPT ![s] = c],
         UNCHANGED <<post, favourite, reblog, wrapper, notice, pinned>>,
         ops' = ops, created' \in BOOLEAN, refused' \in BOOLEAN, smooth' = smooth
  PROVE  RowsOK' /\ Apart(s) /\ postCount'[s] = c
<1>1. RowsOK /\ postCount \in [Servers -> 0..2]
  BY DEF PostsInv, RowsOK
<1>2. postCount' \in [Servers -> 0..2] /\ postCount'[s] = c /\ \A t \in Servers \ {s} : postCount'[t] = postCount[t]
  BY <1>1
<1> QED
  BY <1>1, <1>2 DEF RowsOK, Apart

\* A request goes on, or ends, with what it has read and has to write; that of
\* the worker may skip a statement.
Goes(s, k, X, n) ==
  /\ At(s, k, X) /\ run' = [run EXCEPT ![s][k] = n] /\ RequestOK(s, k, n)
  /\ n = Idle \/ k = "worker" \/ \E read \in Rows, new \in Rows : n = Moved(run[s][k], read, new)

LEMMA GoesOnIs ==
  ASSUME PostsInv, NEW s \in Servers, NEW k \in Slots, NEW X, At(s, k, X),
         X \notin {"GetPost", "FetchNote"}, GoOn(s, k)
  PROVE  \E n : /\ Goes(s, k, X, n)
                /\ n.todo = Tail(run[s][k].todo) /\ (n.todo # <<>> => n.op = run[s][k].op)
<1> PICK r : r = run[s][k]
  OBVIOUS
<1> PICK n : n = Moved(r, r.read, r.new)
  OBVIOUS
<1>1. r.new \in Rows /\ r.read \in Rows
  BY AtIs
<1>2. n = Moved(run[s][k], run[s][k].read, run[s][k].new)
  OBVIOUS
<1>3. /\ run' = [run EXCEPT ![s][k] = n] /\ RequestOK(s, k, n)
      /\ n.todo = Tail(run[s][k].todo) /\ (n.todo # <<>> => n.op = run[s][k].op)
  BY <1>2, GoesOn
<1>4. \E read \in Rows, new \in Rows : n = Moved(run[s][k], read, new)
  BY <1>1
<1> QED
  BY <1>3, <1>4 DEF Goes

LEMMA ReturnsIs ==
  ASSUME NEW s, NEW k, NEW X, At(s, k, X), Return(s, k)
  PROVE  Goes(s, k, X, Idle)
BY Returns DEF Goes

\* What the rules of the API go by.
ApiSame(s) ==
  /\ postCount'[s] = postCount[s] /\ LocalPosts(s)' = LocalPosts(s)
  /\ wrapper'[s].local = wrapper[s].local /\ reblog'[s] \cap {s} = reblog[s] \cap {s}

LEMMA ApiGoes ==
  ASSUME PostsInv, NEW s \in Servers, NEW X, NEW n, Goes(s, "api", X, n), ApiSame(s),
         X \notin {"CreateWrapper", "DeleteReblogPost", "RefreshPostCount", "GetPost"},
         X \in {"CreateReblog", "DeleteReblog"} => n = Idle,
         X = "UnpinPost" => ~pinned'[s]
  PROVE  ApiOK(s, run[s]["api"])'
<1> "api" \in Slots
  BY ServersAre
<1>1. PICK read \in Rows, new \in Rows : n = Idle \/ n = Moved(run[s]["api"], read, new)
  BY NoRow DEF Goes
<1>2. At(s, "api", X) /\ run' = [run EXCEPT ![s]["api"] = n]
  BY DEF Goes
<1>3. X # "RefreshPostCount" /\ postCount'[s] = postCount[s] /\ LocalPosts(s)' = LocalPosts(s)
  BY DEF ApiSame
<1>4. wrapper'[s].local = wrapper[s].local /\ reblog'[s] \cap {s} = reblog[s] \cap {s}
  BY DEF ApiSame
<1>5. X = "GetPost" => n = Idle \/ run[s]["api"].op # "posts_pin" \/ post'[s].vis = "public"
  OBVIOUS
<1> QED
  BY <1>1, <1>2, <1>3, <1>4, <1>5, ApiMoves

\* What the rules of the inbox go by.
InboxSame ==
  /\ notice'[Author] = notice[Author]
  /\ Reader \in favourite[Author] => Reader \in favourite'[Author]
  /\ Reader \in reblog[Author] => Reader \in reblog'[Author]
  /\ post[Author] = NoPost => post'[Author] = NoPost

LEMMA StepGoes ==
  ASSUME PostsInv, NEW s \in Servers, NEW k \in Slots, NEW X, NEW n, Goes(s, k, X, n),
         X # "CreatePost", created' = created, RowsOK', QueuesOK', Apart(s),
         ApiOK(s, run[s]["api"])', RowOK(s)', s = Author => InboxOK(run[Author]["inbox"])'
  PROVE  PostsInv'
<1>1. At(s, k, X) /\ run' = [run EXCEPT ![s][k] = n] /\ RequestOK(s, k, n)
  BY DEF Goes
<1>2. created /\ created'
  BY <1>1, Started
<1> QED
  BY <1>1, <1>2, StepKeeps

LEMMA InboxGoesBy ==
  ASSUME PostsInv, NEW s \in Servers, NEW k \in Slots, NEW X, NEW n, Goes(s, k, X, n), k # "inbox", InboxSame
  PROVE  s = Author => InboxOK(run[Author]["inbox"])'
<1> HAVE s = Author
<1>1. run' = [run EXCEPT ![Author][k] = n]
  BY DEF Goes
<1>2. notice'[Author] = notice[Author] /\ (post[Author] = NoPost => post'[Author] = NoPost)
  BY DEF InboxSame
<1>3. Reader \in favourite[Author] => Reader \in favourite'[Author]
  BY DEF InboxSame
<1>4. Reader \in reblog[Author] => Reader \in reblog'[Author]
  BY DEF InboxSame
<1> QED
  BY <1>1, <1>2, <1>3, <1>4, InboxStays

LEMMA ApiGoesBy ==
  ASSUME PostsInv, NEW s \in Servers, NEW k \in Slots, NEW X, NEW n, Goes(s, k, X, n), k # "api", ApiSame(s),
         pinned'[s] = pinned[s], created' = created,
         s = Author => (post'[s] = NoPost <=> post[s] = NoPost) /\ post'[s].vis = post[s].vis
  PROVE  ApiOK(s, run[s]["api"])'
<1>1. run' = [run EXCEPT ![s][k] = n] /\ k # "api"
  BY DEF Goes
<1>2. postCount'[s] = postCount[s] /\ wrapper'[s].local = wrapper[s].local
  BY DEF ApiSame
<1>3. s \in reblog'[s] <=> s \in reblog[s]
  BY DEF ApiSame
<1> QED
  BY <1>1, <1>2, <1>3, ApiStays

LEMMA InboxGoes ==
  ASSUME PostsInv, NEW X, NEW n, Goes(Author, "inbox", X, n),
         X \notin {"CreateFavourite", "CreateReblog", "StoreNote", "DeleteNotification"},
         notice'[Author] = notice[Author], favourite'[Author] = favourite[Author],
         reblog'[Author] = reblog[Author], post[Author] = NoPost => post'[Author] = NoPost
  PROVE  InboxOK(run[Author]["inbox"])'
<1>1. PICK read \in Rows, new \in Rows : n = Idle \/ n = Moved(run[Author]["inbox"], read, new)
  BY NoRow DEF Goes
<1>2. At(Author, "inbox", X) /\ run' = [run EXCEPT ![Author]["inbox"] = n]
  BY DEF Goes
<1> QED
  BY <1>1, <1>2, InboxMoves

LEMMA QuietGoes ==
  ASSUME PostsInv, NEW s \in Servers, NEW k \in Slots, NEW X, NEW n, Goes(s, k, X, n),
         X \in {"FetchNote", "EnqueueMentioned"}, UNCHANGED <<rows, jobs, wire, history>>
  PROVE  PostsInv'
<1>1. At(s, k, X) /\ run' = [run EXCEPT ![s][k] = n] /\ RequestOK(s, k, n)
  BY DEF Goes
<1>2. PICK read \in Rows, new \in Rows : n = Idle \/ n = Moved(run[s][k], read, new) \/ k = "worker"
  BY NoRow DEF Goes
<1>3. UNCHANGED <<rows, created, ops, smooth>> /\ refused' \in BOOLEAN /\ QueuesOK'
  BY QueuesStay DEF history, PostsInv, RowsOK
<1>4. /\ X \notin {"CreatePost", "RefreshPostCount", "CreateWrapper", "DeleteReblogPost", "UnpinPost",
                   "CreateFavourite", "StoreNote", "DeleteNotification"}
      /\ X \notin {"CreateReblog", "DeleteReblog"} /\ X # "GetPost"
  OBVIOUS
<1>5. /\ X \in {"CreateReblog", "DeleteReblog"} => k = "api" /\ n = Idle
      /\ X = "GetPost" => n = Idle \/ run[s][k].op # "posts_pin" \/ post[s].vis = "public"
  BY <1>4
<1> QED
  BY <1>1, <1>2, <1>3, <1>4, <1>5, QuietKeeps

\* The edit of a post, which is not its first text any more.
LEMMA UpdatePostKeeps ==
  ASSUME PostsInv, NEW s \in Servers, NEW k \in Slots, UpdatePost(s, k)
  PROVE  PostsInv'
<1> PICK r : r = run[s][k]
  OBVIOUS
<1> PICK p : p = IF post[s] = NoPost THEN post[s] ELSE [r.new EXCEPT !.mentions = r.read.mentions]
  OBVIOUS
<1>1. /\ At(s, k, "UpdatePost") /\ GoOn(s, k) /\ post' = [post EXCEPT ![s] = p]
      /\ UNCHANGED <<favourite, reblog, wrapper, notice, pinned, postCount, jobs, wire, ops, created, refused, smooth>>
  BY DEF UpdatePost, history
<1>2. s = Author /\ k = "api"
  BY <1>1, Places
<1>3. RequestOK(s, k, r) /\ r.read \in Rows /\ r.op = "posts_update"
  BY <1>1, AtIs, UsersAre
<1>4. r.new \in Row /\ r.new.text > 0
  BY <1>3 DEF RequestOK
<1>5. r.read.mentions \in BOOLEAN
  <2>1. ASSUME NEW q \in Row PROVE q.mentions \in BOOLEAN
    BY DEF Row
  <2>2. NoPost.mentions \in BOOLEAN
    BY DEF NoPost
  <2> QED
    BY <1>3, <2>1, <2>2 DEF Rows
<1>6. p \in Rows /\ (p = NoPost <=> post[s] = NoPost) /\ (p # NoPost => p.text > 0)
  <2>1. CASE post[s] = NoPost
    BY <2>1, NoRow
  <2>2. CASE post[s] # NoPost
    <3>1. p = [r.new EXCEPT !.mentions = r.read.mentions]
      BY <2>2
    <3>2. p \in Row /\ p.text = r.new.text
      BY <1>4, <1>5, <3>1 DEF Row
    <3> QED
      BY <1>4, <2>2, <3>2, NoRow DEF Rows
  <2> QED
    BY <2>1, <2>2
<1>7. refused' \in BOOLEAN /\ created' \in BOOLEAN /\ QueuesOK'
  BY <1>1, QueuesStay DEF PostsInv, RowsOK
<1>8. RowsOK' /\ Apart(s) /\ post'[s] = p
  BY <1>1, <1>6, <1>7, PostChanges
<1>9. PICK n : Goes(s, k, "UpdatePost", n)
  BY <1>1, GoesOnIs
<1>10. ApiSame(s)
  BY <1>1, <1>6, <1>8 DEF ApiSame, LocalPosts
<1>11. ApiOK(s, run[s]["api"])'
  BY <1>2, <1>9, <1>10, ApiGoes
<1>12. RowOK(s)'
  BY <1>1, <1>6, <1>8 DEF PostsInv, RowOK
<1>13. InboxSame
  BY <1>1, <1>2, <1>6, <1>8 DEF InboxSame
<1>14. s = Author => InboxOK(run[Author]["inbox"])'
  BY <1>2, <1>9, <1>13, InboxGoesBy
<1> QED
  BY <1>1, <1>7, <1>8, <1>9, <1>11, <1>12, <1>14, StepGoes

LEMMA PinPostKeeps ==
  ASSUME PostsInv, NEW s \in Servers, NEW k \in Slots, PinPost(s, k)
  PROVE  PostsInv'
<1>1. /\ At(s, k, "PinPost") /\ GoOn(s, k) /\ pinned' = [pinned EXCEPT ![s] = TRUE]
      /\ UNCHANGED <<post, favourite, reblog, wrapper, notice, postCount, jobs, wire, ops, created, refused, smooth>>
  BY DEF PinPost, history
<1>2. s = Author /\ k = "api"
  BY <1>1, Places
<1>3. refused' \in BOOLEAN /\ created' \in BOOLEAN /\ QueuesOK'
  BY <1>1, QueuesStay DEF PostsInv, RowsOK
<1>4. RowsOK' /\ Apart(s) /\ pinned'[s] = TRUE
  BY <1>1, <1>3, PinnedChanges
<1>5. PICK n : Goes(s, k, "PinPost", n)
  BY <1>1, GoesOnIs
<1>6. ApiSame(s) /\ InboxSame
  BY <1>1 DEF ApiSame, InboxSame, LocalPosts
<1>7. ApiOK(s, run[s]["api"])'
  BY <1>2, <1>5, <1>6, ApiGoes
<1>8. post[s].vis = "public" /\ RowOK(s)
  BY <1>1, <1>2 DEF PostsInv, ApiOK, Here, At
<1>9. RowOK(s)'
  BY <1>1, <1>2, <1>8, NoRow DEF RowOK
<1>10. s = Author => InboxOK(run[Author]["inbox"])'
  BY <1>2, <1>5, <1>6, InboxGoesBy
<1> QED
  BY <1>1, <1>3, <1>4, <1>5, <1>7, <1>9, <1>10, StepGoes

LEMMA UnpinPostKeeps ==
  ASSUME PostsInv, NEW s \in Servers, NEW k \in Slots, UnpinPost(s, k)
  PROVE  PostsInv'
<1>1. /\ At(s, k, "UnpinPost") /\ GoOn(s, k) /\ pinned' = [pinned EXCEPT ![s] = FALSE]
      /\ UNCHANGED <<post, favourite, reblog, wrapper, notice, postCount, jobs, wire, ops, created, refused, smooth>>
  BY DEF UnpinPost, history
<1>2. s = Author /\ k = "api"
  BY <1>1, Places
<1>3. refused' \in BOOLEAN /\ created' \in BOOLEAN /\ QueuesOK'
  BY <1>1, QueuesStay DEF PostsInv, RowsOK
<1>4. RowsOK' /\ Apart(s) /\ pinned'[s] = FALSE
  BY <1>1, <1>3, PinnedChanges
<1>5. PICK n : Goes(s, k, "UnpinPost", n)
  BY <1>1, GoesOnIs
<1>6. ApiSame(s) /\ InboxSame
  BY <1>1 DEF ApiSame, InboxSame, LocalPosts
<1>7. ApiOK(s, run[s]["api"])'
  BY <1>2, <1>4, <1>5, <1>6, ApiGoes
<1>8. RowOK(s)'
  BY <1>1, <1>4 DEF PostsInv, RowOK
<1>9. s = Author => InboxOK(run[Author]["inbox"])'
  BY <1>2, <1>5, <1>6, InboxGoesBy
<1> QED
  BY <1>1, <1>3, <1>4, <1>5, <1>7, <1>8, <1>9, StepGoes

LEMMA RefreshPostCountKeeps ==
  ASSUME PostsInv, NEW s \in Servers, NEW k \in Slots, RefreshPostCount(s, k)
  PROVE  PostsInv'
<1> PICK c : c = LocalPosts(s)
  OBVIOUS
<1>1. /\ At(s, k, "RefreshPostCount") /\ GoOn(s, k) /\ postCount' = [postCount EXCEPT ![s] = c]
      /\ UNCHANGED <<post, favourite, reblog, wrapper, notice, pinned, jobs, wire, ops, created, refused, smooth>>
  BY DEF RefreshPostCount, history
<1>2. k = "api"
  BY <1>1, Places
<1>3. refused' \in BOOLEAN /\ created' \in BOOLEAN /\ QueuesOK'
  BY <1>1, QueuesStay DEF PostsInv, RowsOK
<1>4. c \in 0..2
  BY DEF PostsInv, RowsOK, Wrapper, LocalPosts
<1>5. RowsOK' /\ Apart(s) /\ postCount'[s] = c
  BY <1>1, <1>3, <1>4, PostCountChanges
<1>6. PICK n : Goes(s, k, "RefreshPostCount", n)
  BY <1>1, GoesOnIs
<1>7. InboxSame
  BY <1>1 DEF InboxSame
<1>8. ApiOK(s, run[s]["api"])'
  <2>1. PICK read \in Rows, new \in Rows : n = Idle \/ n = Moved(run[s]["api"], read, new)
    BY <1>2, <1>6, NoRow DEF Goes
  <2>2. At(s, "api", "RefreshPostCount") /\ run' = [run EXCEPT ![s]["api"] = n]
    BY <1>2, <1>6 DEF Goes
  <2>3. postCount'[s] = LocalPosts(s)'
    BY <1>1, <1>5 DEF LocalPosts
  <2>4. wrapper'[s].local = wrapper[s].local /\ reblog'[s] \cap {s} = reblog[s] \cap {s}
    BY <1>1
  <2> PICK X : X = "RefreshPostCount"
    OBVIOUS
  <2>5. At(s, "api", X) /\ X \notin {"CreateWrapper", "DeleteReblogPost", "CreateReblog", "DeleteReblog"}
        /\ X # "GetPost" /\ X # "UnpinPost"
    BY <2>2
  <2>6. run' = [run EXCEPT ![s]["api"] = n]
    BY <2>2
  <2>7. \/ postCount'[s] = LocalPosts(s)'
        \/ X # "RefreshPostCount" /\ postCount'[s] = postCount[s] /\ LocalPosts(s)' = LocalPosts(s)
    BY <2>3
  <2>8. /\ X \in {"CreateReblog", "DeleteReblog"} => n = Idle
        /\ X = "GetPost" => n = Idle \/ run[s]["api"].op # "posts_pin" \/ post'[s].vis = "public"
        /\ X = "UnpinPost" => ~pinned'[s]
    BY <2>5
  <2> QED
    BY <2>1, <2>4, <2>5, <2>6, <2>7, <2>8, ApiMoves
<1>9. RowOK(s)'
  BY <1>1 DEF PostsInv, RowOK
<1>10. s = Author => InboxOK(run[Author]["inbox"])'
  BY <1>2, <1>6, <1>7, InboxGoesBy
<1> QED
  BY <1>1, <1>3, <1>5, <1>6, <1>8, <1>9, <1>10, StepGoes

\* The counter is refreshed next.
LEMMA RefreshNext ==
  ASSUME PostsInv, NEW s \in Servers, NEW X, NEW n, Goes(s, "api", X, n),
         X \in Counted(run[s]["api"].op), n.todo = Tail(run[s]["api"].todo),
         wrapper'[s].local = IF s \in reblog'[s] THEN 1 ELSE 0
  PROVE  ApiOK(s, run[s]["api"])'
<1> "api" \in Slots
  BY ServersAre
<1> PICK r : r = run[s]["api"]
  OBVIOUS
<1>1. At(s, "api", X) /\ run' = [run EXCEPT ![s]["api"] = n]
  BY DEF Goes
<1>2. Good(r.op, r.todo) /\ r.todo # <<>> /\ Head(r.todo) = X
  BY <1>1, AtIs
<1>3. n.todo # <<>> /\ Head(n.todo) = "RefreshPostCount"
  BY <1>2, GoesTo
<1>4. run'[s]["api"] = n
  BY <1>1 DEF PostsInv, RunsOK
<1> QED
  BY <1>3, <1>4 DEF ApiOK, Here, LocalPosts

\* The post is there from here on, and before it nothing was.
LEMMA CreatePostKeeps ==
  ASSUME PostsInv, NEW s \in Servers, NEW k \in Slots, CreatePost(s, k)
  PROVE  PostsInv'
<1> PICK r : r = run[s][k]
  OBVIOUS
<1> PICK p : p = r.new
  OBVIOUS
<1>1. /\ At(s, k, "CreatePost") /\ GoOn(s, k) /\ post' = [post EXCEPT ![s] = p] /\ created' = TRUE
      /\ UNCHANGED <<favourite, reblog, wrapper, notice, pinned, postCount, jobs, wire, ops, refused, smooth>>
  BY DEF CreatePost
<1>2. s = Author /\ k = "api"
  BY <1>1, Places
<1>3. RequestOK(s, k, r) /\ r.op = "posts_create" /\ r.todo # <<>> /\ Head(r.todo) = "CreatePost"
  BY <1>1, AtIs, UsersAre
<1>4. p \in Row /\ p \in Rows /\ p # NoPost
  BY <1>3, NoRow DEF RequestOK, Rows
<1>5. refused' \in BOOLEAN /\ created' \in BOOLEAN /\ QueuesOK'
  BY <1>1, QueuesStay DEF PostsInv, RowsOK
<1>6. RowsOK' /\ Apart(s) /\ post'[s] = p
  BY <1>1, <1>4, <1>5, PostChanges
<1>7. PICK n : Goes(s, k, "CreatePost", n) /\ n.todo = Tail(r.todo)
  BY <1>1, GoesOnIs
<1>8. /\ post[Author] = NoPost /\ notice[Author] = {} /\ run[Author]["inbox"] = Idle
      /\ \A t \in Servers \ {s} : run[t]["api"] = Idle
  <2>1. ~created
    BY <1>2, <1>3 DEF PostsInv, ApiOK, Here
  <2>2. FreshOK
    BY DEF PostsInv
  <2>3. \A t \in Servers, l \in Slots : t # Author \/ l # "api" => run[t][l] = Idle
    BY <2>1, <2>2 DEF FreshOK
  <2>4. post[Author] = NoPost /\ notice[Author] = {}
    BY <2>1, <2>2, ServersAre DEF FreshOK
  <2> QED
    BY <1>2, <2>3, <2>4, ServersAre
<1>9. reblog[s] = {} /\ ~pinned[s] /\ wrapper[s].local = 0
  BY <1>2, <1>3, <1>8 DEF PostsInv, RowOK, ApiOK, Here
<1>10. ApiOK(s, run[s]["api"])'
  <2>1. wrapper'[s].local = IF s \in reblog'[s] THEN 1 ELSE 0
    BY <1>1, <1>9
  <2>2. "CreatePost" \in Counted(r.op)
    BY DEF Counted
  <2> QED
    BY <1>2, <1>7, <2>1, <2>2, RefreshNext
<1>11. RowOK(s)'
  BY <1>1, <1>9 DEF RowOK
<1>12. run' = [run EXCEPT ![s][k] = n] /\ RequestOK(s, k, n)
  BY <1>7 DEF Goes
<1>13. InboxOK(run[Author]["inbox"])'
  <2>1. run'[Author]["inbox"] = Idle
    BY <1>2, <1>8, <1>12, ServersAre DEF PostsInv, RunsOK
  <2>2. notice'[Author] = {}
    BY <1>1, <1>8
  <2> QED
    BY <2>1, <2>2, IdleOK DEF InboxOK
<1> QED
  BY <1>1, <1>5, <1>6, <1>8, <1>10, <1>11, <1>12, <1>13, StepKeeps

\* A post that nobody favourited or reblogged goes, and is not pinned any more.
LEMMA DeletePostKeeps ==
  ASSUME PostsInv, NEW s \in Servers, NEW k \in Slots, DeletePost(s, k)
  PROVE  PostsInv'
<1> PICK r : r = run[s][k]
  OBVIOUS
<1>1. /\ At(s, k, "DeletePost") /\ created' = created
      /\ UNCHANGED <<favourite, reblog, wrapper, notice, pinned, postCount, jobs, wire, ops, smooth>>
  BY DEF DeletePost
<1>2. refused \in BOOLEAN /\ created' \in BOOLEAN /\ QueuesOK'
  BY <1>1, QueuesStay DEF PostsInv, RowsOK
<1>3. CASE Return(s, k) /\ refused' = (refused \/ k = "inbox") /\ UNCHANGED post
  <2>1. UNCHANGED <<rows, jobs, wire, created, ops, smooth>> /\ refused' \in BOOLEAN
    BY <1>1, <1>2, <1>3 DEF rows
  <2> QED
    BY <1>1, <1>3, <2>1, PassKeeps
<1>4. CASE /\ favourite[s] \cup reblog[s] = {} /\ post' = [post EXCEPT ![s] = NoPost]
           /\ GoOn(s, k) /\ UNCHANGED refused
  <2>1. refused' \in BOOLEAN /\ reblog[s] = {}
    BY <1>2, <1>4
  <2>2. RowsOK' /\ Apart(s) /\ post'[s] = NoPost
    BY <1>1, <1>2, <1>4, <2>1, NoRow, PostChanges
  <2>3. PICK n : Goes(s, k, "DeletePost", n) /\ n.todo = Tail(r.todo)
    BY <1>1, <1>4, GoesOnIs
  <2>4. CASE s = Author /\ k = "api" /\ r.op = "posts_delete"
    <3>1. ~pinned[s] /\ wrapper[s].local = 0
      BY <1>1, <2>1, <2>4 DEF PostsInv, ApiOK, Here, At
    <3>2. wrapper'[s].local = IF s \in reblog'[s] THEN 1 ELSE 0
      BY <1>1, <2>1, <3>1
    <3>3. "DeletePost" \in Counted(r.op)
      BY <2>4 DEF Counted
    <3>4. ApiOK(s, run[s]["api"])'
      BY <2>3, <2>4, <3>2, <3>3, RefreshNext
    <3>5. RowOK(s)' /\ InboxOK(run[Author]["inbox"])'
      BY <1>1, <2>1, <2>2, <2>4, <3>1 DEF RowOK, InboxOK
    <3> QED
      BY <1>1, <1>2, <2>2, <2>3, <3>4, <3>5, StepGoes
  <2>5. CASE s = Reader /\ k = "inbox"
    <3>1. ApiSame(s)
      BY <1>1, <2>5, ServersAre DEF ApiSame, LocalPosts
    <3>2. ApiOK(s, run[s]["api"])'
      BY <1>1, <2>3, <2>5, <3>1, ServersAre, ApiGoesBy
    <3>3. RowOK(s)'
      BY <1>1, <2>1, <2>5, ServersAre DEF PostsInv, RowOK
    <3> QED
      BY <1>1, <1>2, <2>2, <2>3, <2>5, <3>2, <3>3, ServersAre, StepGoes
  <2> QED
    BY <1>1, <2>4, <2>5, Places
<1> QED
  BY <1>3, <1>4 DEF DeletePost

-----------------------------------------------------------------------------
(* Favourites and reblogs.                                                 *)

\* What is asked of the inbox of the author where a row was written.
LEMMA InboxSettles ==
  ASSUME PostsInv, NEW X, NEW n, Goes(Author, "inbox", X, n), X # "DeleteNotification", InboxSame,
         Here(n, {"Notify"}) /\ n.op = "Like" /\ post'[Author] # NoPost => Reader \in favourite'[Author],
         Here(n, {"Notify"}) /\ n.op = "Announce" /\ post'[Author] # NoPost => Reader \in reblog'[Author]
  PROVE  InboxOK(run[Author]["inbox"])'
<1> PICK r : r = run[Author]["inbox"]
  OBVIOUS
<1>1. run'[Author]["inbox"] = n /\ InboxOK(r) /\ ~Here(r, {"DeleteNotification"})
  BY ServersAre DEF Goes, At, Here, PostsInv, RunsOK
<1>2. post'[Author] # NoPost => post[Author] # NoPost
  BY DEF InboxSame
<1>3. post'[Author] # NoPost =>
        /\ "favourite" \in notice'[Author] => Reader \in favourite'[Author]
        /\ "reblog" \in notice'[Author] => Reader \in reblog'[Author]
  BY <1>1, <1>2 DEF InboxOK, InboxSame
<1>4. InboxOK(n)'
  BY <1>3 DEF InboxOK, Here
<1> QED
  BY <1>1, <1>4 DEF InboxOK, Here

LEMMA ActorIs ==
  ASSUME NEW s \in Servers, NEW k
  PROVE  /\ Actor(s, k) \in Servers
         /\ k = "api" => Actor(s, k) = s
         /\ k = "inbox" => Actor(s, k) # s
         /\ s = Author /\ k = "inbox" => Actor(s, k) = Reader
BY ServersAre DEF Actor, Other

LEMMA CreateFavouriteKeeps ==
  ASSUME PostsInv, NEW s \in Servers, NEW k \in Slots, CreateFavourite(s, k)
  PROVE  PostsInv'
<1> PICK r : r = run[s][k]
  OBVIOUS
<1> PICK f : f = IF post[s] # NoPost THEN favourite[s] \cup {Actor(s, k)} ELSE favourite[s]
  OBVIOUS
<1>1. /\ At(s, k, "CreateFavourite") /\ (GoOn(s, k) \/ Return(s, k))
      /\ UNCHANGED <<post, reblog, wrapper, notice, pinned, postCount, jobs, wire, ops, created, refused, smooth>>
  BY DEF CreateFavourite, history
<1>2. f \in SUBSET Servers
  BY ActorIs DEF PostsInv, RowsOK
<1>3. favourite' = [favourite EXCEPT ![s] = f]
  <2>1. CASE post[s] # NoPost /\ Actor(s, k) \notin favourite[s]
    BY <2>1 DEF CreateFavourite
  <2>2. CASE ~(post[s] # NoPost /\ Actor(s, k) \notin favourite[s])
    <3>1. favourite' = favourite /\ f = favourite[s]
      BY <2>2 DEF CreateFavourite
    <3>2. favourite \in [Servers -> SUBSET Servers]
      BY DEF PostsInv, RowsOK
    <3> QED
      BY <3>1, <3>2
  <2> QED
    BY <2>1, <2>2
<1>4. refused' \in BOOLEAN /\ created' \in BOOLEAN /\ QueuesOK'
  BY <1>1, QueuesStay DEF PostsInv, RowsOK
<1>5. RowsOK' /\ Apart(s) /\ favourite'[s] = f
  BY <1>1, <1>2, <1>3, <1>4, FavouriteChanges
<1>6. PICK n : /\ Goes(s, k, "CreateFavourite", n)
               /\ n.todo # <<>> => n.op = r.op
  <2>1. CASE Return(s, k)
    BY <1>1, <2>1, ReturnsIs, IdleOK
  <2>2. CASE GoOn(s, k)
    BY <1>1, <2>2, GoesOnIs
  <2> QED
    BY <1>1, <2>1, <2>2
<1>7. k \in {"api", "inbox"} /\ r.op \in {"favourites_create", "Like"}
  BY <1>1, Places, AtIs, UsersAre
<1>8. ApiSame(s) /\ InboxSame
  <2>1. favourite[Author] \subseteq favourite'[Author]
    <3>1. favourite \in [Servers -> SUBSET Servers]
      BY DEF PostsInv, RowsOK
    <3>2. favourite[s] \subseteq f
      OBVIOUS
    <3> QED
      BY <1>3, <3>1, <3>2, ServersAre
  <2> QED
    BY <1>1, <2>1 DEF ApiSame, InboxSame, LocalPosts
<1>9. ApiOK(s, run[s]["api"])'
  <2>1. CASE k = "api"
    BY <1>6, <1>8, <2>1, ApiGoes
  <2>2. CASE k # "api"
    BY <1>1, <1>6, <1>8, <2>2, ApiGoesBy
  <2> QED
    BY <2>1, <2>2
<1>10. RowOK(s)'
  BY <1>1 DEF PostsInv, RowOK
<1>11. ASSUME s = Author PROVE InboxOK(run[Author]["inbox"])'
  <2>1. CASE k # "inbox"
    BY <1>6, <1>8, <1>11, <2>1, InboxGoesBy
  <2>2. CASE k = "inbox"
    <3>1. post'[Author] # NoPost => Reader \in favourite'[Author]
      BY <1>1, <1>5, <1>11, <2>2, ActorIs
    <3>2. Here(n, {"Notify"}) => n.op # "Announce"
      BY <1>6, <1>7 DEF Here
    <3>3. Goes(Author, "inbox", "CreateFavourite", n)
      BY <1>6, <1>11, <2>2
    <3> QED
      BY <1>8, <3>1, <3>2, <3>3, InboxSettles
  <2> QED
    BY <2>1, <2>2
<1> QED
  BY <1>1, <1>4, <1>5, <1>6, <1>9, <1>10, <1>11, StepGoes

\* In the inbox of the author the notification goes next.
LEMMA NoticeGoesNext ==
  ASSUME PostsInv, NEW X, NEW n, Goes(Author, "inbox", X, n), X \in {"DeleteFavourite", "DeleteReblog"},
         n.todo = Tail(run[Author]["inbox"].todo), n.todo # <<>> => n.op = run[Author]["inbox"].op,
         notice'[Author] = notice[Author], post[Author] = NoPost => post'[Author] = NoPost,
         IF X = "DeleteFavourite" THEN reblog'[Author] = reblog[Author]
         ELSE favourite'[Author] = favourite[Author]
  PROVE  InboxOK(run[Author]["inbox"])'
<1> PICK r : r = run[Author]["inbox"]
  OBVIOUS
<1> "inbox" \in Slots /\ Author \in Servers
  BY ServersAre
<1>1. At(Author, "inbox", X)
  BY DEF Goes
<1>2. Good(r.op, r.todo) /\ r.todo # <<>> /\ Head(r.todo) = X /\ r.op \in Users[X] /\ r.op \in OpsAt(Author, "inbox")
  BY <1>1, AtIs
<1>3. run'[Author]["inbox"] = n /\ InboxOK(r) /\ ~Here(r, {"DeleteNotification"})
  BY <1>2 DEF Goes, At, Here, PostsInv, RunsOK
<1>4. r.op = IF X = "DeleteFavourite" THEN "UndoLike" ELSE "UndoAnnounce"
  <2>1. r.op \in {"none"} \cup Answers
    BY <1>2, SlotIs
  <2>2. r.op \in Users["DeleteFavourite"] \/ X # "DeleteFavourite"
    BY <1>2
  <2>3. r.op \in Users["DeleteReblog"] \/ X # "DeleteReblog"
    BY <1>2
  <2> QED
    BY <2>1, <2>2, <2>3, UsersAre, OpNames
<1>5. n.todo # <<>> /\ Head(n.todo) = "DeleteNotification"
  BY <1>2, <1>4, GoesTo
<1>6. Here(n, {"DeleteNotification"}) /\ n.op = r.op /\ ~Here(n, {"Notify"})
  BY <1>5 DEF Here
<1>7. InboxOK(n)'
  BY <1>3, <1>4, <1>6 DEF InboxOK, Here
<1> QED
  BY <1>3, <1>7 DEF InboxOK, Here

LEMMA DeleteFavouriteKeeps ==
  ASSUME PostsInv, NEW s \in Servers, NEW k \in Slots, DeleteFavourite(s, k)
  PROVE  PostsInv'
<1> PICK r : r = run[s][k]
  OBVIOUS
<1> PICK f : f = favourite[s] \ {Actor(s, k)}
  OBVIOUS
<1>1. /\ At(s, k, "DeleteFavourite") /\ GoOn(s, k) /\ favourite' = [favourite EXCEPT ![s] = f]
      /\ UNCHANGED <<post, reblog, wrapper, notice, pinned, postCount, jobs, wire, ops, created, refused, smooth>>
  BY DEF DeleteFavourite, history
<1>2. f \in SUBSET Servers
  BY DEF PostsInv, RowsOK
<1>3. refused' \in BOOLEAN /\ created' \in BOOLEAN /\ QueuesOK'
  BY <1>1, QueuesStay DEF PostsInv, RowsOK
<1>4. RowsOK' /\ Apart(s) /\ favourite'[s] = f
  BY <1>1, <1>2, <1>3, FavouriteChanges
<1>5. PICK n : /\ Goes(s, k, "DeleteFavourite", n) /\ n.todo = Tail(r.todo)
               /\ n.todo # <<>> => n.op = r.op
  BY <1>1, GoesOnIs
<1>6. k \in {"api", "inbox"}
  BY <1>1, Places
<1>7. ApiSame(s)
  BY <1>1 DEF ApiSame, LocalPosts
<1>8. ApiOK(s, run[s]["api"])'
  <2>1. CASE k = "api"
    BY <1>5, <1>7, <2>1, ApiGoes
  <2>2. CASE k # "api"
    BY <1>1, <1>5, <1>7, <2>2, ApiGoesBy
  <2> QED
    BY <2>1, <2>2
<1>9. RowOK(s)'
  BY <1>1 DEF PostsInv, RowOK
<1>10. ASSUME s = Author PROVE InboxOK(run[Author]["inbox"])'
  <2>1. CASE k = "api"
    <3>1. InboxSame
      BY <1>1, <1>4, <1>10, <2>1, ActorIs, ServersAre DEF InboxSame
    <3> QED
      BY <1>5, <1>10, <2>1, <3>1, InboxGoesBy
  <2>2. CASE k = "inbox"
    <3>1. Goes(Author, "inbox", "DeleteFavourite", n) /\ n.todo = Tail(run[Author]["inbox"].todo)
          /\ (n.todo # <<>> => n.op = run[Author]["inbox"].op)
      BY <1>5, <1>10, <2>2
    <3> QED
      BY <1>1, <3>1, NoticeGoesNext
  <2> QED
    BY <1>6, <2>1, <2>2
<1> QED
  BY <1>1, <1>3, <1>4, <1>5, <1>8, <1>9, <1>10, StepGoes

\* An API request of s that is now at the wrapper of its reblog.
LEMMA ApiReaches ==
  ASSUME PostsInv, NEW s \in Servers, NEW X \in {"CreateReblog", "DeleteReblog"}, NEW n, Goes(s, "api", X, n),
         n.todo = Tail(run[s]["api"].todo), wrapper' = wrapper, postCount' = postCount, post' = post,
         X = "CreateReblog" => s \in reblog'[s] /\ s \notin reblog[s],
         X = "DeleteReblog" => s \notin reblog'[s]
  PROVE  ApiOK(s, run[s]["api"])'
<1> "api" \in Slots
  BY ServersAre
<1> PICK r : r = run[s]["api"]
  OBVIOUS
<1>1. At(s, "api", X) /\ run' = [run EXCEPT ![s]["api"] = n]
  BY DEF Goes
<1>2. /\ Good(r.op, r.todo) /\ r.todo # <<>> /\ Head(r.todo) = X
      /\ r.op \in Users[X] /\ r.op \in OpsAt(s, "api")
  BY <1>1, AtIs
<1>3. run'[s]["api"] = n /\ ApiOK(s, r)
  BY <1>1 DEF PostsInv, RunsOK
<1>4. LocalPosts(s)' = LocalPosts(s) /\ postCount[s] = LocalPosts(s)
      /\ wrapper[s].local = IF s \in reblog[s] THEN 1 ELSE 0
  BY <1>2, <1>3 DEF ApiOK, Here, LocalPosts
<1>5. r.op \notin Activities
  BY <1>2, SlotIs
<1>6. CASE X = "CreateReblog"
  <2>1. r.op = "reblogs_create"
    BY <1>2, <1>5, <1>6, UsersAre, OpNames
  <2>2. n.todo # <<>> /\ Head(n.todo) = "CreateWrapper"
    BY <1>2, <1>6, <2>1, GoesTo
  <2> QED
    BY <1>3, <1>4, <1>6, <2>2 DEF ApiOK, Here, LocalPosts
<1>7. CASE X = "DeleteReblog"
  <2>1. r.op = "reblogs_delete"
    BY <1>2, <1>5, <1>7, UsersAre, OpNames
  <2>2. n.todo # <<>> /\ Head(n.todo) = "DeleteReblogPost"
    BY <1>2, <1>7, <2>1, GoesTo
  <2> QED
    BY <1>3, <1>4, <1>7, <2>2 DEF ApiOK, Here, LocalPosts
<1> QED
  BY <1>6, <1>7

LEMMA CreateReblogKeeps ==
  ASSUME PostsInv, NEW s \in Servers, NEW k \in Slots, CreateReblog(s, k)
  PROVE  PostsInv'
<1> PICK r : r = run[s][k]
  OBVIOUS
<1> PICK f : f = IF post[s] # NoPost THEN reblog[s] \cup {Actor(s, k)} ELSE reblog[s]
  OBVIOUS
<1> PICK a : a = Actor(s, k)
  OBVIOUS
<1>1. /\ At(s, k, "CreateReblog")
      /\ UNCHANGED <<post, favourite, wrapper, notice, pinned, postCount, jobs, wire, ops, created, refused, smooth>>
  BY DEF CreateReblog, history
<1>2. f \in SUBSET Servers
  BY ActorIs DEF PostsInv, RowsOK
<1>3. reblog' = [reblog EXCEPT ![s] = f]
  <2>1. CASE post[s] # NoPost /\ Actor(s, k) \notin reblog[s]
    BY <2>1 DEF CreateReblog
  <2>2. CASE ~(post[s] # NoPost /\ Actor(s, k) \notin reblog[s])
    <3>1. reblog' = reblog /\ f = reblog[s]
      BY <2>2 DEF CreateReblog
    <3>2. reblog \in [Servers -> SUBSET Servers]
      BY DEF PostsInv, RowsOK
    <3> QED
      BY <3>1, <3>2
  <2> QED
    BY <2>1, <2>2
<1>4. refused' \in BOOLEAN /\ created' \in BOOLEAN /\ QueuesOK'
  BY <1>1, QueuesStay DEF PostsInv, RowsOK
<1>5. RowsOK' /\ Apart(s) /\ reblog'[s] = f
  BY <1>1, <1>2, <1>3, <1>4, ReblogChanges
<1>6. k \in {"api", "inbox"} /\ r.op \in {"reblogs_create", "Announce"}
  BY <1>1, Places, AtIs, UsersAre
<1>7. PICK n : /\ Goes(s, k, "CreateReblog", n)
               /\ n.todo # <<>> => n.op = r.op
               /\ k = "api" => IF post[s] # NoPost /\ a \notin reblog[s] THEN n.todo = Tail(r.todo) ELSE n = Idle
  <2>1. CASE Return(s, k) /\ ~(post[s] # NoPost /\ a \notin reblog[s])
    BY <1>1, <2>1, ReturnsIs, IdleOK
  <2>2. CASE GoOn(s, k) /\ (k = "api" => post[s] # NoPost /\ a \notin reblog[s])
    BY <1>1, <2>2, GoesOnIs
  <2> QED
    BY <2>1, <2>2 DEF CreateReblog
<1>8. InboxSame
  <2>1. reblog[Author] \subseteq reblog'[Author]
    <3>1. reblog \in [Servers -> SUBSET Servers]
      BY DEF PostsInv, RowsOK
    <3>2. reblog[s] \subseteq f
      OBVIOUS
    <3> QED
      BY <1>3, <3>1, <3>2, ServersAre
  <2> QED
    BY <1>1, <2>1 DEF InboxSame
<1>9. ApiOK(s, run[s]["api"])'
  <2>1. CASE k = "api" /\ post[s] # NoPost /\ a \notin reblog[s]
    <3>1. a = s /\ s \in reblog'[s] /\ s \notin reblog[s]
      BY <1>5, <2>1, ActorIs
    <3>2. Goes(s, "api", "CreateReblog", n) /\ n.todo = Tail(run[s]["api"].todo)
      BY <1>7, <2>1
    <3> QED
      BY <1>1, <3>1, <3>2, ApiReaches
  <2>2. CASE k = "api" /\ ~(post[s] # NoPost /\ a \notin reblog[s])
    <3>1. reblog'[s] = reblog[s]
      BY <1>5, <2>2
    <3>2. ApiSame(s) /\ n = Idle /\ Goes(s, "api", "CreateReblog", n)
      BY <1>1, <1>7, <2>2, <3>1 DEF ApiSame, LocalPosts
    <3> QED
      BY <3>2, ApiGoes
  <2>3. CASE k = "inbox"
    <3>1. ApiSame(s)
      BY <1>1, <1>5, <2>3, ActorIs DEF ApiSame, LocalPosts
    <3> QED
      BY <1>1, <1>7, <2>3, <3>1, ApiGoesBy
  <2> QED
    BY <1>6, <2>1, <2>2, <2>3
<1>10. RowOK(s)'
  BY <1>1, <1>5 DEF PostsInv, RowOK
<1>11. ASSUME s = Author PROVE InboxOK(run[Author]["inbox"])'
  <2>1. CASE k # "inbox"
    BY <1>7, <1>8, <1>11, <2>1, InboxGoesBy
  <2>2. CASE k = "inbox"
    <3>1. post'[Author] # NoPost => Reader \in reblog'[Author]
      BY <1>1, <1>5, <1>11, <2>2, ActorIs
    <3>2. Here(n, {"Notify"}) => n.op # "Like"
      BY <1>6, <1>7 DEF Here
    <3>3. Goes(Author, "inbox", "CreateReblog", n)
      BY <1>7, <1>11, <2>2
    <3> QED
      BY <1>8, <3>1, <3>2, <3>3, InboxSettles
  <2> QED
    BY <2>1, <2>2
<1> QED
  BY <1>1, <1>4, <1>5, <1>7, <1>9, <1>10, <1>11, StepGoes

LEMMA DeleteReblogKeeps ==
  ASSUME PostsInv, NEW s \in Servers, NEW k \in Slots, DeleteReblog(s, k)
  PROVE  PostsInv'
<1> PICK r : r = run[s][k]
  OBVIOUS
<1> PICK f : f = reblog[s] \ {Actor(s, k)}
  OBVIOUS
<1>1. /\ At(s, k, "DeleteReblog") /\ GoOn(s, k) /\ reblog' = [reblog EXCEPT ![s] = f]
      /\ UNCHANGED <<post, favourite, wrapper, notice, pinned, postCount, jobs, wire, ops, created, refused, smooth>>
  BY DEF DeleteReblog, history
<1>2. f \in SUBSET Servers
  BY DEF PostsInv, RowsOK
<1>3. refused' \in BOOLEAN /\ created' \in BOOLEAN /\ QueuesOK'
  BY <1>1, QueuesStay DEF PostsInv, RowsOK
<1>4. RowsOK' /\ Apart(s) /\ reblog'[s] = f
  BY <1>1, <1>2, <1>3, ReblogChanges
<1>5. PICK n : /\ Goes(s, k, "DeleteReblog", n) /\ n.todo = Tail(r.todo)
               /\ n.todo # <<>> => n.op = r.op
  BY <1>1, GoesOnIs
<1>6. k \in {"api", "inbox"}
  BY <1>1, Places
<1>7. ApiOK(s, run[s]["api"])'
  <2>1. CASE k = "api"
    <3>1. s \notin reblog'[s]
      BY <1>4, <2>1, ActorIs
    <3>2. Goes(s, "api", "DeleteReblog", n) /\ n.todo = Tail(run[s]["api"].todo)
      BY <1>5, <2>1
    <3> QED
      BY <1>1, <3>1, <3>2, ApiReaches
  <2>2. CASE k = "inbox"
    <3>1. ApiSame(s)
      BY <1>1, <1>4, <2>2, ActorIs DEF ApiSame, LocalPosts
    <3> QED
      BY <1>1, <1>5, <2>2, <3>1, ApiGoesBy
  <2> QED
    BY <1>6, <2>1, <2>2
<1>8. RowOK(s)'
  BY <1>1, <1>4 DEF PostsInv, RowOK
<1>9. ASSUME s = Author PROVE InboxOK(run[Author]["inbox"])'
  <2>1. CASE k = "api"
    <3>1. InboxSame
      BY <1>1, <1>4, <1>9, <2>1, ActorIs, ServersAre DEF InboxSame
    <3> QED
      BY <1>5, <1>9, <2>1, <3>1, InboxGoesBy
  <2>2. CASE k = "inbox"
    <3>1. Goes(Author, "inbox", "DeleteReblog", n) /\ n.todo = Tail(run[Author]["inbox"].todo)
          /\ (n.todo # <<>> => n.op = run[Author]["inbox"].op)
      BY <1>5, <1>9, <2>2
    <3> QED
      BY <1>1, <3>1, NoticeGoesNext
  <2> QED
    BY <1>6, <2>1, <2>2
<1> QED
  BY <1>1, <1>3, <1>4, <1>5, <1>7, <1>8, <1>9, StepGoes

LEMMA CreateWrapperKeeps ==
  ASSUME PostsInv, NEW s \in Servers, NEW k \in Slots, CreateWrapper(s, k)
  PROVE  PostsInv'
<1> PICK r : r = run[s][k]
  OBVIOUS
<1> PICK w : w = [wrapper[s] EXCEPT !.local = 1]
  OBVIOUS
<1>1. /\ At(s, k, "CreateWrapper") /\ GoOn(s, k)
      /\ UNCHANGED <<post, favourite, reblog, notice, pinned, postCount, jobs, wire, ops, created, refused, smooth>>
  BY DEF CreateWrapper, history
<1>2. k = "api"
  BY <1>1, Places
<1>3. s \in reblog[s] /\ wrapper[s].local = 0
  BY <1>1, <1>2 DEF PostsInv, ApiOK, Here, At
<1>4. wrapper[s] \in Wrapper /\ w \in Wrapper /\ w.local = 1
  BY DEF PostsInv, RowsOK, Wrapper
<1>5. wrapper' = [wrapper EXCEPT ![s] = w]
  BY <1>3 DEF CreateWrapper
<1>6. refused' \in BOOLEAN /\ created' \in BOOLEAN /\ QueuesOK'
  BY <1>1, QueuesStay DEF PostsInv, RowsOK
<1>7. RowsOK' /\ Apart(s) /\ wrapper'[s] = w
  BY <1>1, <1>4, <1>5, <1>6, WrapperChanges
<1>8. PICK n : Goes(s, k, "CreateWrapper", n) /\ n.todo = Tail(r.todo)
  BY <1>1, GoesOnIs
<1>9. ApiOK(s, run[s]["api"])'
  <2>1. wrapper'[s].local = IF s \in reblog'[s] THEN 1 ELSE 0
    BY <1>1, <1>3, <1>4, <1>7
  <2>2. "CreateWrapper" \in Counted(r.op)
    BY DEF Counted
  <2> QED
    BY <1>2, <1>8, <2>1, <2>2, RefreshNext
<1>10. RowOK(s)' /\ InboxSame
  BY <1>1 DEF PostsInv, RowOK, InboxSame
<1>11. s = Author => InboxOK(run[Author]["inbox"])'
  BY <1>2, <1>8, <1>10, InboxGoesBy
<1> QED
  BY <1>1, <1>6, <1>7, <1>8, <1>9, <1>10, <1>11, StepGoes

LEMMA DeleteReblogPostKeeps ==
  ASSUME PostsInv, NEW s \in Servers, NEW k \in Slots, DeleteReblogPost(s, k)
  PROVE  PostsInv'
<1> PICK r : r = run[s][k]
  OBVIOUS
<1> PICK w : w = [local |-> 0, remote |-> FALSE]
  OBVIOUS
<1>1. /\ At(s, k, "DeleteReblogPost") /\ GoOn(s, k) /\ wrapper' = [wrapper EXCEPT ![s] = w]
      /\ UNCHANGED <<post, favourite, reblog, notice, pinned, postCount, jobs, wire, ops, created, refused, smooth>>
  BY DEF DeleteReblogPost, history
<1>2. k = "api"
  BY <1>1, Places
<1>3. s \notin reblog[s]
  BY <1>1, <1>2 DEF PostsInv, ApiOK, Here, At
<1>4. w \in Wrapper /\ w.local = 0
  BY DEF Wrapper
<1>5. refused' \in BOOLEAN /\ created' \in BOOLEAN /\ QueuesOK'
  BY <1>1, QueuesStay DEF PostsInv, RowsOK
<1>6. RowsOK' /\ Apart(s) /\ wrapper'[s] = w
  BY <1>1, <1>4, <1>5, WrapperChanges
<1>7. PICK n : Goes(s, k, "DeleteReblogPost", n) /\ n.todo = Tail(r.todo)
  BY <1>1, GoesOnIs
<1>8. ApiOK(s, run[s]["api"])'
  <2>1. wrapper'[s].local = IF s \in reblog'[s] THEN 1 ELSE 0
    BY <1>1, <1>3, <1>4, <1>6
  <2>2. "DeleteReblogPost" \in Counted(r.op)
    BY DEF Counted
  <2> QED
    BY <1>2, <1>7, <2>1, <2>2, RefreshNext
<1>9. RowOK(s)' /\ InboxSame
  BY <1>1 DEF PostsInv, RowOK, InboxSame
<1>10. s = Author => InboxOK(run[Author]["inbox"])'
  BY <1>2, <1>7, <1>9, InboxGoesBy
<1> QED
  BY <1>1, <1>5, <1>6, <1>7, <1>8, <1>9, <1>10, StepGoes

LEMMA CreateRemoteWrapperKeeps ==
  ASSUME PostsInv, NEW s \in Servers, NEW k \in Slots, CreateRemoteWrapper(s, k)
  PROVE  PostsInv'
<1> PICK w : w = [wrapper[s] EXCEPT !.remote = TRUE]
  OBVIOUS
<1>1. /\ At(s, k, "CreateRemoteWrapper") /\ GoOn(s, k) /\ wrapper' = [wrapper EXCEPT ![s] = w]
      /\ UNCHANGED <<post, favourite, reblog, notice, pinned, postCount, jobs, wire, ops, created, refused, smooth>>
  BY DEF CreateRemoteWrapper, history
<1>2. k = "inbox"
  BY <1>1, Places
<1>3. w \in Wrapper /\ w.local = wrapper[s].local
  BY DEF PostsInv, RowsOK, Wrapper
<1>4. refused' \in BOOLEAN /\ created' \in BOOLEAN /\ QueuesOK'
  BY <1>1, QueuesStay DEF PostsInv, RowsOK
<1>5. RowsOK' /\ Apart(s) /\ wrapper'[s] = w
  BY <1>1, <1>3, <1>4, WrapperChanges
<1>6. PICK n : Goes(s, k, "CreateRemoteWrapper", n)
  BY <1>1, GoesOnIs
<1>7. ApiSame(s)
  BY <1>1, <1>3, <1>5 DEF ApiSame, LocalPosts
<1>8. ApiOK(s, run[s]["api"])'
  BY <1>1, <1>2, <1>6, <1>7, ApiGoesBy
<1>9. RowOK(s)'
  BY <1>1 DEF PostsInv, RowOK
<1>10. s = Author => InboxOK(run[Author]["inbox"])'
  BY <1>1, <1>2, <1>6, InboxGoes
<1> QED
  BY <1>1, <1>4, <1>5, <1>6, <1>8, <1>9, <1>10, StepGoes

-----------------------------------------------------------------------------
(* Notifications, notes and the delivery of the post.                      *)

LEMMA NotifyComesFrom ==
  ASSUME PostsInv, NEW X, NEW n, Goes(Author, "inbox", X, n),
         X \notin {"CreateFavourite", "CreateReblog", "StoreNote"}
  PROVE  ~(Here(n, {"Notify"}) /\ n.op \in {"Like", "Announce"})
<1> "inbox" \in Slots /\ Author \in Servers
  BY ServersAre
<1> PICK r : r = run[Author]["inbox"]
  OBVIOUS
<1>1. At(Author, "inbox", X)
  BY DEF Goes
<1>2. /\ r \in Requests /\ r.todo # <<>> /\ Head(r.todo) = X /\ Good(r.op, r.todo)
  BY <1>1, AtIs
<1>3. PICK read \in Rows, new \in Rows : n = Idle \/ n = Moved(r, read, new)
  BY NoRow DEF Goes
<1>4. CASE n = Idle
  BY <1>4, IdleOK
<1>5. CASE n = Moved(r, read, new) /\ n.todo # <<>>
  <2>1. n.todo = Tail(r.todo) /\ n.op = r.op
    BY <1>2, <1>5, MovedIs
  <2>2. /\ r.op = "Like" /\ Head(n.todo) = "Notify" => Head(r.todo) = "CreateFavourite"
        /\ r.op = "Announce" /\ Head(n.todo) = "Notify" => Head(r.todo) \in {"CreateReblog", "StoreNote"}
    BY <1>2, <1>5, <2>1, ComesFrom
  <2> QED
    BY <1>2, <2>1, <2>2 DEF Here
<1> QED
  BY <1>3, <1>4, <1>5 DEF Here

\* A step of the inbox that writes notifications.
LEMMA NoticeKeeps ==
  ASSUME PostsInv, NEW s \in Servers, NEW k \in Slots, NEW X \in {"Notify", "DeleteNotification"},
         At(s, k, X), GoOn(s, k), NEW x \in SUBSET Notices, notice' = [notice EXCEPT ![s] = x],
         UNCHANGED <<post, favourite, reblog, wrapper, pinned, postCount, jobs, wire, history>>,
         s = Author /\ post[Author] # NoPost =>
           /\ "favourite" \in x => Reader \in favourite[Author]
           /\ "reblog" \in x => Reader \in reblog[Author]
  PROVE  PostsInv'
<1>1. UNCHANGED <<post, favourite, reblog, wrapper, pinned, postCount, jobs, wire, ops, created, refused, smooth>>
  BY DEF history
<1>2. k = "inbox"
  BY Places
<1>3. refused' \in BOOLEAN /\ created' \in BOOLEAN /\ QueuesOK'
  BY <1>1, QueuesStay DEF PostsInv, RowsOK
<1>4. RowsOK' /\ Apart(s) /\ notice'[s] = x
  BY <1>1, <1>3, NoticeChanges
<1>5. PICK n : Goes(s, k, X, n)
  BY GoesOnIs
<1>6. ApiSame(s)
  BY <1>1 DEF ApiSame, LocalPosts
<1>7. ApiOK(s, run[s]["api"])'
  BY <1>1, <1>2, <1>5, <1>6, ApiGoesBy
<1>8. RowOK(s)'
  BY <1>1 DEF PostsInv, RowOK
<1>9. ASSUME s = Author PROVE InboxOK(run[Author]["inbox"])'
  <2>1. Goes(Author, "inbox", X, n)
    BY <1>2, <1>5, <1>9
  <2>2. ~(Here(n, {"Notify"}) /\ n.op \in {"Like", "Announce"})
    BY <2>1, NotifyComesFrom
  <2>3. run'[Author]["inbox"] = n
    BY <2>1, ServersAre DEF Goes, PostsInv, RunsOK
  <2>4. InboxOK(n)'
    BY <1>1, <1>4, <1>9, <2>2 DEF InboxOK, Here
  <2> QED
    BY <2>3, <2>4 DEF InboxOK, Here
<1> QED
  BY <1>1, <1>3, <1>4, <1>5, <1>7, <1>8, <1>9, StepGoes

LEMMA NotifyKeeps ==
  ASSUME PostsInv, NEW s \in Servers, NEW k \in Slots, Notify(s, k)
  PROVE  PostsInv'
<1> PICK r : r = run[s][k]
  OBVIOUS
<1> PICK told : told = IF s = Author THEN {NoticeOf(r.op)} ELSE {x \in {"mention"} : r.new.mentions}
  OBVIOUS
<1> PICK x : x = notice[s] \cup told
  OBVIOUS
<1>1. /\ At(s, k, "Notify") /\ GoOn(s, k) /\ notice' = [notice EXCEPT ![s] = x]
      /\ UNCHANGED <<post, favourite, reblog, wrapper, pinned, postCount, jobs, wire, history>>
  BY DEF Notify
<1>2. k = "inbox" /\ Here(r, {"Notify"}) /\ r.op \in {"Like", "Announce", "Create"} /\ r.op \in OpsAt(s, k)
  BY <1>1, Places, AtIs, UsersAre DEF Here
<1>3. x \in SUBSET Notices
  <2>1. told \subseteq Notices
    BY DEF Notices, NoticeOf
  <2> QED
    BY <2>1 DEF PostsInv, RowsOK
<1>4. ASSUME s = Author, post[Author] # NoPost
      PROVE  /\ "favourite" \in x => Reader \in favourite[Author]
             /\ "reblog" \in x => Reader \in reblog[Author]
  <2>1. r.op \in {"Like", "Announce"}
    BY <1>2, <1>4, SlotIs, OpNames
  <2>2. InboxOK(r) /\ ~Here(r, {"DeleteNotification"})
    BY <1>2, <1>4 DEF PostsInv, Here
  <2>3. /\ "favourite" \in notice[Author] => Reader \in favourite[Author]
        /\ "reblog" \in notice[Author] => Reader \in reblog[Author]
        /\ r.op = "Like" => Reader \in favourite[Author]
        /\ r.op = "Announce" => Reader \in reblog[Author]
    BY <1>2, <1>4, <2>2 DEF InboxOK
  <2>4. told = IF r.op = "Like" THEN {"favourite"} ELSE {"reblog"}
    BY <1>4, <2>1 DEF NoticeOf
  <2> QED
    BY <1>4, <2>1, <2>3, <2>4
<1>5. s = Author /\ post[Author] # NoPost =>
        /\ "favourite" \in x => Reader \in favourite[Author]
        /\ "reblog" \in x => Reader \in reblog[Author]
  BY <1>4
<1> QED
  BY <1>1, <1>3, <1>5, NoticeKeeps

LEMMA DeleteNotificationKeeps ==
  ASSUME PostsInv, NEW s \in Servers, NEW k \in Slots, DeleteNotification(s, k)
  PROVE  PostsInv'
<1> PICK r : r = run[s][k]
  OBVIOUS
<1> PICK x : x = notice[s] \ {NoticeOf(r.op)}
  OBVIOUS
<1>1. /\ At(s, k, "DeleteNotification") /\ GoOn(s, k) /\ notice' = [notice EXCEPT ![s] = x]
      /\ UNCHANGED <<post, favourite, reblog, wrapper, pinned, postCount, jobs, wire, history>>
  BY DEF DeleteNotification
<1>2. k = "inbox" /\ Here(r, {"DeleteNotification"}) /\ r.op \in {"UndoLike", "UndoAnnounce"}
  BY <1>1, Places, AtIs, UsersAre DEF Here
<1>3. x \in SUBSET Notices
  BY DEF PostsInv, RowsOK
<1>4. ASSUME s = Author, post[Author] # NoPost
      PROVE  /\ "favourite" \in x => Reader \in favourite[Author]
             /\ "reblog" \in x => Reader \in reblog[Author]
  <2>1. InboxOK(r)
    BY <1>2, <1>4 DEF PostsInv
  <2>2. /\ "favourite" \in notice[Author] => Reader \in favourite[Author] \/ r.op = "UndoLike"
        /\ "reblog" \in notice[Author] => Reader \in reblog[Author] \/ r.op = "UndoAnnounce"
    BY <1>4, <2>1 DEF InboxOK
  <2>3. NoticeOf(r.op) = IF r.op = "UndoLike" THEN "favourite" ELSE "reblog"
    BY <1>2 DEF NoticeOf
  <2> QED
    BY <1>2, <1>4, <2>2, <2>3
<1>5. s = Author /\ post[Author] # NoPost =>
        /\ "favourite" \in x => Reader \in favourite[Author]
        /\ "reblog" \in x => Reader \in reblog[Author]
  BY <1>4
<1>6. /\ "DeleteNotification" \in {"Notify", "DeleteNotification"} /\ At(s, k, "DeleteNotification")
      /\ GoOn(s, k) /\ notice' = [notice EXCEPT ![s] = x] /\ x \in SUBSET Notices
      /\ UNCHANGED <<post, favourite, reblog, wrapper, pinned, postCount, jobs, wire, history>>
  BY <1>1, <1>3
<1> QED
  BY ONLY s \in Servers, k \in Slots, PostsInv, <1>5, <1>6, NoticeKeeps

LEMMA FetchNoteKeeps ==
  ASSUME PostsInv, NEW s \in Servers, NEW k \in Slots, FetchNote(s, k)
  PROVE  PostsInv'
<1> PICK r : r = run[s][k]
  OBVIOUS
<1>1. At(s, k, "FetchNote") /\ UNCHANGED <<rows, jobs, wire, history>>
  BY DEF FetchNote
<1>2. RequestOK(s, k, r) /\ r.todo # <<>> /\ Head(r.todo) = "FetchNote"
  BY <1>1, AtIs
<1>3. PICK n : Goes(s, k, "FetchNote", n)
  <2>1. CASE Return(s, k)
    BY <1>1, <2>1, ReturnsIs
  <2>2. CASE Served(Other(s)) /\ GoOnHaving(s, k, NoPost, post[Other(s)])
    <3> PICK p : p = post[Other(s)]
      OBVIOUS
    <3>1. p \in Row /\ p \in Rows
      BY <2>2, ServersAre, NoRow DEF Served, PostsInv, RowsOK, Rows
    <3> PICK n : n = Moved(r, NoPost, p)
      OBVIOUS
    <3>2. run' = [run EXCEPT ![s][k] = n]
      BY <2>2 DEF GoOnHaving, Moved
    <3>3. RequestOK(s, k, n)
      BY <1>2, <3>1, NoRow, MovedOK
    <3>4. \E read \in Rows, new \in Rows : n = Moved(run[s][k], read, new)
      BY <3>1, NoRow
    <3> QED
      BY <1>1, <3>2, <3>3, <3>4 DEF Goes
  <2> QED
    BY <2>1, <2>2 DEF FetchNote
<1> QED
  BY <1>1, <1>3, QuietGoes

\* A note is stored where nothing was.
LEMMA StoreNoteKeeps ==
  ASSUME PostsInv, NEW s \in Servers, NEW k \in Slots, StoreNote(s, k)
  PROVE  PostsInv'
<1> PICK r : r = run[s][k]
  OBVIOUS
<1> PICK p : p = IF post[s] = NoPost THEN [r.new EXCEPT !.mentions = FALSE] ELSE post[s]
  OBVIOUS
<1>1. /\ At(s, k, "StoreNote") /\ (GoOn(s, k) \/ Return(s, k))
      /\ UNCHANGED <<favourite, reblog, wrapper, notice, pinned, postCount, jobs, wire, ops, created, refused, smooth>>
  BY DEF StoreNote, history
<1>2. s = Reader /\ k = "inbox"
  BY <1>1, Places
<1>3. RequestOK(s, k, r) /\ Here(r, {"StoreNote"})
  BY <1>1, AtIs DEF Here
<1>4. p \in Rows /\ p # NoPost
  <2>1. r.new \in Row
    BY <1>3 DEF RequestOK
  <2>2. [r.new EXCEPT !.mentions = FALSE] \in Row
    BY <2>1 DEF Row
  <2>3. post[s] \in Rows
    BY DEF PostsInv, RowsOK
  <2> QED
    BY <2>2, <2>3, NoRow DEF Rows
<1>5. post' = [post EXCEPT ![s] = p]
  <2>1. CASE post[s] = NoPost
    BY <2>1 DEF StoreNote
  <2>2. CASE post[s] # NoPost
    <3>1. post' = post /\ p = post[s] /\ post \in [Servers -> Rows]
      BY <2>2 DEF StoreNote, PostsInv, RowsOK
    <3> QED
      BY <3>1
  <2> QED
    BY <2>1, <2>2
<1>6. refused' \in BOOLEAN /\ created' \in BOOLEAN /\ QueuesOK'
  BY <1>1, QueuesStay DEF PostsInv, RowsOK
<1>7. RowsOK' /\ Apart(s) /\ post'[s] = p
  BY <1>1, <1>4, <1>5, <1>6, PostChanges
<1>8. PICK n : Goes(s, k, "StoreNote", n)
  <2>1. CASE Return(s, k)
    BY <1>1, <2>1, ReturnsIs
  <2>2. CASE GoOn(s, k)
    BY <1>1, <2>2, GoesOnIs
  <2> QED
    BY <1>1, <2>1, <2>2
<1>9. ApiSame(s)
  BY <1>1, <1>2, ServersAre DEF ApiSame, LocalPosts
<1>10. ApiOK(s, run[s]["api"])'
  BY <1>1, <1>2, <1>8, <1>9, ServersAre, ApiGoesBy
<1>11. RowOK(s)'
  BY <1>1, <1>2, <1>4, <1>7, ServersAre DEF PostsInv, RowOK
<1> QED
  BY <1>1, <1>2, <1>6, <1>7, <1>8, <1>10, <1>11, ServersAre, StepGoes

LEMMA UpdateNoteKeeps ==
  ASSUME PostsInv, NEW s \in Servers, NEW k \in Slots, UpdateNote(s, k)
  PROVE  PostsInv'
<1> PICK r : r = run[s][k]
  OBVIOUS
<1> PICK p : p = IF post[s] = NoPost THEN post[s] ELSE [post[s] EXCEPT !.text = r.new.text]
  OBVIOUS
<1>1. /\ At(s, k, "UpdateNote") /\ GoOn(s, k) /\ post' = [post EXCEPT ![s] = p]
      /\ UNCHANGED <<favourite, reblog, wrapper, notice, pinned, postCount, jobs, wire, ops, created, refused, smooth>>
  BY DEF UpdateNote, history
<1>2. s = Reader /\ k = "inbox"
  BY <1>1, Places
<1>3. p \in Rows /\ (p = NoPost <=> post[s] = NoPost)
  <2>1. r.new \in Rows
    BY <1>1, AtIs
  <2>2. r.new.text \in Texts
    <3>1. ASSUME NEW q \in Row PROVE q.text \in Texts
      BY DEF Row
    <3>2. NoPost.text \in Texts
      BY NoRow, BoundsAreNumbers DEF Texts
    <3> QED
      BY <2>1, <3>1, <3>2 DEF Rows
  <2>3. CASE post[s] = NoPost
    BY <2>3, NoRow
  <2>4. CASE post[s] # NoPost
    <3>1. post[s] \in Row
      BY <2>4 DEF PostsInv, RowsOK, Rows
    <3>2. [post[s] EXCEPT !.text = r.new.text] \in Row
      BY <2>2, <3>1 DEF Row
    <3> QED
      BY <2>4, <3>2, NoRow DEF Rows
  <2> QED
    BY <2>3, <2>4
<1>4. refused' \in BOOLEAN /\ created' \in BOOLEAN /\ QueuesOK'
  BY <1>1, QueuesStay DEF PostsInv, RowsOK
<1>5. RowsOK' /\ Apart(s) /\ post'[s] = p
  BY <1>1, <1>3, <1>4, PostChanges
<1>6. PICK n : Goes(s, k, "UpdateNote", n)
  BY <1>1, GoesOnIs
<1>7. ApiSame(s)
  BY <1>1, <1>2, ServersAre DEF ApiSame, LocalPosts
<1>8. ApiOK(s, run[s]["api"])'
  BY <1>1, <1>2, <1>6, <1>7, ServersAre, ApiGoesBy
<1>9. RowOK(s)'
  BY <1>1, <1>2, <1>3, <1>5, ServersAre DEF PostsInv, RowOK
<1> QED
  BY <1>1, <1>2, <1>4, <1>5, <1>6, <1>8, <1>9, ServersAre, StepGoes

LEMMA EnqueueMentionedKeeps ==
  ASSUME PostsInv, NEW s \in Servers, NEW k \in Slots, EnqueueMentioned(s, k)
  PROVE  PostsInv'
<1> PICK r : r = run[s][k]
  OBVIOUS
<1>1. At(s, k, "EnqueueMentioned")
  BY DEF EnqueueMentioned, Enqueue
<1>2. s = Author /\ k = "worker"
  BY <1>1, Places
<1>3. CASE Enqueue(s, k, "EnqueueMentioned", "Create")
  <2>1. "Create" \in Jobs(s)
    BY <1>2, OpNames DEF Jobs
  <2> QED
    BY <1>3, <2>1, EnqueueKeeps
<1>4. CASE run' = [run EXCEPT ![s][k].todo = <<"Fanout">>] /\ UNCHANGED <<rows, jobs, wire, history>>
  <2> PICK n : n = [r EXCEPT !.todo = <<"Fanout">>]
    OBVIOUS
  <2>1. run' = [run EXCEPT ![s][k] = n]
    BY <1>4 DEF PostsInv, RunsOK
  <2>2. /\ RequestOK(s, k, r) /\ r \in Requests /\ r.op = "deliver_post"
    BY <1>1, AtIs, UsersAre
  <2>3. n.op = "deliver_post" /\ n.todo = <<"Fanout">> /\ n.read = r.read /\ n.new = r.new
    BY <2>2 DEF Requests
  <2>4. n.todo # <<>> /\ Head(n.todo) = "Fanout" /\ n.todo \in Seq(Statements)
    BY <2>3, StatementsAre
  <2>5. n \in Requests
    BY <2>2, <2>4 DEF Requests
  <2>6. RequestOK(s, k, n)
    BY <2>2, <2>3, <2>4, <2>5, LastIsGood DEF RequestOK, Here
  <2>7. Goes(s, k, "EnqueueMentioned", n)
    BY <1>1, <1>2, <2>1, <2>6 DEF Goes
  <2> QED
    BY <1>4, <2>7, QuietGoes
<1> QED
  BY <1>3, <1>4 DEF EnqueueMentioned

LEMMA UpdatePostMentionsKeeps ==
  ASSUME PostsInv, NEW s \in Servers, NEW k \in Slots, UpdatePostMentions(s, k)
  PROVE  PostsInv'
<1> PICK r : r = run[s][k]
  OBVIOUS
<1> PICK p : p = IF post[s] = NoPost THEN post[s] ELSE [post[s] EXCEPT !.mentions = TRUE]
  OBVIOUS
<1> PICK q : q = [r.read EXCEPT !.mentions = TRUE]
  OBVIOUS
<1>1. /\ At(s, k, "UpdatePostMentions") /\ post' = [post EXCEPT ![s] = p]
      /\ UNCHANGED <<favourite, reblog, wrapper, notice, pinned, postCount, jobs, wire, ops, created, refused, smooth>>
  BY DEF UpdatePostMentions, history
<1>2. s = Author /\ k = "worker"
  BY <1>1, Places
<1>3. /\ p \in Rows /\ (p = NoPost <=> post[s] = NoPost)
      /\ p.vis = post[s].vis /\ p.text = post[s].text
  <2>1. CASE post[s] = NoPost
    BY <2>1, NoRow
  <2>2. CASE post[s] # NoPost
    <3>1. post[s] \in Row
      BY <2>2 DEF PostsInv, RowsOK, Rows
    <3>2. p = [post[s] EXCEPT !.mentions = TRUE]
      BY <2>2
    <3>3. p \in Row /\ p.vis = post[s].vis /\ p.text = post[s].text
      BY <3>1, <3>2 DEF Row
    <3> QED
      BY <2>2, <3>3, NoRow DEF Rows
  <2> QED
    BY <2>1, <2>2
<1>4. refused' \in BOOLEAN /\ created' \in BOOLEAN /\ QueuesOK'
  BY <1>1, QueuesStay DEF PostsInv, RowsOK
<1>5. RowsOK' /\ Apart(s) /\ post'[s] = p
  BY <1>1, <1>3, <1>4, PostChanges
<1>6. PICK n : Goes(s, k, "UpdatePostMentions", n)
  <2>1. /\ RequestOK(s, k, r) /\ r.todo # <<>> /\ Head(r.todo) = "UpdatePostMentions"
        /\ r.op = "deliver_post" /\ Here(r, {"EnqueueMentioned", "UpdatePostMentions"})
    BY <1>1, AtIs, UsersAre DEF Here
  <2>2. r.read \in Row
    BY <2>1 DEF RequestOK
  <2>3. q \in Row /\ q \in Rows
    BY <2>2 DEF Row, Rows
  <2> PICK n : n = Moved(r, q, NoPost)
    OBVIOUS
  <2>4. RequestOK(s, k, n)
    BY <2>1, <2>3, NoRow, MovedOK
  <2>5. run' = [run EXCEPT ![s][k] = n]
    BY DEF UpdatePostMentions, GoOnHaving, Moved
  <2>6. \E read \in Rows, new \in Rows : n = Moved(run[s][k], read, new)
    BY <2>3, NoRow
  <2> QED
    BY <1>1, <2>4, <2>5, <2>6 DEF Goes
<1>7. ApiSame(s)
  BY <1>1, <1>3, <1>5 DEF ApiSame, LocalPosts
<1>8. pinned'[s] = pinned[s] /\ (post'[s] = NoPost <=> post[s] = NoPost) /\ post'[s].vis = post[s].vis
  BY <1>1, <1>3, <1>5
<1>9. ApiOK(s, run[s]["api"])'
  BY <1>1, <1>2, <1>6, <1>7, <1>8, ApiGoesBy
<1>10. RowOK(s)'
  BY <1>1, <1>3, <1>5 DEF PostsInv, RowOK
<1>11. InboxSame
  BY <1>1, <1>2, <1>8 DEF InboxSame
<1>12. s = Author => InboxOK(run[Author]["inbox"])'
  BY <1>2, <1>6, <1>11, InboxGoesBy
<1> QED
  BY <1>1, <1>4, <1>5, <1>6, <1>9, <1>10, <1>12, StepGoes

LEMMA FanoutKeeps ==
  ASSUME PostsInv, NEW s \in Servers, NEW k \in Slots, Fanout(s, k)
  PROVE  PostsInv'
<1>1. CASE At(s, k, "Fanout") /\ Return(s, k) /\ UNCHANGED <<rows, jobs, wire, history>>
  <2>1. UNCHANGED <<rows, jobs, wire, created, ops, smooth>> /\ refused' \in BOOLEAN
    BY <1>1 DEF history, PostsInv, RowsOK
  <2> QED
    BY <1>1, <2>1, PassKeeps
<1>2. CASE Enqueue(s, k, "Fanout", "Create")
  <2>1. s = Author
    BY <1>2, Places DEF Enqueue
  <2>2. "Create" \in Jobs(s)
    BY <2>1, OpNames DEF Jobs
  <2> QED
    BY <1>2, <2>2, EnqueueKeeps
<1> QED
  BY <1>1, <1>2 DEF Fanout

LEMMA StatementKeeps ==
  ASSUME PostsInv, NEW s \in Servers, NEW k \in Slots, Statement(s, k)
  PROVE  PostsInv'
BY GetPostKeeps, CreatePostKeeps, UpdatePostKeeps, DeletePostKeeps, PinPostKeeps, UnpinPostKeeps,
   RefreshPostCountKeeps, CreateFavouriteKeeps, DeleteFavouriteKeeps, CreateReblogKeeps, DeleteReblogKeeps,
   CreateWrapperKeeps, CreateRemoteWrapperKeeps, DeleteReblogPostKeeps, NotifyKeeps, DeleteNotificationKeeps,
   FetchNoteKeeps, StoreNoteKeeps, UpdateNoteKeeps, EnqueueMentionedKeeps, UpdatePostMentionsKeeps,
   FanoutKeeps, EnqueuesKeeps DEF Statement

-----------------------------------------------------------------------------
(* Requests, jobs and activities.                                          *)

\* A step that puts a request where there was another and changes no row.
LEMMA RequestKeeps ==
  ASSUME PostsInv, NEW s \in Servers, NEW k \in Slots, NEW n, run' = [run EXCEPT ![s][k] = n],
         RequestOK(s, k, n), UNCHANGED <<rows, created>>,
         ops' \in 0..MaxOps, refused' \in BOOLEAN, smooth' \in BOOLEAN, QueuesOK', FreshOK',
         k = "api" => ApiOK(s, n), k = "inbox" /\ s = Author => InboxOK(n)
  PROVE  PostsInv'
<1>1. /\ post' = post /\ favourite' = favourite /\ reblog' = reblog /\ wrapper' = wrapper
      /\ notice' = notice /\ pinned' = pinned /\ postCount' = postCount /\ created' = created
  BY DEF rows
<1>2. run \in [Servers -> [Slots -> Requests]] /\ n \in Requests
  BY DEF PostsInv, RunsOK, RequestOK
<1>3. /\ run' \in [Servers -> [Slots -> Requests]] /\ run'[s][k] = n
      /\ \A t \in Servers, l \in Slots : t # s \/ l # k => run'[t][l] = run[t][l]
  BY <1>2
<1>4. RunsOK'
  BY <1>3 DEF PostsInv, RunsOK, RequestOK, Here
<1>5. RowsOK'
  BY <1>1 DEF PostsInv, RowsOK
<1>6. ASSUME NEW t \in Servers PROVE ApiOK(t, run[t]["api"])' /\ RowOK(t)'
  <2> PICK r : r = run'[t]["api"]
    OBVIOUS
  <2>1. ApiOK(t, r) /\ RowOK(t)
    <3>1. CASE t = s /\ k = "api"
      BY <1>3, <3>1 DEF PostsInv
    <3>2. CASE t # s \/ k # "api"
      <4>1. r = run[t]["api"]
        BY <1>3, <3>2, ServersAre
      <4> QED
        BY <4>1 DEF PostsInv
    <3> QED
      BY <3>1, <3>2
  <2>2. LocalPosts(t)' = LocalPosts(t)
    BY <1>1 DEF LocalPosts
  <2>3. ApiOK(t, r)'
    BY <1>1, <2>1, <2>2 DEF ApiOK, Here
  <2> QED
    BY <1>1, <2>1, <2>3 DEF ApiOK, Here, LocalPosts, RowOK
<1>7. InboxOK(run[Author]["inbox"])'
  <2> PICK r : r = run'[Author]["inbox"]
    OBVIOUS
  <2>1. InboxOK(r)
    <3>1. CASE s = Author /\ k = "inbox"
      BY <1>3, <3>1
    <3>2. CASE s # Author \/ k # "inbox"
      <4>1. r = run[Author]["inbox"]
        BY <1>3, <3>2, ServersAre
      <4> QED
        BY <4>1 DEF PostsInv
    <3> QED
      BY <3>1, <3>2
  <2> QED
    BY <1>1, <2>1 DEF InboxOK, Here
<1> QED
  BY <1>4, <1>5, <1>6, <1>7 DEF PostsInv

LEMMA MethodsAreGood ==
  ASSUME NEW op \in DOMAIN Methods
  PROVE  /\ Good(op, Methods[op]) /\ Lacks(Methods[op], {"StoreNote"}) /\ Methods[op] # <<>>
         /\ Head(Methods[op]) = IF op = "posts_create" THEN "CreatePost"
                                ELSE IF op = "posts_unpin" THEN "UnpinPost" ELSE "GetPost"
<1> PICK m : m = Methods
  OBVIOUS
<1>1. /\ Methods["posts_create"] = PostsCreate /\ Methods["posts_update"] = PostsUpdate
      /\ Methods["posts_delete"] = PostsDelete /\ Methods["posts_pin"] = PostsPin
      /\ Methods["posts_unpin"] = PostsUnpin /\ Methods["favourites_create"] = FavouritesCreate
      /\ Methods["favourites_delete"] = FavouritesDelete /\ Methods["reblogs_create"] = ReblogsCreate
      /\ Methods["reblogs_delete"] = ReblogsDelete
  BY DEF Methods
<1>2. Good(op, Methods[op]) /\ Lacks(Methods[op], {"StoreNote"})
  BY <1>1, OpNames, PostsCreateIsGood, PostsUpdateIsGood, PostsDeleteIsGood, PostsPinIsGood, PostsUnpinIsGood,
     FavouritesCreateIsGood, FavouritesDeleteIsGood, ReblogsCreateIsGood, ReblogsDeleteIsGood
<1>3. /\ PostsCreate # <<>> /\ Head(PostsCreate) = "CreatePost"
      /\ PostsUpdate # <<>> /\ Head(PostsUpdate) = "GetPost"
      /\ PostsDelete # <<>> /\ Head(PostsDelete) = "GetPost"
      /\ PostsPin # <<>> /\ Head(PostsPin) = "GetPost"
      /\ PostsUnpin # <<>> /\ Head(PostsUnpin) = "UnpinPost"
      /\ FavouritesCreate # <<>> /\ Head(FavouritesCreate) = "GetPost"
      /\ FavouritesDelete # <<>> /\ Head(FavouritesDelete) = "GetPost"
      /\ ReblogsCreate # <<>> /\ Head(ReblogsCreate) = "GetPost"
      /\ ReblogsDelete # <<>> /\ Head(ReblogsDelete) = "GetPost"
  BY DEF PostsCreate, PostsUpdate, PostsDelete, PostsPin, PostsUnpin, FavouritesCreate, FavouritesDelete,
         ReblogsCreate, ReblogsDelete
<1>4. /\ Methods[op] # <<>>
      /\ Head(Methods[op]) = IF op = "posts_create" THEN "CreatePost"
                             ELSE IF op = "posts_unpin" THEN "UnpinPost" ELSE "GetPost"
  BY <1>1, <1>3, OpNames
<1> QED
  BY <1>2, <1>4

LEMMA RequestIs ==
  ASSUME NEW op, NEW todo, NEW new, NEW n, n = Request(op, todo, new)
  PROVE  n.op = op /\ n.todo = todo /\ n.read = NoPost /\ n.new = new
BY DEF Request

LEMMA RowIs ==
  ASSUME NEW vis \in {"public", "followers"}, NEW text \in Texts, NEW mentions \in BOOLEAN
  PROVE  [vis |-> vis, text |-> text, mentions |-> mentions] \in Row
BY DEF Row

\* The API is called.
LEMMA CallKeeps ==
  ASSUME PostsInv, NEW s \in Servers, NEW op \in Ops, Call(s, op)
  PROVE  PostsInv'
<1> "api" \in Slots
  BY ServersAre
<1>1. op \in DOMAIN Methods
  BY OpsAreMethods
<1>2. PICK vis \in {"public", "followers"} :
        run' = [run EXCEPT ![s]["api"] =
                  Request(op, Methods[op],
                          CASE op = "posts_create" -> [vis |-> vis, text |-> 0, mentions |-> FALSE]
                            [] op = "posts_update" -> [vis |-> vis, text |-> post[s].text + 1, mentions |-> FALSE]
                            [] OTHER -> NoPost)]
  BY DEF Call
<1> PICK new : new = CASE op = "posts_create" -> [vis |-> vis, text |-> 0, mentions |-> FALSE]
                       [] op = "posts_update" -> [vis |-> vis, text |-> post[s].text + 1, mentions |-> FALSE]
                       [] OTHER -> NoPost
  OBVIOUS
<1> PICK n : n = Request(op, Methods[op], new)
  OBVIOUS
<1>3. /\ run' = [run EXCEPT ![s]["api"] = n] /\ run[s]["api"] = Idle /\ ops < MaxOps /\ ops' = ops + 1
      /\ s = Author \/ op \in Interactions
      /\ IF op = "posts_create" THEN ~created ELSE post[s] # NoPost
      /\ op = "posts_update" => post[s].text < MaxEdits
      /\ UNCHANGED <<rows, jobs, wire, created, refused, smooth>>
  BY <1>2 DEF Call
<1>4. new \in Rows /\ (op \in {"posts_create", "posts_update"} => new \in Row)
      /\ (op = "posts_update" => new.text > 0)
  <2>1. CASE op = "posts_create"
    <3>1. 0 \in Texts
      BY BoundsAreNumbers DEF Texts
    <3> QED
      BY <2>1, <3>1 DEF Row, Rows
  <2>2. CASE op = "posts_update"
    <3>1. post[s] \in Row
      BY <1>3, <2>2 DEF PostsInv, RowsOK, Rows
    <3>2. post[s].text \in Texts /\ post[s].text < MaxEdits
      BY <1>3, <2>2, <3>1 DEF Row
    <3> PICK x : x = post[s].text + 1
      OBVIOUS
    <3>3. x \in Texts /\ x > 0
      BY <3>2, BoundsAreNumbers DEF Texts
    <3>4. new = [vis |-> vis, text |-> x, mentions |-> FALSE]
      BY <2>2
    <3>5. new.text = x
      BY <3>4
    <3>6. new \in Row
      BY <3>3, <3>4, RowIs
    <3> QED
      BY <3>3, <3>5, <3>6 DEF Rows
  <2>3. CASE op \notin {"posts_create", "posts_update"}
    BY <2>3, NoRow
  <2> QED
    BY <2>1, <2>2, <2>3
<1>5. n.op = op /\ n.todo = Methods[op] /\ n.read = NoPost /\ n.new = new
  BY RequestIs
<1>6. Good(op, n.todo) /\ Lacks(n.todo, {"StoreNote"}) /\ n.todo # <<>>
      /\ Head(n.todo) \in {"CreatePost", "GetPost", "UnpinPost"}
      /\ (Head(n.todo) = "CreatePost" <=> op = "posts_create")
  BY <1>1, <1>5, MethodsAreGood
<1>7. RequestOK(s, "api", n)
  <2>1. n \in Requests
    BY <1>1, <1>4, <1>6, NoRow DEF Request, Requests, AllOps, Good
  <2>2. op \in OpsAt(s, "api")
    BY <1>1, <1>3 DEF OpsAt
  <2>3. op # "Create"
    BY <1>1, OpNames
  <2> QED
    BY <1>4, <1>5, <1>6, <2>1, <2>2, <2>3 DEF RequestOK, Here
<1>8. ApiOK(s, Idle)
  BY <1>3 DEF PostsInv
<1>9. ApiOK(s, n)
  BY <1>3, <1>6, <1>8, IdleOK DEF ApiOK, Here
<1>10. ops' \in 0..MaxOps /\ refused' \in BOOLEAN /\ smooth' \in BOOLEAN /\ QueuesOK'
  BY <1>3, QueuesStay, BoundsAreNumbers DEF PostsInv, RowsOK
<1>11. FreshOK'
  <2> SUFFICES ASSUME ~created PROVE FreshOK'
    BY <1>3 DEF FreshOK
  <2>1. FreshOK
    BY DEF PostsInv
  <2>2. op = "posts_create" /\ s = Author
    BY <1>3, <2>1, OpNames DEF FreshOK
  <2>3. Here(n, {"CreatePost"})
    BY <1>6, <2>2 DEF Here
  <2>4. \A t \in Servers, l \in Slots :
          run'[t][l] # Idle => t = Author /\ l = "api" /\ Here(run'[t][l], {"CreatePost"})
    BY <1>3, <2>1, <2>2, <2>3 DEF FreshOK, PostsInv, RunsOK
  <2> QED
    BY <1>3, <2>1, <2>4 DEF FreshOK, rows, Here
<1>12. UNCHANGED <<rows, created>>
  BY <1>3
<1> QED
  BY <1>3, <1>7, <1>9, <1>10, <1>11, <1>12, RequestKeeps

LEMMA WithoutIs ==
  ASSUME NEW S, NEW js \in Seq(S), NEW i \in DOMAIN js
  PROVE  Without(js, i) \in Seq(S)
<1>1. Len(js) \in Nat /\ i \in 1..Len(js)
  OBVIOUS
<1>2. SubSeq(js, 1, i - 1) \in Seq(S)
  BY <1>1
<1>3. SubSeq(js, i + 1, Len(js)) \in Seq(S)
  BY <1>1
<1> QED
  BY <1>2, <1>3, ConcatProperties DEF Without

\* Where there is a job, the post has been created; and what is left of the jobs.
LEMMA JobsAre ==
  ASSUME PostsInv, NEW s \in Servers, NEW i \in DOMAIN jobs[s]
  PROVE  /\ created /\ jobs[s][i] \in Jobs(s) /\ Without(jobs[s], i) \in Seq(Jobs(s))
         /\ jobs[s][i] = "deliver_post" => s = Author
<1>1. jobs[s] \in Seq(Jobs(s))
  BY DEF PostsInv, QueuesOK
<1>2. created
  <2>1. jobs[s] # <<>>
    BY <1>1
  <2> QED
    BY <2>1 DEF PostsInv, FreshOK
<1>3. jobs[s][i] \in Jobs(s)
  BY <1>1
<1>4. jobs[s][i] = "deliver_post" => s = Author
  BY <1>3, OpNames DEF Jobs
<1> QED
  BY <1>1, <1>2, <1>3, <1>4, WithoutIs

LEMMA BeginDeliverPostKeeps ==
  ASSUME PostsInv, NEW s \in Servers, NEW i \in DOMAIN jobs[s], BeginDeliverPost(s, i)
  PROVE  PostsInv'
<1> PICK n : n = Request("deliver_post", DeliverPost, NoPost)
  OBVIOUS
<1> PICK js : js = Without(jobs[s], i)
  OBVIOUS
<1>1. /\ run' = [run EXCEPT ![s]["worker"] = n] /\ jobs' = [jobs EXCEPT ![s] = js]
      /\ jobs[s][i] = "deliver_post" /\ smooth' = (smooth /\ InOrder(s, i))
      /\ UNCHANGED <<rows, wire, ops, created, refused>>
  BY DEF BeginDeliverPost
<1>2. created /\ js \in Seq(Jobs(s)) /\ s = Author
  BY <1>1, JobsAre
<1>3. smooth' \in BOOLEAN
  BY <1>1
<1>4. QueuesOK'
  <2>1. wire[s] \subseteq {a \in Activity : a.type \in Jobs(s)} /\ wire' = [wire EXCEPT ![s] = wire[s]]
    BY <1>1, WireStays
  <2> QED
    BY <1>1, <1>2, <2>1, QueuesChange
<1>5. n.op = "deliver_post" /\ n.todo = DeliverPost /\ n.read = NoPost /\ n.new = NoPost
  BY RequestIs
<1>6. Good("deliver_post", n.todo) /\ Lacks(n.todo, {"StoreNote"}) /\ n.todo # <<>> /\ Head(n.todo) = "GetPost"
  <2>1. DeliverPost # <<>> /\ Head(DeliverPost) = "GetPost"
    BY DEF DeliverPost
  <2> QED
    BY <1>5, <2>1, DeliverPostIsGood
<1>7. RequestOK(s, "worker", n)
  <2>1. n \in Requests
    BY <1>6, NoRow DEF Request, Requests, AllOps, Good
  <2>2. n.op \in OpsAt(s, "worker")
    BY <1>2, <1>5 DEF OpsAt
  <2> QED
    BY <1>5, <1>6, <2>1, <2>2 DEF RequestOK, Here
<1>8. FreshOK' /\ ops' \in 0..MaxOps /\ refused' \in BOOLEAN /\ UNCHANGED <<rows, created>>
  BY <1>1, <1>2 DEF FreshOK, PostsInv, RowsOK
<1> QED
  BY <1>1, <1>3, <1>4, <1>7, <1>8, ServersAre, RequestKeeps

\* A step that leaves the requests and the rows.
LEMMA QueuesKeep ==
  ASSUME PostsInv, UNCHANGED <<rows, run, ops, created, refused>>, created, smooth' \in BOOLEAN, QueuesOK'
  PROVE  PostsInv'
<1> PICK n : n = run[Author]["worker"]
  OBVIOUS
<1>1. RequestOK(Author, "worker", n) /\ run' = [run EXCEPT ![Author]["worker"] = n]
  BY ServersAre DEF PostsInv, RunsOK
<1>2. FreshOK' /\ ops' \in 0..MaxOps /\ refused' \in BOOLEAN /\ UNCHANGED <<rows, created>>
  BY DEF FreshOK, PostsInv, RowsOK
<1> QED
  BY <1>1, <1>2, ServersAre, RequestKeeps

LEMMA SendKeeps ==
  ASSUME PostsInv, NEW s \in Servers, NEW i \in DOMAIN jobs[s], Send(s, i)
  PROVE  PostsInv'
<1> PICK type : type = jobs[s][i]
  OBVIOUS
<1> PICK js : js = Without(jobs[s], i)
  OBVIOUS
<1> PICK text : text = IF type \in {"Create", "Update"} THEN post[s].text ELSE 0
  OBVIOUS
<1> PICK mentions : mentions = (type = "Create" /\ post[s].mentions)
  OBVIOUS
<1> PICK a : a = [type |-> type, text |-> text, mentions |-> mentions]
  OBVIOUS
<1> PICK ws : ws = wire[s] \cup {a}
  OBVIOUS
<1>1. /\ type # "deliver_post" /\ (type \in {"Create", "Update"} => post[s] # NoPost)
      /\ jobs' = [jobs EXCEPT ![s] = js] /\ smooth' = (smooth /\ InOrder(s, i))
      /\ UNCHANGED <<rows, run, ops, created, refused>>
  BY DEF Send
<1>2. wire' = [wire EXCEPT ![s] = ws]
  BY DEF Send
<1>3. created /\ js \in Seq(Jobs(s)) /\ type \in Jobs(s)
  BY JobsAre
<1>4. type \in Activities
  BY <1>1, <1>3, OpNames DEF Jobs
<1>5. text \in Texts
  <2>1. post[s] \in Row => post[s].text \in Texts
    BY DEF Row
  <2>2. 0 \in Texts
    BY BoundsAreNumbers DEF Texts
  <2>3. post[s] # NoPost => post[s] \in Row
    BY DEF PostsInv, RowsOK, Rows
  <2> QED
    BY <1>1, <2>1, <2>2, <2>3
<1>6. mentions \in BOOLEAN
  OBVIOUS
<1>7. a \in Activity /\ a.type = type
  BY <1>4, <1>5, <1>6 DEF Activity
<1>8. ws \subseteq {b \in Activity : b.type \in Jobs(s)}
  BY <1>3, <1>7 DEF PostsInv, QueuesOK
<1>9. QueuesOK'
  BY <1>1, <1>2, <1>3, <1>8, QueuesChange
<1>10. smooth' \in BOOLEAN
  BY <1>1
<1> QED
  BY <1>1, <1>3, <1>9, <1>10, QueuesKeep

LEMMA GiveUpKeeps ==
  ASSUME PostsInv, NEW s \in Servers, NEW i \in DOMAIN jobs[s], GiveUp(s, i)
  PROVE  PostsInv'
<1> PICK js : js = Without(jobs[s], i)
  OBVIOUS
<1>1. /\ jobs' = [jobs EXCEPT ![s] = js] /\ UNCHANGED <<rows, run, wire, ops, created, refused>>
      /\ smooth' \in BOOLEAN
  BY DEF GiveUp
<1>2. created /\ js \in Seq(Jobs(s))
  BY JobsAre
<1>3. wire[s] \subseteq {a \in Activity : a.type \in Jobs(s)} /\ wire' = [wire EXCEPT ![s] = wire[s]]
  BY <1>1, WireStays
<1>4. QueuesOK'
  BY <1>1, <1>2, <1>3, QueuesChange
<1> QED
  BY <1>1, <1>2, <1>4, QueuesKeep

\* What the inbox of t does about an activity.
LEMMA InboxIsGood ==
  ASSUME NEW t \in Servers, NEW type \in Activities, t = Author => type \in Answers
  PROVE  /\ Good(type, Inbox(t)[type])
         /\ t = Author => Lacks(Inbox(t)[type], {"StoreNote"})
         /\ Inbox(t)[type] # <<>> =>
              /\ t = Author => Head(Inbox(t)[type]) = "GetPost"
              /\ Head(Inbox(t)[type]) = "StoreNote" => type = "Create"
              /\ Head(Inbox(t)[type]) \notin {"EnqueueMentioned", "UpdatePostMentions"}
<1> PICK todo : todo = Inbox(t)[type]
  OBVIOUS
<1>1. CASE type = "Like"
  <2>1. todo = InboxLike
    BY <1>1 DEF Inbox
  <2>2. Head(InboxLike) = "GetPost"
    BY DEF InboxLike
  <2> QED
    BY <1>1, <2>1, <2>2, InboxLikeIsGood
<1>2. CASE type = "UndoLike"
  <2>1. todo = InboxUndoLike
    BY <1>2 DEF Inbox
  <2>2. Head(InboxUndoLike) = "GetPost"
    BY DEF InboxUndoLike
  <2> QED
    BY <1>2, <2>1, <2>2, InboxUndoLikeIsGood
<1>3. CASE type = "Announce"
  <2>1. todo = InboxAnnounce(t)
    BY <1>3 DEF Inbox
  <2>2. CASE t = Author
    <3>1. todo = <<"GetPost", "CreateReblog", "Notify">> /\ Head(<<"GetPost", "CreateReblog", "Notify">>) = "GetPost"
      BY <2>1, <2>2, ServersAre DEF InboxAnnounce
    <3> QED
      BY <1>3, <3>1, BoostIsGood
  <2>3. CASE t = Reader /\ post[t] # NoPost
    <3>1. todo = <<"CreateRemoteWrapper">> /\ Head(<<"CreateRemoteWrapper">>) = "CreateRemoteWrapper"
      BY <2>1, <2>3, ServersAre DEF InboxAnnounce
    <3> QED
      BY <1>3, <2>3, <3>1, RepeatIsGood, ServersAre
  <2>4. CASE t = Reader /\ post[t] = NoPost
    <3>1. todo = <<"FetchNote", "StoreNote", "Notify">> /\ Head(<<"FetchNote", "StoreNote", "Notify">>) = "FetchNote"
      BY <2>1, <2>4, ServersAre DEF InboxAnnounce
    <3> QED
      BY <1>3, <2>4, <3>1, FetchIsGood, ServersAre
  <2> QED
    BY <2>2, <2>3, <2>4, ServersAre
<1>4. CASE type = "UndoAnnounce"
  <2>1. todo = InboxUndoAnnounce(t)
    BY <1>4 DEF Inbox
  <2>2. CASE t = Author
    <3>1. /\ todo = <<"GetPost", "DeleteReblog", "DeleteNotification">>
          /\ Head(<<"GetPost", "DeleteReblog", "DeleteNotification">>) = "GetPost"
      BY <2>1, <2>2 DEF InboxUndoAnnounce
    <3> QED
      BY <1>4, <3>1, UnboostIsGood
  <2>3. CASE t # Author
    BY <2>1, <2>3, EmptyIsGood DEF InboxUndoAnnounce
  <2> QED
    BY <2>2, <2>3
<1>5. CASE type = "Create"
  <2>1. todo = InboxCreate /\ t # Author
    BY <1>5, OpNames DEF Inbox
  <2>2. Head(InboxCreate) = "StoreNote"
    BY DEF InboxCreate
  <2> QED
    BY <1>5, <2>1, <2>2, InboxCreateIsGood
<1>6. CASE type = "Update"
  <2>1. todo = InboxUpdate
    BY <1>6 DEF Inbox
  <2>2. Head(InboxUpdate) = "GetPost"
    BY DEF InboxUpdate
  <2> QED
    BY <1>6, <2>1, <2>2, InboxUpdateIsGood
<1>7. CASE type = "Delete"
  <2>1. todo = InboxDelete
    BY <1>7 DEF Inbox
  <2>2. Head(InboxDelete) = "GetPost"
    BY DEF InboxDelete
  <2> QED
    BY <1>7, <2>1, <2>2, InboxDeleteIsGood
<1> QED
  BY <1>1, <1>2, <1>3, <1>4, <1>5, <1>6, <1>7, OpNames

\* An activity arrives.
LEMMA ReceiveKeeps ==
  ASSUME PostsInv, NEW s \in Servers, NEW a \in wire[s], Receive(s, a)
  PROVE  PostsInv'
<1> PICK t : t = Other(s)
  OBVIOUS
<1> PICK todo : todo = Inbox(t)[a.type]
  OBVIOUS
<1> PICK new : new = IF a.type \in {"Create", "Update"}
                     THEN [vis |-> "public", text |-> a.text, mentions |-> a.mentions] ELSE NoPost
  OBVIOUS
<1> PICK n : n = IF todo = <<>> THEN Idle ELSE Request(a.type, todo, new)
  OBVIOUS
<1> PICK ws : ws = wire[s] \ {a}
  OBVIOUS
<1>1. /\ run' = [run EXCEPT ![t]["inbox"] = n] /\ run[t]["inbox"] = Idle
      /\ wire' = [wire EXCEPT ![s] = ws]
      /\ jobs' \in {jobs, [jobs EXCEPT ![s] = <<a.type>> \o @]}
      /\ UNCHANGED <<rows, history>>
  BY DEF Receive
<1>2. t \in Servers /\ t # s /\ (t = Author <=> s = Reader)
  BY ServersAre DEF Other
<1>3. a \in Activity /\ a.type \in Jobs(s) /\ ws \subseteq {b \in Activity : b.type \in Jobs(s)}
  BY DEF PostsInv, QueuesOK
<1>4. a.type \in Activities /\ a.text \in Texts /\ a.mentions \in BOOLEAN
  BY <1>3 DEF Activity
<1>5. t = Author => a.type \in Answers
  BY <1>2, <1>3, ServersAre DEF Jobs
<1>6. /\ Good(a.type, todo) /\ (t = Author => Lacks(todo, {"StoreNote"}))
      /\ todo # <<>> /\ t = Author => Head(todo) = "GetPost"
      /\ todo # <<>> /\ Head(todo) = "StoreNote" => a.type = "Create"
      /\ todo # <<>> => Head(todo) \notin {"EnqueueMentioned", "UpdatePostMentions"}
  BY <1>2, <1>4, <1>5, InboxIsGood
<1>7. new \in Rows /\ (a.type \in {"Create", "Update"} => new \in Row)
  BY <1>4, RowIs, NoRow DEF Rows
<1>8. RequestOK(t, "inbox", n)
  <2>1. CASE todo = <<>>
    BY <2>1, IdleOK
  <2>2. CASE todo # <<>>
    <3>1. n = Request(a.type, todo, new)
      BY <2>2
    <3>2. n.op = a.type /\ n.todo = todo /\ n.read = NoPost /\ n.new = new
      BY <3>1, RequestIs
    <3>3. n \in Requests
      BY <1>4, <1>6, <1>7, <3>1, NoRow DEF Request, Requests, AllOps, Good
    <3>4. n.op \in OpsAt(t, "inbox")
      BY <1>4, <1>5, <3>2 DEF OpsAt
    <3>5. n.op \notin {"posts_create", "posts_update"}
      BY <1>4, <3>2, OpNames
    <3> QED
      BY <1>6, <1>7, <2>2, <3>2, <3>3, <3>4, <3>5 DEF RequestOK, Here
  <2> QED
    BY <2>1, <2>2
<1>9. ASSUME t = Author PROVE InboxOK(n)
  <2>1. InboxOK(Idle)
    BY <1>1, <1>9 DEF PostsInv
  <2>2. ~Here(n, {"Notify"}) /\ ~Here(n, {"DeleteNotification"})
    BY <1>6, <1>9, IdleOK, RequestIs DEF Here
  <2> QED
    BY <2>1, <2>2, IdleOK DEF InboxOK, Here
<1>10. QueuesOK'
  <2>1. jobs \in [Servers -> Seq(JobTypes)] /\ jobs[s] \in Seq(Jobs(s))
    BY DEF PostsInv, QueuesOK
  <2>2. <<a.type>> \o jobs[s] \in Seq(Jobs(s))
    BY <1>3, <2>1
  <2>3. CASE jobs' = jobs
    <3>1. jobs' = [jobs EXCEPT ![s] = jobs[s]]
      BY <2>1, <2>3
    <3> QED
      BY <1>1, <1>3, <2>1, <3>1, QueuesChange
  <2>4. CASE jobs' = [jobs EXCEPT ![s] = <<a.type>> \o jobs[s]]
    BY <1>1, <1>3, <2>2, <2>4, QueuesChange
  <2> QED
    BY <1>1, <2>3, <2>4
<1>11. created
  BY DEF PostsInv, FreshOK
<1>12. /\ FreshOK' /\ ops' \in 0..MaxOps /\ refused' \in BOOLEAN /\ smooth' \in BOOLEAN
       /\ UNCHANGED <<rows, created>>
  BY <1>1, <1>11 DEF history, FreshOK, PostsInv, RowsOK
<1> PICK k : k = "inbox"
  OBVIOUS
<1>13. /\ k \in Slots /\ run' = [run EXCEPT ![t][k] = n] /\ RequestOK(t, k, n) /\ k # "api"
       /\ (t = Author => InboxOK(n))
  BY <1>1, <1>8, <1>9, ServersAre
<1> QED
  BY <1>2, <1>10, <1>12, <1>13, RequestKeeps

-----------------------------------------------------------------------------
(* The theorems.                                                           *)

LEMMA InitIsPostsInv == Init => PostsInv
<1> SUFFICES ASSUME Init PROVE PostsInv
  OBVIOUS
<1>1. PICK past \in Past :
        /\ ~created => \A f \in DOMAIN past : ~past[f]
        /\ post = [s \in Servers |->
                     IF created THEN [vis |-> "public", text |-> 0, mentions |-> s = Author] ELSE NoPost]
        /\ favourite = [s \in Servers |-> {a \in {Reader} : past.liked}]
        /\ reblog = [s \in Servers |->
                       {a \in {Reader} : past.boosted} \cup {a \in {Author} : past.own /\ s = Author}]
        /\ wrapper = [s \in Servers |->
                        [local |-> IF s \in reblog[s] THEN 1 ELSE 0, remote |-> past.own /\ s = Reader]]
        /\ notice = [s \in Servers |->
                       IF s = Reader THEN {n \in {"mention"} : created}
                       ELSE {n \in {"favourite"} : past.liked} \cup {n \in {"reblog"} : past.boosted}]
        /\ pinned = [s \in Servers |-> past.pinned /\ s = Author]
  BY DEF Init
<1>2. /\ created \in BOOLEAN /\ postCount = [s \in Servers |-> LocalPosts(s)]
      /\ run = [s \in Servers |-> [k \in Slots |-> Idle]]
      /\ jobs = [s \in Servers |-> <<>>] /\ wire = [s \in Servers |-> {}]
      /\ ops = 0 /\ refused = FALSE /\ smooth = TRUE
  BY DEF Init
<1>3. ~created => ~past.liked /\ ~past.boosted /\ ~past.own /\ ~past.pinned
  BY <1>1 DEF Past
<1>4. ASSUME NEW s \in Servers
      PROVE  /\ post[s] = IF created THEN [vis |-> "public", text |-> 0, mentions |-> s = Author] ELSE NoPost
             /\ favourite[s] = {a \in {Reader} : past.liked}
             /\ reblog[s] = {a \in {Reader} : past.boosted} \cup {a \in {Author} : past.own /\ s = Author}
             /\ wrapper[s] = [local |-> IF s \in reblog[s] THEN 1 ELSE 0, remote |-> past.own /\ s = Reader]
             /\ pinned[s] = (past.pinned /\ s = Author) /\ postCount[s] = LocalPosts(s)
             /\ \A k \in Slots : run[s][k] = Idle
             /\ jobs[s] = <<>> /\ wire[s] = {}
  BY <1>1, <1>2
<1>5. notice[Author] = {n \in {"favourite"} : past.liked} \cup {n \in {"reblog"} : past.boosted}
  BY <1>1, ServersAre
<1>6. ASSUME NEW s \in Servers, created
      PROVE  post[s] \in Row /\ post[s].vis = "public" /\ post[s] # NoPost
  <2>1. 0 \in Texts
    BY BoundsAreNumbers DEF Texts
  <2>2. post[s] = [vis |-> "public", text |-> 0, mentions |-> s = Author]
    BY <1>4, <1>6
  <2>3. post[s] \in Row
    BY <2>1, <2>2 DEF Row
  <2> QED
    BY <2>2, <2>3, NoRow
<1>7. ASSUME NEW s \in Servers PROVE wrapper[s] \in Wrapper /\ LocalPosts(s) \in 0..2
  <2>1. wrapper[s] = [local |-> IF s \in reblog[s] THEN 1 ELSE 0, remote |-> past.own /\ s = Reader]
    BY <1>4
  <2>2. wrapper[s] \in Wrapper /\ wrapper[s].local \in {0, 1}
    BY <2>1 DEF Wrapper
  <2> QED
    BY <2>2 DEF LocalPosts
<1>8. RowsOK
  <2>1. post \in [Servers -> Rows]
    <3>1. \A s \in Servers : post[s] \in Rows
      BY <1>4, <1>6, NoRow DEF Rows
    <3> QED
      BY <1>1, <3>1
  <2>2. favourite \in [Servers -> SUBSET Servers]
    BY <1>1, ServersAre
  <2>3. reblog \in [Servers -> SUBSET Servers]
    BY <1>1, ServersAre
  <2>4. wrapper \in [Servers -> Wrapper]
    BY <1>1, <1>7
  <2>5. notice \in [Servers -> SUBSET Notices]
    BY <1>1 DEF Notices
  <2>6. pinned \in [Servers -> BOOLEAN]
    BY <1>1
  <2>7. postCount \in [Servers -> 0..2]
    BY <1>2, <1>7
  <2>8. ops \in 0..MaxOps
    BY <1>2, BoundsAreNumbers
  <2> QED
    BY <1>2, <2>1, <2>2, <2>3, <2>4, <2>5, <2>6, <2>7, <2>8 DEF RowsOK
<1>9. QueuesOK
  <2>1. \A S : <<>> \in Seq(S)
    OBVIOUS
  <2> QED
    BY <1>2, <2>1 DEF QueuesOK
<1>10. RunsOK
  BY <1>2, IdleOK DEF RunsOK
<1>11. FreshOK
  <2> SUFFICES ASSUME ~created PROVE FreshOK
    BY DEF FreshOK
  <2>1. notice[Author] = {}
    BY <1>3, <1>5
  <2> QED
    BY <1>4, <2>1 DEF FreshOK
<1>12. ASSUME NEW s \in Servers PROVE ApiOK(s, run[s]["api"]) /\ RowOK(s)
  <2>1. run[s]["api"] = Idle /\ wrapper[s].local = IF s \in reblog[s] THEN 1 ELSE 0
    <3>1. run[s]["api"] = Idle
      BY <1>2, ServersAre
    <3>2. wrapper[s] = [local |-> IF s \in reblog[s] THEN 1 ELSE 0, remote |-> past.own /\ s = Reader]
      BY <1>4
    <3> QED
      BY <3>1, <3>2
  <2>2. ApiOK(s, Idle)
    BY <1>4, <2>1, IdleOK DEF ApiOK
  <2>3. reblog[s] # {} => post[s] # NoPost
    BY <1>3, <1>4, <1>6
  <2>4. pinned[s] => s = Author /\ created
    BY <1>3, <1>4
  <2>5. RowOK(s)
    BY <1>6, <2>3, <2>4 DEF RowOK
  <2>6. run[s]["api"] = Idle
    BY <2>1
  <2>7. ApiOK(s, run[s]["api"])
    BY ONLY <2>2, <2>6, Zenon
  <2> QED
    BY ONLY <2>5, <2>7
<1>13. InboxOK(run[Author]["inbox"])
  <2>1. run[Author]["inbox"] = Idle
    BY <1>4, ServersAre
  <2>2. /\ "favourite" \in notice[Author] => Reader \in favourite[Author]
        /\ "reblog" \in notice[Author] => Reader \in reblog[Author]
    BY <1>4, <1>5, ServersAre
  <2>3. InboxOK(Idle)
    BY <2>2, IdleOK DEF InboxOK
  <2> QED
    BY ONLY <2>1, <2>3, Zenon
<1> QED
  BY <1>8, <1>9, <1>10, <1>11, <1>12, <1>13 DEF PostsInv

LEMMA StutterKeeps == PostsInv /\ UNCHANGED vars => PostsInv'
<1> SUFFICES ASSUME PostsInv, UNCHANGED vars PROVE PostsInv'
  OBVIOUS
<1>1. UNCHANGED <<rows, run, jobs, wire, ops, created, refused, smooth>>
  BY DEF vars, history
<1> PICK n : n = run[Author]["worker"]
  OBVIOUS
<1>2. RequestOK(Author, "worker", n) /\ run' = [run EXCEPT ![Author]["worker"] = n]
  BY <1>1, ServersAre DEF PostsInv, RunsOK
<1>3. /\ ops' \in 0..MaxOps /\ refused' \in BOOLEAN /\ smooth' \in BOOLEAN /\ QueuesOK'
      /\ UNCHANGED <<rows, created>>
  BY <1>1, QueuesStay DEF PostsInv, RowsOK
<1>4. FreshOK'
  BY <1>1 DEF PostsInv, FreshOK, rows, Here
<1> QED
  BY <1>2, <1>3, <1>4, ServersAre, RequestKeeps

\* The invariant holds: whatever requests, jobs and activities overlap.
THEOREM PostsInvariant == Spec => []PostsInv
<1>1. PostsInv /\ [Next]_vars => PostsInv'
  BY StutterKeeps, StatementKeeps, CallKeeps, BeginDeliverPostKeeps, SendKeeps, GiveUpKeeps, ReceiveKeeps DEF Next
<1> QED
  BY <1>1, InitIsPostsInv, PTL DEF Spec

\* Every column, queue and request of posts keeps to its values.
THEOREM PostsTypes == Spec => []TypeOK
<1>1. PostsInv => TypeOK
  <2> SUFFICES ASSUME PostsInv PROVE TypeOK
    OBVIOUS
  <2>1. \A s \in Servers, k \in Slots : run[s][k].read \in Rows /\ run[s][k].new \in Rows
    BY DEF PostsInv, RunsOK, Requests
  <2> QED
    BY <2>1 DEF PostsInv, RowsOK, QueuesOK, TypeOK, Rows, Wrapper
<1> QED
  BY <1>1, PostsInvariant, PTL

\* Between the requests of the administrator the counter of posts is right, and
\* the persona's reblog has its one wrapper, whose original is there.
THEOREM OwnPostsAreSettled == Spec => []OwnPostsSettle
<1>1. PostsInv => OwnPostsSettle
  <2> SUFFICES ASSUME PostsInv, NEW s \in Servers, run[s]["api"] = Idle
               PROVE  /\ postCount[s] = LocalPosts(s)
                      /\ wrapper[s].local = IF s \in reblog[s] THEN 1 ELSE 0
                      /\ Outbox(s) = ListPublicLocalPosts(s)
    BY DEF OwnPostsSettle
  <2>1. ApiOK(s, Idle) /\ RowOK(s)
    BY DEF PostsInv
  <2>2. postCount[s] = LocalPosts(s) /\ wrapper[s].local = IF s \in reblog[s] THEN 1 ELSE 0
    BY <2>1, IdleOK DEF ApiOK
  <2>3. wrapper[s].local > 0 => post[s] # NoPost
    BY <2>1, <2>2 DEF RowOK
  <2>4. Outbox(s) = ListPublicLocalPosts(s)
    BY <2>3 DEF Outbox, ListPublicLocalPosts
  <2> QED
    BY <2>2, <2>4
<1> QED
  BY <1>1, PostsInvariant, PTL

\* What the profile and the featured collection show can be opened, but for a
\* pinned post that was edited since; what is pinned is there.
THEOREM PinnedPostsAreServed == Spec => []PinnedIsServed
<1>1. PostsInv => PinnedIsServed
  <2> SUFFICES ASSUME PostsInv, NEW s \in Servers
               PROVE  /\ "post" \in Featured(s) \cup ListPublicPosts(s) => Served(s) \/ post[s].text > 0
                      /\ pinned[s] => post[s] # NoPost
    BY DEF PinnedIsServed
  <2>1. RowOK(s)
    BY DEF PostsInv
  <2>2. "post" \in Featured(s) \cup ListPublicPosts(s) => Served(s) \/ pinned[s]
    BY DEF Featured, ListPublicPosts, ListPublicLocalPosts
  <2> QED
    BY <2>1, <2>2 DEF RowOK, Served
<1> QED
  BY <1>1, PostsInvariant, PTL

\* A notification of a favourite or a reblog has its reason when the inbox is at
\* rest and the post is there.
THEOREM NoticesHaveReasons == Spec => []NoticesAreFounded
<1>1. PostsInv => NoticesAreFounded
  <2> SUFFICES ASSUME PostsInv, run[Author]["inbox"] = Idle, post[Author] # NoPost PROVE NoticesAreFounded
    BY DEF NoticesAreFounded
  <2>1. InboxOK(Idle)
    BY DEF PostsInv
  <2> QED
    BY <2>1, IdleOK DEF InboxOK, NoticesAreFounded
<1> QED
  BY <1>1, PostsInvariant, PTL

-----------------------------------------------------------------------------
(* What the two servers agree on.  First, what is left of the lists of      *)
(* statements, and what each of them does.                                  *)

Left(s, k) == run[s][k].todo

\* The lists of the API methods.
Posting2 == <<"RefreshPostCount", "EnqueueDeliverPost">>
Posting3 == <<"EnqueueDeliverPost">>
Editing2 == <<"UpdatePost", "EnqueueUpdatePost">>
Editing3 == <<"EnqueueUpdatePost">>
Deleting2 == <<"UnpinPost", "DeletePost", "RefreshPostCount", "EnqueueDeliverDelete">>
Deleting3 == <<"DeletePost", "RefreshPostCount", "EnqueueDeliverDelete">>
Deleting4 == <<"RefreshPostCount", "EnqueueDeliverDelete">>
Deleting5 == <<"EnqueueDeliverDelete">>
Pinning2 == <<"PinPost">>
Liking2 == <<"CreateFavourite", "EnqueueSendLike">>
Liking3 == <<"EnqueueSendLike">>
Unliking2 == <<"DeleteFavourite", "EnqueueSendUndoLike">>
Unliking3 == <<"EnqueueSendUndoLike">>
Boosting2 == <<"CreateReblog", "CreateWrapper", "RefreshPostCount", "EnqueueSendAnnounce">>
Boosting3 == <<"CreateWrapper", "RefreshPostCount", "EnqueueSendAnnounce">>
Boosting4 == <<"RefreshPostCount", "EnqueueSendAnnounce">>
Boosting5 == <<"EnqueueSendAnnounce">>
Unboosting2 == <<"DeleteReblog", "DeleteReblogPost", "RefreshPostCount", "EnqueueSendUndoAnnounce">>
Unboosting3 == <<"DeleteReblogPost", "RefreshPostCount", "EnqueueSendUndoAnnounce">>
Unboosting4 == <<"RefreshPostCount", "EnqueueSendUndoAnnounce">>
Unboosting5 == <<"EnqueueSendUndoAnnounce">>

\* The lists of the inbox.  Many of them end with a notification.
Like2 == <<"CreateFavourite", "Notify">>
UndoLike2 == <<"DeleteFavourite", "DeleteNotification">>
Boost1 == <<"GetPost", "CreateReblog", "Notify">>
Boost2 == <<"CreateReblog", "Notify">>
UndoBoost1 == <<"GetPost", "DeleteReblog", "DeleteNotification">>
UndoBoost2 == <<"DeleteReblog", "DeleteNotification">>
Notifying == <<"Notify">>
Withdrawing == <<"DeleteNotification">>
Repeat1 == <<"CreateRemoteWrapper">>
Fetch1 == <<"FetchNote", "StoreNote", "Notify">>
Update2 == <<"UpdateNote">>
Delete2 == <<"DeletePost">>

\* The lists of the worker.
Deliver2 == <<"EnqueueMentioned", "UpdatePostMentions", "Fanout">>
Deliver3 == <<"UpdatePostMentions", "Fanout">>
Deliver4 == <<"Fanout">>

InteractionLists ==
  {<<>>, FavouritesCreate, Liking2, Liking3, FavouritesDelete, Unliking2, Unliking3,
   ReblogsCreate, Boosting2, Boosting3, Boosting4, Boosting5,
   ReblogsDelete, Unboosting2, Unboosting3, Unboosting4, Unboosting5}

PostLists ==
  {PostsCreate, Posting2, Posting3, PostsUpdate, Editing2, Editing3,
   PostsDelete, Deleting2, Deleting3, Deleting4, Deleting5, PostsPin, Pinning2, PostsUnpin}

AnswerLists ==
  {<<>>, InboxLike, Like2, InboxUndoLike, UndoLike2, Boost1, Boost2, UndoBoost1, UndoBoost2,
   Notifying, Withdrawing}

NoteLists ==
  {<<>>, Repeat1, Fetch1, InboxCreate, Notifying, InboxUpdate, Update2, InboxDelete, Delete2}

DeliverLists == {<<>>, DeliverPost, Deliver2, Deliver3, Deliver4}

\* What may be left where.
ListsAt(s, k) ==
  CASE k = "api" -> IF s = Author THEN InteractionLists \cup PostLists ELSE InteractionLists
    [] k = "inbox" -> IF s = Author THEN AnswerLists ELSE NoteLists
    [] k = "worker" -> IF s = Author THEN DeliverLists ELSE {<<>>}

LeftOK == \A s \in Servers, k \in Slots : Left(s, k) \in ListsAt(s, k)

\* What the author tells the reader.
Tidings == JobTypes \ {"Like", "UndoLike"}

\* The author does not tell the reader of favourites; they are favourites of a
\* post that is there, and each speaks for themselves.
TalkOK ==
  /\ jobs[Author] \in Seq(Tidings) /\ \A a \in wire[Author] : a.type \in Tidings
  /\ \A s \in Servers : favourite[s] # {} => post[s] # NoPost
  /\ Author \notin favourite[Reader] /\ Author \notin reblog[Reader]

ListsInv == LeftOK /\ TalkOK

\* What a statement of request k of s does: the rows of s, its jobs, and what is
\* left of the request.
Effect(s, k, P, F, B, N, J, t) ==
  /\ post'[s] = P /\ favourite'[s] = F /\ reblog'[s] = B /\ notice'[s] = N /\ jobs'[s] = J
  /\ \A x \in Servers : x # s => /\ post'[x] = post[x] /\ favourite'[x] = favourite[x]
                                /\ reblog'[x] = reblog[x] /\ notice'[x] = notice[x] /\ jobs'[x] = jobs[x]
  /\ wire' = wire /\ smooth' = smooth
  /\ Left(s, k)' = t
  /\ \A x \in Servers, l \in Slots : x # s \/ l # k => run'[x][l] = run[x][l]

\* What a request that goes on has read and is to write.
Holds(s, k, read, new) ==
  Left(s, k)' # <<>> => run'[s][k].read = read /\ run'[s][k].new = new

\* The post is neither created nor is its deletion refused.
NoEvent == created' = created /\ refused' = refused

RunBecomes(s, k, n) == run' = [run EXCEPT ![s][k] = n]

LEMMA RunMoves ==
  ASSUME PostsInv, NEW s \in Servers, NEW k \in Slots, NEW n, RunBecomes(s, k, n)
  PROVE  /\ run'[s][k] = n
         /\ \A x \in Servers, l \in Slots : x # s \/ l # k => run'[x][l] = run[x][l]
BY DEF PostsInv, RunsOK, RunBecomes

LEMMA RequestTypes ==
  ASSUME PostsInv, NEW s \in Servers, NEW k \in Slots
  PROVE  run[s][k] \in Requests /\ run[s][k].todo \in Seq(Statements)
         /\ run[s][k].read \in Rows /\ run[s][k].new \in Rows
BY DEF PostsInv, RunsOK, Requests

LEMMA LastOne ==
  ASSUME NEW t \in Seq(Statements), t # <<>>
  PROVE  Len(t) = 1 <=> Tail(t) = <<>>
<1> PICK u : u = Tail(t)
  OBVIOUS
<1>1. u \in Seq(Statements) /\ Len(u) = Len(t) - 1 /\ Len(t) \in Nat
  BY Shifted
<1>2. u # <<>> <=> 1 \in 1..Len(u)
  BY <1>1, NotEmpty
<1>3. Len(u) \in Nat
  BY <1>1
<1>4. \A m \in Nat : 1 \in 1..m <=> m # 0
  OBVIOUS
<1>5. Len(t) = 1 <=> Len(u) = 0
  BY <1>1
<1> QED
  BY <1>2, <1>3, <1>4, <1>5

LEMMA GoesOnTo ==
  ASSUME PostsInv, NEW s \in Servers, NEW k \in Slots, Left(s, k) # <<>>, NEW read, NEW new,
         GoOnHaving(s, k, read, new)
  PROVE  /\ Left(s, k)' = Tail(Left(s, k)) /\ Holds(s, k, read, new)
         /\ \A x \in Servers, l \in Slots : x # s \/ l # k => run'[x][l] = run[x][l]
<1> PICK r : r = run[s][k]
  OBVIOUS
<1>0. PICK n : n = IF Len(r.todo) = 1 THEN Idle ELSE [r EXCEPT !.todo = Tail(@), !.read = read, !.new = new]
  OBVIOUS
<1>1. RunBecomes(s, k, n)
  BY <1>0 DEF GoOnHaving, RunBecomes
<1>2. run'[s][k] = n /\ \A x \in Servers, l \in Slots : x # s \/ l # k => run'[x][l] = run[x][l]
  BY <1>1, RunMoves
<1>3. r \in Requests /\ r.todo \in Seq(Statements) /\ (Len(r.todo) = 1 <=> Tail(r.todo) = <<>>)
  BY RequestTypes, LastOne DEF Left
<1>4. n.todo = Tail(r.todo) /\ (Tail(r.todo) # <<>> => n.read = read /\ n.new = new)
  BY <1>0, <1>3, IdleOK DEF Requests
<1> QED
  BY <1>2, <1>4 DEF Left, Holds

LEMMA GoesOnAsIs ==
  ASSUME PostsInv, NEW s \in Servers, NEW k \in Slots, Left(s, k) # <<>>, GoOn(s, k)
  PROVE  /\ Left(s, k)' = Tail(Left(s, k)) /\ Holds(s, k, run[s][k].read, run[s][k].new)
         /\ \A x \in Servers, l \in Slots : x # s \/ l # k => run'[x][l] = run[x][l]
BY GoesOnTo DEF GoOn

LEMMA ReturnsAtOnce ==
  ASSUME PostsInv, NEW s \in Servers, NEW k \in Slots, Return(s, k)
  PROVE  /\ Left(s, k)' = <<>> /\ \A x, y : Holds(s, k, x, y)
         /\ \A x \in Servers, l \in Slots : x # s \/ l # k => run'[x][l] = run[x][l]
<1>1. RunBecomes(s, k, Idle)
  BY DEF Return, RunBecomes
<1>2. run'[s][k] = Idle
  BY <1>1, RunMoves
<1> QED
  BY <1>1, <1>2, RunMoves, IdleOK DEF Left, Holds

LEMMA RowsAre ==
  ASSUME PostsInv
  PROVE  /\ DOMAIN post = Servers /\ DOMAIN favourite = Servers /\ DOMAIN reblog = Servers
         /\ DOMAIN notice = Servers /\ DOMAIN jobs = Servers /\ DOMAIN wire = Servers
BY DEF PostsInv, RowsOK, QueuesOK

\* The last request of a statement: which action it takes.
LEMMA StatementNames ==
  ASSUME NEW s \in Servers, NEW k \in Slots, Statement(s, k), NEW h, h = Head(Left(s, k))
  PROVE  /\ Left(s, k) # <<>>
         /\ h = "GetPost" => GetPost(s, k)
         /\ h = "CreatePost" => CreatePost(s, k)
         /\ h = "UpdatePost" => UpdatePost(s, k)
         /\ h = "DeletePost" => DeletePost(s, k)
         /\ h = "PinPost" => PinPost(s, k)
         /\ h = "UnpinPost" => UnpinPost(s, k)
         /\ h = "RefreshPostCount" => RefreshPostCount(s, k)
         /\ h = "CreateFavourite" => CreateFavourite(s, k)
         /\ h = "DeleteFavourite" => DeleteFavourite(s, k)
         /\ h = "CreateReblog" => CreateReblog(s, k)
         /\ h = "DeleteReblog" => DeleteReblog(s, k)
         /\ h = "CreateWrapper" => CreateWrapper(s, k)
         /\ h = "CreateRemoteWrapper" => CreateRemoteWrapper(s, k)
         /\ h = "DeleteReblogPost" => DeleteReblogPost(s, k)
         /\ h = "Notify" => Notify(s, k)
         /\ h = "DeleteNotification" => DeleteNotification(s, k)
         /\ h = "FetchNote" => FetchNote(s, k)
         /\ h = "StoreNote" => StoreNote(s, k)
         /\ h = "UpdateNote" => UpdateNote(s, k)
         /\ h = "EnqueueMentioned" => EnqueueMentioned(s, k)
         /\ h = "UpdatePostMentions" => UpdatePostMentions(s, k)
         /\ h = "Fanout" => Fanout(s, k)
         /\ h = "EnqueueDeliverPost" => Enqueue(s, k, "EnqueueDeliverPost", "deliver_post")
         /\ h = "EnqueueUpdatePost" => Enqueue(s, k, "EnqueueUpdatePost", "Update")
         /\ h = "EnqueueDeliverDelete" => Enqueue(s, k, "EnqueueDeliverDelete", "Delete")
         /\ h = "EnqueueSendLike" => EnqueueAbout(s, k, "EnqueueSendLike", "Like")
         /\ h = "EnqueueSendUndoLike" => EnqueueAbout(s, k, "EnqueueSendUndoLike", "UndoLike")
         /\ h = "EnqueueSendAnnounce" => Enqueue(s, k, "EnqueueSendAnnounce", "Announce")
         /\ h = "EnqueueSendUndoAnnounce" => Enqueue(s, k, "EnqueueSendUndoAnnounce", "UndoAnnounce")
<1>1. /\ GetPost(s, k) => h = "GetPost" /\ Left(s, k) # <<>>
      /\ CreatePost(s, k) => h = "CreatePost" /\ Left(s, k) # <<>>
      /\ UpdatePost(s, k) => h = "UpdatePost" /\ Left(s, k) # <<>>
      /\ DeletePost(s, k) => h = "DeletePost" /\ Left(s, k) # <<>>
      /\ PinPost(s, k) => h = "PinPost" /\ Left(s, k) # <<>>
      /\ UnpinPost(s, k) => h = "UnpinPost" /\ Left(s, k) # <<>>
      /\ RefreshPostCount(s, k) => h = "RefreshPostCount" /\ Left(s, k) # <<>>
  BY DEF GetPost, CreatePost, UpdatePost, DeletePost, PinPost, UnpinPost, RefreshPostCount, At, Left
<1>2. /\ CreateFavourite(s, k) => h = "CreateFavourite" /\ Left(s, k) # <<>>
      /\ DeleteFavourite(s, k) => h = "DeleteFavourite" /\ Left(s, k) # <<>>
      /\ CreateReblog(s, k) => h = "CreateReblog" /\ Left(s, k) # <<>>
      /\ DeleteReblog(s, k) => h = "DeleteReblog" /\ Left(s, k) # <<>>
      /\ CreateWrapper(s, k) => h = "CreateWrapper" /\ Left(s, k) # <<>>
      /\ CreateRemoteWrapper(s, k) => h = "CreateRemoteWrapper" /\ Left(s, k) # <<>>
      /\ DeleteReblogPost(s, k) => h = "DeleteReblogPost" /\ Left(s, k) # <<>>
  BY DEF CreateFavourite, DeleteFavourite, CreateReblog, DeleteReblog, CreateWrapper, CreateRemoteWrapper,
         DeleteReblogPost, At, Left
<1>3. /\ Notify(s, k) => h = "Notify" /\ Left(s, k) # <<>>
      /\ DeleteNotification(s, k) => h = "DeleteNotification" /\ Left(s, k) # <<>>
      /\ FetchNote(s, k) => h = "FetchNote" /\ Left(s, k) # <<>>
      /\ StoreNote(s, k) => h = "StoreNote" /\ Left(s, k) # <<>>
      /\ UpdateNote(s, k) => h = "UpdateNote" /\ Left(s, k) # <<>>
      /\ UpdatePostMentions(s, k) => h = "UpdatePostMentions" /\ Left(s, k) # <<>>
  BY DEF Notify, DeleteNotification, FetchNote, StoreNote, UpdateNote, UpdatePostMentions, At, Left
<1>4. /\ \A n, x : Enqueue(s, k, n, x) => h = n /\ Left(s, k) # <<>>
      /\ \A n, x : EnqueueAbout(s, k, n, x) => h = n /\ Left(s, k) # <<>>
  BY DEF Enqueue, EnqueueAbout, At, Left
<1>5. /\ EnqueueMentioned(s, k) => h = "EnqueueMentioned" /\ Left(s, k) # <<>>
      /\ Fanout(s, k) => h = "Fanout" /\ Left(s, k) # <<>>
  BY <1>4 DEF EnqueueMentioned, Fanout, At, Left
<1> QED
  BY <1>1, <1>2, <1>3, <1>4, <1>5, SMTT(60) DEF Statement, Enqueues

\* An action that changes one column of the rows of s, the others not.
SamePost == post' = post
SameMarks == favourite' = favourite /\ reblog' = reblog
SameNotice == notice' = notice
SameJobs == jobs' = jobs /\ wire' = wire /\ smooth' = smooth

LEMMA EnqueueDoes ==
  ASSUME PostsInv, NEW s \in Servers, NEW k \in Slots, NEW st, NEW type, Enqueue(s, k, st, type)
  PROVE  /\ Effect(s, k, post[s], favourite[s], reblog[s], notice[s], Append(jobs[s], type), Tail(Left(s, k)))
         /\ Holds(s, k, run[s][k].read, run[s][k].new) /\ NoEvent
<1>1. /\ Left(s, k) # <<>> /\ GoOn(s, k) /\ jobs' = [jobs EXCEPT ![s] = Append(jobs[s], type)]
      /\ UNCHANGED <<rows, wire, history>>
  BY DEF Enqueue, At, Left
<1>2. jobs'[s] = Append(jobs[s], type) /\ \A x \in Servers : x # s => jobs'[x] = jobs[x]
  BY <1>1, RowsAre
<1> QED
  BY <1>1, <1>2, GoesOnAsIs DEF Effect, rows, history, NoEvent

\* Statements that change no table but those of wrappers, pins and counters.
LEMMA PassDoes ==
  ASSUME PostsInv, NEW s \in Servers, NEW k \in Slots,
         \/ PinPost(s, k) \/ UnpinPost(s, k) \/ RefreshPostCount(s, k) \/ CreateWrapper(s, k)
         \/ CreateRemoteWrapper(s, k) \/ DeleteReblogPost(s, k)
         \/ s = Author /\ \E st, type : EnqueueAbout(s, k, st, type)
  PROVE  /\ Effect(s, k, post[s], favourite[s], reblog[s], notice[s], jobs[s], Tail(Left(s, k)))
         /\ Holds(s, k, run[s][k].read, run[s][k].new) /\ NoEvent
<1>1. /\ Left(s, k) # <<>> /\ GoOn(s, k) /\ SamePost /\ SameMarks /\ SameNotice /\ SameJobs /\ NoEvent
  <2>1. CASE PinPost(s, k)
    BY <2>1 DEF PinPost, At, Left, history, SamePost, SameMarks, SameNotice, SameJobs, NoEvent
  <2>2. CASE UnpinPost(s, k)
    BY <2>2 DEF UnpinPost, At, Left, history, SamePost, SameMarks, SameNotice, SameJobs, NoEvent
  <2>3. CASE RefreshPostCount(s, k)
    BY <2>3 DEF RefreshPostCount, At, Left, history, SamePost, SameMarks, SameNotice, SameJobs, NoEvent
  <2>4. CASE CreateWrapper(s, k)
    BY <2>4 DEF CreateWrapper, At, Left, history, SamePost, SameMarks, SameNotice, SameJobs, NoEvent
  <2>5. CASE CreateRemoteWrapper(s, k)
    BY <2>5 DEF CreateRemoteWrapper, At, Left, history, SamePost, SameMarks, SameNotice, SameJobs, NoEvent
  <2>6. CASE DeleteReblogPost(s, k)
    BY <2>6 DEF DeleteReblogPost, At, Left, history, SamePost, SameMarks, SameNotice, SameJobs, NoEvent
  <2>7. CASE s = Author /\ \E st, type : EnqueueAbout(s, k, st, type)
    BY <2>7 DEF EnqueueAbout, At, Left, rows, history, SamePost, SameMarks, SameNotice, SameJobs, NoEvent
  <2> QED
    BY <2>1, <2>2, <2>3, <2>4, <2>5, <2>6, <2>7
<1> QED
  BY <1>1, GoesOnAsIs DEF Effect, SamePost, SameMarks, SameNotice, SameJobs

LEMMA GetPostDoes ==
  ASSUME PostsInv, NEW s \in Servers, NEW k \in Slots, GetPost(s, k)
  PROVE  /\ NoEvent
         /\ \/ /\ post[s] # NoPost /\ Holds(s, k, post[s], run[s][k].new)
               /\ Effect(s, k, post[s], favourite[s], reblog[s], notice[s], jobs[s], Tail(Left(s, k)))
            \/ /\ post[s] = NoPost \/ k = "api"
               /\ Effect(s, k, post[s], favourite[s], reblog[s], notice[s], jobs[s], <<>>)
<1>1. At(s, k, "GetPost") /\ Left(s, k) # <<>>
  BY DEF GetPost, At, Left
<1>2. run[s][k].op = "posts_pin" => k = "api"
  BY <1>1, AtIs, SlotIs, OpNames
<1>3. UNCHANGED <<rows, jobs, wire, history>>
  BY DEF GetPost
<1>4. CASE post[s] = NoPost \/ (run[s][k].op = "posts_pin" /\ post[s].vis # "public")
  <2>1. Return(s, k)
    BY <1>4 DEF GetPost
  <2> QED
    BY <1>2, <1>3, <1>4, <2>1, ReturnsAtOnce DEF Effect, rows, history, NoEvent
<1>5. CASE ~(post[s] = NoPost \/ (run[s][k].op = "posts_pin" /\ post[s].vis # "public"))
  <2>1. GoOnHaving(s, k, post[s], run[s][k].new)
    BY <1>5 DEF GetPost
  <2> QED
    BY <1>1, <1>3, <1>5, <2>1, GoesOnTo DEF Effect, rows, history, NoEvent
<1> QED
  BY <1>4, <1>5

LEMMA CreatePostDoes ==
  ASSUME PostsInv, NEW s \in Servers, NEW k \in Slots, CreatePost(s, k)
  PROVE  /\ s = Author /\ k = "api" /\ ~created /\ created' /\ refused' = refused
         /\ run[s][k].new \in Row
         /\ Effect(s, k, run[s][k].new, favourite[s], reblog[s], notice[s], jobs[s], Tail(Left(s, k)))
         /\ Holds(s, k, run[s][k].read, run[s][k].new)
<1>1. At(s, k, "CreatePost") /\ Left(s, k) # <<>>
  BY DEF CreatePost, At, Left
<1>2. s = Author /\ k = "api"
  BY <1>1, Places
<1>3. ~created
  BY <1>1, <1>2 DEF PostsInv, ApiOK, Here, At
<1>4. run[s][k].new \in Row
  BY <1>1, AtIs, UsersAre DEF RequestOK
<1>5. post' = [post EXCEPT ![s] = run[s][k].new]
  BY DEF CreatePost
<1>6. post'[s] = run[s][k].new /\ \A x \in Servers : x # s => post'[x] = post[x]
  BY <1>5, RowsAre
<1>7. GoOn(s, k) /\ created' /\ refused' = refused /\ SameMarks /\ SameNotice /\ SameJobs
  BY DEF CreatePost, SameMarks, SameNotice, SameJobs
<1> QED
  BY <1>1, <1>2, <1>3, <1>4, <1>6, <1>7, GoesOnAsIs DEF Effect, SameMarks, SameNotice, SameJobs

\* A row after some of its columns were written.
LEMMA ColumnsOf ==
  /\ \A p \in Row : p # NoPost /\ p.text \in Texts /\ p.mentions \in BOOLEAN
  /\ \A p \in Row, m \in BOOLEAN : LET q == [p EXCEPT !.mentions = m] IN q \in Row /\ q.text = p.text /\ q.mentions = m
  /\ \A p \in Row, x \in Texts : LET q == [p EXCEPT !.text = x] IN q \in Row /\ q.text = x /\ q.mentions = p.mentions
  /\ \A p \in Rows : p.text \in Texts /\ p.mentions \in BOOLEAN /\ (p # NoPost => p \in Row)
<1>1. \A p \in Row : p # NoPost /\ p.text \in Texts /\ p.mentions \in BOOLEAN
  BY NoRow DEF Row
<1>2. 0 \in Texts
  BY BoundsAreNumbers DEF Texts
<1>3. NoPost.text = 0 /\ NoPost.mentions = FALSE
  BY DEF NoPost
<1> QED
  BY <1>1, <1>2, <1>3 DEF Row, Rows

LEMMA UpdatePostDoes ==
  ASSUME PostsInv, NEW s \in Servers, NEW k \in Slots, UpdatePost(s, k)
  PROVE  /\ NoEvent /\ Holds(s, k, run[s][k].read, run[s][k].new)
         /\ post[s] = NoPost => post'[s] = NoPost
         /\ post[s] # NoPost => /\ post'[s] \in Row /\ post'[s].text = run[s][k].new.text
                                /\ post'[s].mentions = run[s][k].read.mentions
         /\ run[s][k].new.text > 0
         /\ Effect(s, k, post'[s], favourite[s], reblog[s], notice[s], jobs[s], Tail(Left(s, k)))
<1> PICK r : r = run[s][k]
  OBVIOUS
<1>1. At(s, k, "UpdatePost") /\ Left(s, k) # <<>> /\ GoOn(s, k) /\ NoEvent /\ SameMarks /\ SameNotice /\ SameJobs
  BY DEF UpdatePost, At, Left, NoEvent, history, SameMarks, SameNotice, SameJobs
<1>2. r.new \in Row /\ r.new.text > 0 /\ r.read \in Rows
  BY <1>1, AtIs, UsersAre DEF RequestOK
<1> PICK p : p = IF post[s] = NoPost THEN post[s] ELSE [r.new EXCEPT !.mentions = r.read.mentions]
  OBVIOUS
<1>3. post' = [post EXCEPT ![s] = p]
  BY DEF UpdatePost
<1>4. post'[s] = p /\ \A x \in Servers : x # s => post'[x] = post[x]
  BY <1>3, RowsAre
<1>5. r.read.mentions \in BOOLEAN
  BY <1>2, ColumnsOf
<1>6. /\ post[s] = NoPost => p = NoPost
      /\ post[s] # NoPost => p \in Row /\ p.text = r.new.text /\ p.mentions = r.read.mentions
  BY <1>2, <1>5, ColumnsOf
<1>7. post'[s] = p /\ Effect(s, k, p, favourite[s], reblog[s], notice[s], jobs[s], Tail(Left(s, k))) /\ Holds(s, k, run[s][k].read, run[s][k].new)
  BY <1>1, <1>4, GoesOnAsIs DEF Effect, SameMarks, SameNotice, SameJobs
<1> QED
  BY <1>1, <1>2, <1>6, <1>7

LEMMA DeletePostDoes ==
  ASSUME PostsInv, NEW s \in Servers, NEW k \in Slots, DeletePost(s, k)
  PROVE  \/ /\ favourite[s] = {} /\ reblog[s] = {} /\ NoEvent
            /\ Effect(s, k, NoPost, favourite[s], reblog[s], notice[s], jobs[s], Tail(Left(s, k)))
         \/ /\ favourite[s] # {} \/ reblog[s] # {}
            /\ created' = created /\ refused' = (refused \/ k = "inbox")
            /\ Effect(s, k, post[s], favourite[s], reblog[s], notice[s], jobs[s], <<>>)
<1>1. Left(s, k) # <<>> /\ created' = created /\ SameMarks /\ SameNotice /\ SameJobs
  BY DEF DeletePost, At, Left, SameMarks, SameNotice, SameJobs
<1>2. CASE favourite[s] \cup reblog[s] = {}
  <2>1. post' = [post EXCEPT ![s] = NoPost] /\ GoOn(s, k) /\ refused' = refused
    BY <1>2 DEF DeletePost
  <2>2. post'[s] = NoPost /\ \A x \in Servers : x # s => post'[x] = post[x]
    BY <2>1, RowsAre
  <2> QED
    BY <1>1, <1>2, <2>1, <2>2, GoesOnAsIs DEF Effect, SameMarks, SameNotice, SameJobs, NoEvent
<1>3. CASE favourite[s] \cup reblog[s] # {}
  <2>1. Return(s, k) /\ refused' = (refused \/ k = "inbox") /\ SamePost
    BY <1>3 DEF DeletePost, SamePost
  <2> QED
    BY <1>1, <1>3, <2>1, ReturnsAtOnce DEF Effect, SamePost, SameMarks, SameNotice, SameJobs
<1> QED
  BY <1>2, <1>3

LEMMA CreateFavouriteDoes ==
  ASSUME PostsInv, NEW s \in Servers, NEW k \in Slots, CreateFavourite(s, k)
  PROVE  /\ NoEvent
         /\ \/ /\ post[s] # NoPost
               /\ Effect(s, k, post[s], favourite[s] \cup {Actor(s, k)}, reblog[s], notice[s], jobs[s], Tail(Left(s, k)))
            \/ /\ post[s] = NoPost \/ Actor(s, k) \in favourite[s]
               /\ Effect(s, k, post[s], favourite[s], reblog[s], notice[s], jobs[s], IF k = "api" THEN <<>> ELSE Tail(Left(s, k)))
<1>1. Left(s, k) # <<>> /\ NoEvent /\ SamePost /\ reblog' = reblog /\ SameNotice /\ SameJobs
  BY DEF CreateFavourite, At, Left, NoEvent, history, SamePost, SameNotice, SameJobs
<1>2. CASE post[s] # NoPost /\ Actor(s, k) \notin favourite[s]
  <2>1. favourite' = [favourite EXCEPT ![s] = favourite[s] \cup {Actor(s, k)}] /\ GoOn(s, k)
    BY <1>2 DEF CreateFavourite
  <2>2. favourite'[s] = favourite[s] \cup {Actor(s, k)} /\ \A x \in Servers : x # s => favourite'[x] = favourite[x]
    BY <2>1, RowsAre
  <2> QED
    BY <1>1, <1>2, <2>1, <2>2, GoesOnAsIs DEF Effect, SamePost, SameNotice, SameJobs
<1>3. CASE ~(post[s] # NoPost /\ Actor(s, k) \notin favourite[s])
  <2>1. favourite' = favourite /\ IF k = "api" THEN Return(s, k) ELSE GoOn(s, k)
    BY <1>3 DEF CreateFavourite
  <2>2. CASE k = "api"
    BY <1>1, <1>3, <2>1, <2>2, ReturnsAtOnce DEF Effect, SamePost, SameNotice, SameJobs
  <2>3. CASE k # "api"
    BY <1>1, <1>3, <2>1, <2>3, GoesOnAsIs DEF Effect, SamePost, SameNotice, SameJobs
  <2> QED
    BY <2>2, <2>3
<1> QED
  BY <1>2, <1>3

LEMMA DeleteFavouriteDoes ==
  ASSUME PostsInv, NEW s \in Servers, NEW k \in Slots, DeleteFavourite(s, k)
  PROVE  NoEvent /\ Effect(s, k, post[s], favourite[s] \ {Actor(s, k)}, reblog[s], notice[s], jobs[s], Tail(Left(s, k)))
<1>1. /\ Left(s, k) # <<>> /\ GoOn(s, k) /\ NoEvent /\ SamePost /\ reblog' = reblog /\ SameNotice /\ SameJobs
      /\ favourite' = [favourite EXCEPT ![s] = favourite[s] \ {Actor(s, k)}]
  BY DEF DeleteFavourite, At, Left, NoEvent, history, SamePost, SameNotice, SameJobs
<1>2. favourite'[s] = favourite[s] \ {Actor(s, k)} /\ \A x \in Servers : x # s => favourite'[x] = favourite[x]
  BY <1>1, RowsAre
<1> QED
  BY <1>1, <1>2, GoesOnAsIs DEF Effect, SamePost, SameNotice, SameJobs

LEMMA CreateReblogDoes ==
  ASSUME PostsInv, NEW s \in Servers, NEW k \in Slots, CreateReblog(s, k)
  PROVE  /\ NoEvent
         /\ \/ /\ post[s] # NoPost
               /\ Effect(s, k, post[s], favourite[s], reblog[s] \cup {Actor(s, k)}, notice[s], jobs[s], Tail(Left(s, k)))
            \/ /\ post[s] = NoPost \/ Actor(s, k) \in reblog[s]
               /\ Effect(s, k, post[s], favourite[s], reblog[s], notice[s], jobs[s], IF k = "api" THEN <<>> ELSE Tail(Left(s, k)))
<1>1. Left(s, k) # <<>> /\ NoEvent /\ SamePost /\ favourite' = favourite /\ SameNotice /\ SameJobs
  BY DEF CreateReblog, At, Left, NoEvent, history, SamePost, SameNotice, SameJobs
<1>2. CASE post[s] # NoPost /\ Actor(s, k) \notin reblog[s]
  <2>1. reblog' = [reblog EXCEPT ![s] = reblog[s] \cup {Actor(s, k)}] /\ GoOn(s, k)
    BY <1>2 DEF CreateReblog
  <2>2. reblog'[s] = reblog[s] \cup {Actor(s, k)} /\ \A x \in Servers : x # s => reblog'[x] = reblog[x]
    BY <2>1, RowsAre
  <2> QED
    BY <1>1, <1>2, <2>1, <2>2, GoesOnAsIs DEF Effect, SamePost, SameNotice, SameJobs
<1>3. CASE ~(post[s] # NoPost /\ Actor(s, k) \notin reblog[s])
  <2>1. reblog' = reblog /\ IF k = "api" THEN Return(s, k) ELSE GoOn(s, k)
    BY <1>3 DEF CreateReblog
  <2>2. CASE k = "api"
    BY <1>1, <1>3, <2>1, <2>2, ReturnsAtOnce DEF Effect, SamePost, SameNotice, SameJobs
  <2>3. CASE k # "api"
    BY <1>1, <1>3, <2>1, <2>3, GoesOnAsIs DEF Effect, SamePost, SameNotice, SameJobs
  <2> QED
    BY <2>2, <2>3
<1> QED
  BY <1>2, <1>3

LEMMA DeleteReblogDoes ==
  ASSUME PostsInv, NEW s \in Servers, NEW k \in Slots, DeleteReblog(s, k)
  PROVE  NoEvent /\ Effect(s, k, post[s], favourite[s], reblog[s] \ {Actor(s, k)}, notice[s], jobs[s], Tail(Left(s, k)))
<1>1. /\ Left(s, k) # <<>> /\ GoOn(s, k) /\ NoEvent /\ SamePost /\ favourite' = favourite /\ SameNotice /\ SameJobs
      /\ reblog' = [reblog EXCEPT ![s] = reblog[s] \ {Actor(s, k)}]
  BY DEF DeleteReblog, At, Left, NoEvent, history, SamePost, SameNotice, SameJobs
<1>2. reblog'[s] = reblog[s] \ {Actor(s, k)} /\ \A x \in Servers : x # s => reblog'[x] = reblog[x]
  BY <1>1, RowsAre
<1> QED
  BY <1>1, <1>2, GoesOnAsIs DEF Effect, SamePost, SameNotice, SameJobs

LEMMA NotifyDoes ==
  ASSUME PostsInv, NEW s \in Servers, NEW k \in Slots, Notify(s, k)
  PROVE  /\ NoEvent
         /\ "mention" \in notice[s] => "mention" \in notice'[s]
         /\ s # Author /\ run[s][k].new.mentions => "mention" \in notice'[s]
         /\ Effect(s, k, post[s], favourite[s], reblog[s], notice'[s], jobs[s], Tail(Left(s, k)))
<1> PICK told : told = IF s = Author THEN {NoticeOf(run[s][k].op)} ELSE {x \in {"mention"} : run[s][k].new.mentions}
  OBVIOUS
<1> PICK N : N = notice[s] \cup told
  OBVIOUS
<1>1. /\ Left(s, k) # <<>> /\ GoOn(s, k) /\ NoEvent /\ SamePost /\ SameMarks /\ SameJobs
      /\ notice' = [notice EXCEPT ![s] = N]
  BY DEF Notify, At, Left, NoEvent, history, SamePost, SameMarks, SameJobs
<1>2. notice'[s] = N /\ \A x \in Servers : x # s => notice'[x] = notice[x]
  BY <1>1, RowsAre
<1>3. /\ "mention" \in notice[s] => "mention" \in N
      /\ s # Author /\ run[s][k].new.mentions => "mention" \in N
  OBVIOUS
<1>4. notice'[s] = N /\ Effect(s, k, post[s], favourite[s], reblog[s], N, jobs[s], Tail(Left(s, k)))
  BY <1>1, <1>2, GoesOnAsIs DEF Effect, SamePost, SameMarks, SameJobs
<1> QED
  BY <1>1, <1>3, <1>4

LEMMA DeleteNotificationDoes ==
  ASSUME PostsInv, NEW s \in Servers, NEW k \in Slots, DeleteNotification(s, k)
  PROVE  NoEvent /\ Effect(s, k, post[s], favourite[s], reblog[s], notice'[s], jobs[s], Tail(Left(s, k)))
<1> PICK N : N = notice[s] \ {NoticeOf(run[s][k].op)}
  OBVIOUS
<1>1. /\ Left(s, k) # <<>> /\ GoOn(s, k) /\ NoEvent /\ SamePost /\ SameMarks /\ SameJobs
      /\ notice' = [notice EXCEPT ![s] = N]
  BY DEF DeleteNotification, At, Left, NoEvent, history, SamePost, SameMarks, SameJobs
<1>2. notice'[s] = N /\ \A x \in Servers : x # s => notice'[x] = notice[x]
  BY <1>1, RowsAre
<1>3. notice'[s] = N /\ Effect(s, k, post[s], favourite[s], reblog[s], N, jobs[s], Tail(Left(s, k)))
  BY <1>1, <1>2, GoesOnAsIs DEF Effect, SamePost, SameMarks, SameJobs
<1> QED
  BY <1>1, <1>3

LEMMA FetchNoteDoes ==
  ASSUME PostsInv, NEW s \in Servers, NEW k \in Slots, FetchNote(s, k)
  PROVE  /\ NoEvent
         /\ \/ /\ post[Other(s)] # NoPost /\ Holds(s, k, NoPost, post[Other(s)])
               /\ Effect(s, k, post[s], favourite[s], reblog[s], notice[s], jobs[s], Tail(Left(s, k)))
            \/ Effect(s, k, post[s], favourite[s], reblog[s], notice[s], jobs[s], <<>>)
<1>1. Left(s, k) # <<>> /\ UNCHANGED <<rows, jobs, wire, history>>
  BY DEF FetchNote, At, Left
<1>2. CASE Served(Other(s)) /\ GoOnHaving(s, k, NoPost, post[Other(s)])
  <2>1. post[Other(s)] # NoPost
    BY <1>2, NoRow DEF Served
  <2> QED
    BY <1>1, <1>2, <2>1, GoesOnTo DEF Effect, rows, history, NoEvent
<1>3. CASE Return(s, k)
  BY <1>1, <1>3, ReturnsAtOnce DEF Effect, rows, history, NoEvent
<1> QED
  BY <1>2, <1>3 DEF FetchNote

LEMMA StoreNoteDoes ==
  ASSUME PostsInv, NEW s \in Servers, NEW k \in Slots, StoreNote(s, k)
  PROVE  /\ NoEvent /\ run[s][k].new \in Row
         /\ \/ /\ post[s] = NoPost /\ Holds(s, k, run[s][k].read, run[s][k].new)
               /\ post'[s] \in Row /\ post'[s].text = run[s][k].new.text
               /\ Effect(s, k, post'[s], favourite[s], reblog[s], notice[s], jobs[s], Tail(Left(s, k)))
            \/ post[s] # NoPost /\ Effect(s, k, post[s], favourite[s], reblog[s], notice[s], jobs[s], <<>>)
<1>1. Left(s, k) # <<>> /\ NoEvent /\ SameMarks /\ SameNotice /\ SameJobs /\ At(s, k, "StoreNote")
  BY DEF StoreNote, At, Left, history, NoEvent, SameMarks, SameNotice, SameJobs
<1>2. run[s][k].new \in Row
  BY <1>1, AtIs DEF RequestOK, Here
<1>3. CASE post[s] = NoPost
  <2> PICK p : p = [run[s][k].new EXCEPT !.mentions = FALSE]
    OBVIOUS
  <2>1. p \in Row /\ p.text = run[s][k].new.text
    BY <1>2, ColumnsOf
  <2>2. post' = [post EXCEPT ![s] = p] /\ GoOn(s, k)
    BY <1>3 DEF StoreNote
  <2>3. post'[s] = p /\ \A x \in Servers : x # s => post'[x] = post[x]
    BY <2>2, RowsAre
  <2>4. post'[s] = p /\ Effect(s, k, p, favourite[s], reblog[s], notice[s], jobs[s], Tail(Left(s, k))) /\ Holds(s, k, run[s][k].read, run[s][k].new)
    BY <1>1, <2>2, <2>3, GoesOnAsIs DEF Effect, SameMarks, SameNotice, SameJobs
  <2> QED
    BY <1>1, <1>2, <1>3, <2>1, <2>4
<1>4. CASE post[s] # NoPost
  <2>1. Return(s, k) /\ SamePost
    BY <1>4 DEF StoreNote, SamePost
  <2> QED
    BY <1>1, <1>2, <1>4, <2>1, ReturnsAtOnce DEF Effect, SamePost, SameMarks, SameNotice, SameJobs
<1> QED
  BY <1>3, <1>4

LEMMA UpdateNoteDoes ==
  ASSUME PostsInv, NEW s \in Servers, NEW k \in Slots, UpdateNote(s, k)
  PROVE  /\ NoEvent
         /\ post[s] = NoPost => post'[s] = NoPost
         /\ post[s] # NoPost => post'[s] \in Row /\ post'[s].text = run[s][k].new.text
         /\ Effect(s, k, post'[s], favourite[s], reblog[s], notice[s], jobs[s], Tail(Left(s, k)))
<1> PICK p : p = IF post[s] = NoPost THEN post[s] ELSE [post[s] EXCEPT !.text = run[s][k].new.text]
  OBVIOUS
<1>1. /\ Left(s, k) # <<>> /\ NoEvent /\ SameMarks /\ SameNotice /\ SameJobs /\ GoOn(s, k)
      /\ post' = [post EXCEPT ![s] = p]
  BY DEF UpdateNote, At, Left, history, NoEvent, SameMarks, SameNotice, SameJobs
<1>2. post'[s] = p /\ \A x \in Servers : x # s => post'[x] = post[x]
  BY <1>1, RowsAre
<1>3. post[s] \in Rows /\ run[s][k].new \in Rows
  BY RequestTypes DEF PostsInv, RowsOK
<1>4. /\ post[s] = NoPost => p = NoPost
      /\ post[s] # NoPost => p \in Row /\ p.text = run[s][k].new.text
  BY <1>3, ColumnsOf
<1>5. post'[s] = p /\ Effect(s, k, p, favourite[s], reblog[s], notice[s], jobs[s], Tail(Left(s, k)))
  BY <1>1, <1>2, GoesOnAsIs DEF Effect, SameMarks, SameNotice, SameJobs
<1> QED
  BY <1>1, <1>4, <1>5

LEMMA EnqueueMentionedDoes ==
  ASSUME PostsInv, NEW s \in Servers, NEW k \in Slots, EnqueueMentioned(s, k)
  PROVE  /\ NoEvent /\ Holds(s, k, run[s][k].read, run[s][k].new)
         /\ \/ Effect(s, k, post[s], favourite[s], reblog[s], notice[s], Append(jobs[s], "Create"), Tail(Left(s, k)))
            \/ Effect(s, k, post[s], favourite[s], reblog[s], notice[s], jobs[s], Deliver4)
<1>1. CASE Enqueue(s, k, "EnqueueMentioned", "Create")
  BY <1>1, EnqueueDoes
<1>2. CASE run' = [run EXCEPT ![s][k].todo = <<"Fanout">>] /\ UNCHANGED <<rows, jobs, wire, history>>
  <2> PICK r : r = run[s][k]
    OBVIOUS
  <2>0. PICK n : n = [r EXCEPT !.todo = <<"Fanout">>]
    OBVIOUS
  <2>1. RunBecomes(s, k, n)
    BY <1>2, <2>0 DEF PostsInv, RunsOK, RunBecomes
  <2>2. run'[s][k] = n /\ \A x \in Servers, l \in Slots : x # s \/ l # k => run'[x][l] = run[x][l]
    BY <2>1, RunMoves
  <2>3. n.todo = Deliver4 /\ n.read = r.read /\ n.new = r.new
    BY <2>0, RequestTypes DEF Requests, Deliver4
  <2> QED
    BY <1>2, <2>2, <2>3 DEF Effect, Holds, Left, rows, history, NoEvent
<1> QED
  BY <1>1, <1>2 DEF EnqueueMentioned

LEMMA UpdatePostMentionsDoes ==
  ASSUME PostsInv, NEW s \in Servers, NEW k \in Slots, UpdatePostMentions(s, k)
  PROVE  /\ NoEvent
         /\ Left(s, k)' # <<>> => run'[s][k].read.mentions
         /\ post[s] = NoPost => post'[s] = NoPost
         /\ post[s] # NoPost => post'[s] \in Row /\ post'[s].text = post[s].text /\ post'[s].mentions
         /\ Effect(s, k, post'[s], favourite[s], reblog[s], notice[s], jobs[s], Tail(Left(s, k)))
<1> PICK p : p = IF post[s] = NoPost THEN post[s] ELSE [post[s] EXCEPT !.mentions = TRUE]
  OBVIOUS
<1> PICK q : q = [run[s][k].read EXCEPT !.mentions = TRUE]
  OBVIOUS
<1>1. /\ At(s, k, "UpdatePostMentions") /\ Left(s, k) # <<>>
      /\ NoEvent /\ SameMarks /\ SameNotice /\ SameJobs /\ GoOnHaving(s, k, q, NoPost)
      /\ post' = [post EXCEPT ![s] = p]
  BY DEF UpdatePostMentions, At, Left, history, NoEvent, SameMarks, SameNotice, SameJobs
<1>2. post'[s] = p /\ \A x \in Servers : x # s => post'[x] = post[x]
  BY <1>1, RowsAre
<1>3. post[s] \in Rows
  BY DEF PostsInv, RowsOK
<1>4. /\ post[s] = NoPost => p = NoPost
      /\ post[s] # NoPost => p \in Row /\ p.text = post[s].text /\ p.mentions
  BY <1>3, ColumnsOf
<1>5. run[s][k].read \in Row
  BY <1>1, AtIs DEF RequestOK, Here
<1>6. q.mentions
  BY <1>5, ColumnsOf
<1>7. post'[s] = p /\ Effect(s, k, p, favourite[s], reblog[s], notice[s], jobs[s], Tail(Left(s, k))) /\ (Left(s, k)' # <<>> => run'[s][k].read = q)
  BY <1>1, <1>2, GoesOnTo DEF Effect, Holds, SameMarks, SameNotice, SameJobs
<1> QED
  BY <1>1, <1>4, <1>6, <1>7

LEMMA FanoutDoes ==
  ASSUME PostsInv, NEW s \in Servers, NEW k \in Slots, Fanout(s, k)
  PROVE  /\ NoEvent
         /\ \/ run[s][k].read.mentions /\ Effect(s, k, post[s], favourite[s], reblog[s], notice[s], jobs[s], <<>>)
            \/ ~run[s][k].read.mentions /\ Effect(s, k, post[s], favourite[s], reblog[s], notice[s], Append(jobs[s], "Create"), Tail(Left(s, k)))
<1>1. CASE run[s][k].read.mentions
  <2>1. Return(s, k) /\ UNCHANGED <<rows, jobs, wire, history>>
    BY <1>1 DEF Fanout
  <2> QED
    BY <1>1, <2>1, ReturnsAtOnce DEF Effect, rows, history, NoEvent
<1>2. CASE ~run[s][k].read.mentions
  <2>1. Enqueue(s, k, "Fanout", "Create")
    BY <1>2 DEF Fanout
  <2> QED
    BY <1>2, <2>1, EnqueueDoes
<1> QED
  BY <1>1, <1>2

-----------------------------------------------------------------------------
(* What a step leaves as it is.                                            *)

\* A statement of request k of s keeps to the rows of s and to the request.
Frame(s, k) ==
  /\ \A x \in Servers : x # s => /\ post'[x] = post[x] /\ favourite'[x] = favourite[x]
                                /\ reblog'[x] = reblog[x] /\ notice'[x] = notice[x] /\ jobs'[x] = jobs[x]
  /\ wire' = wire /\ smooth' = smooth
  /\ \A x \in Servers, l \in Slots : x # s \/ l # k => run'[x][l] = run[x][l]

PostWriters ==
  {"CreatePost", "UpdatePost", "DeletePost", "StoreNote", "UpdateNote", "UpdatePostMentions"}

Enqueuers ==
  {"EnqueueMentioned", "Fanout", "EnqueueDeliverPost", "EnqueueUpdatePost", "EnqueueDeliverDelete",
   "EnqueueSendLike", "EnqueueSendUndoLike", "EnqueueSendAnnounce", "EnqueueSendUndoAnnounce"}

\* What any statement h may do to the post, the marks F or B of who favourited
\* or reblogged it, the notifications, the jobs, and what is left of it.
MayPost(s, h, P) ==
  /\ h \notin PostWriters => P = post[s]
  /\ post[s] = NoPost /\ P # NoPost => h \in {"CreatePost", "StoreNote"}
  /\ post[s] # NoPost /\ P = NoPost => h = "DeletePost" /\ favourite[s] = {}

MayFavourite(s, k, h, F) ==
  /\ h \notin {"CreateFavourite", "DeleteFavourite"} => F = favourite[s]
  /\ \A x \in Servers : x # Actor(s, k) => (x \in F <=> x \in favourite[s])
  /\ F # {} => favourite[s] # {} \/ post[s] # NoPost

MayReblog(s, k, h, B) ==
  /\ h \notin {"CreateReblog", "DeleteReblog"} => B = reblog[s]
  /\ \A x \in Servers : x # Actor(s, k) => (x \in B <=> x \in reblog[s])

MayNotice(s, h, N) == h \notin {"Notify", "DeleteNotification"} => N = notice[s]

MayJobs(s, h, J) ==
  \/ J = jobs[s]
  \/ /\ h \in Enqueuers
     /\ \E x \in JobTypes : J = Append(jobs[s], x) /\ (s = Author => x \notin {"Like", "UndoLike"})

MayLeave(s, k, h, t) ==
  \/ t \in {Tail(Left(s, k)), <<>>}
  \/ h = "EnqueueMentioned" /\ t = Deliver4

MayHappen(h) ==
  /\ h # "CreatePost" => created' = created
  /\ h # "DeletePost" => refused' = refused

May(s, k, h, P, F, B, N, J, t) ==
  /\ MayPost(s, h, P) /\ MayFavourite(s, k, h, F) /\ MayReblog(s, k, h, B) /\ MayNotice(s, h, N)
  /\ MayJobs(s, h, J) /\ MayLeave(s, k, h, t) /\ MayHappen(h)

Outcome(s, k, h) ==
  May(s, k, h, post'[s], favourite'[s], reblog'[s], notice'[s], jobs'[s], Left(s, k)')

LEMMA EffectIs ==
  ASSUME NEW s \in Servers, NEW k \in Slots, NEW h, NEW P, NEW F, NEW B, NEW N, NEW J, NEW t,
         Effect(s, k, P, F, B, N, J, t), May(s, k, h, P, F, B, N, J, t)
  PROVE  Frame(s, k) /\ Outcome(s, k, h)
<1>1. Frame(s, k)
  BY DEF Effect, Frame
<1>2. post'[s] = P /\ favourite'[s] = F /\ reblog'[s] = B /\ notice'[s] = N /\ jobs'[s] = J /\ Left(s, k)' = t
  BY DEF Effect
<1> QED
  BY <1>1, <1>2 DEF Outcome

\* A statement that leaves a table alone.
LEMMA MayKeep ==
  ASSUME NEW s, NEW k, NEW h
  PROVE  /\ MayPost(s, h, post[s]) /\ MayFavourite(s, k, h, favourite[s])
         /\ MayReblog(s, k, h, reblog[s]) /\ MayNotice(s, h, notice[s]) /\ MayJobs(s, h, jobs[s])
         /\ MayLeave(s, k, h, Tail(Left(s, k))) /\ MayLeave(s, k, h, <<>>)
         /\ NoEvent => MayHappen(h)
BY DEF MayPost, MayFavourite, MayReblog, MayNotice, MayJobs, MayLeave, MayHappen, NoEvent

LEMMA MayEnqueue ==
  ASSUME NEW s, NEW h \in Enqueuers, NEW x \in JobTypes, s = Author => x \notin {"Like", "UndoLike"}
  PROVE  MayJobs(s, h, Append(jobs[s], x))
BY DEF MayJobs

\* What it takes of a statement that writes one of the tables or none.
LEMMA EffectOnNothing ==
  ASSUME NEW s \in Servers, NEW k \in Slots, NEW h, MayHappen(h), NEW t, MayLeave(s, k, h, t),
         Effect(s, k, post[s], favourite[s], reblog[s], notice[s], jobs[s], t)
  PROVE  Frame(s, k) /\ Outcome(s, k, h)
<1>1. May(s, k, h, post[s], favourite[s], reblog[s], notice[s], jobs[s], t)
  BY MayKeep DEF May
<1> QED
  BY <1>1, EffectIs

LEMMA EffectOnPost ==
  ASSUME NEW s \in Servers, NEW k \in Slots, NEW h, MayHappen(h), NEW P,
         MayPost(s, h, P), Effect(s, k, P, favourite[s], reblog[s], notice[s], jobs[s], Tail(Left(s, k)))
  PROVE  Frame(s, k) /\ Outcome(s, k, h)
<1>1. May(s, k, h, P, favourite[s], reblog[s], notice[s], jobs[s], Tail(Left(s, k)))
  BY MayKeep DEF May
<1> QED
  BY <1>1, EffectIs

LEMMA EffectOnFavourites ==
  ASSUME NEW s \in Servers, NEW k \in Slots, NEW h, MayHappen(h), NEW F,
         MayFavourite(s, k, h, F), Effect(s, k, post[s], F, reblog[s], notice[s], jobs[s], Tail(Left(s, k)))
  PROVE  Frame(s, k) /\ Outcome(s, k, h)
<1>1. May(s, k, h, post[s], F, reblog[s], notice[s], jobs[s], Tail(Left(s, k)))
  BY MayKeep DEF May
<1> QED
  BY <1>1, EffectIs

LEMMA EffectOnReblogs ==
  ASSUME NEW s \in Servers, NEW k \in Slots, NEW h, MayHappen(h), NEW B,
         MayReblog(s, k, h, B), Effect(s, k, post[s], favourite[s], B, notice[s], jobs[s], Tail(Left(s, k)))
  PROVE  Frame(s, k) /\ Outcome(s, k, h)
<1>1. May(s, k, h, post[s], favourite[s], B, notice[s], jobs[s], Tail(Left(s, k)))
  BY MayKeep DEF May
<1> QED
  BY <1>1, EffectIs

LEMMA EffectOnNotices ==
  ASSUME NEW s \in Servers, NEW k \in Slots, NEW h, MayHappen(h), NEW N,
         MayNotice(s, h, N), Effect(s, k, post[s], favourite[s], reblog[s], N, jobs[s], Tail(Left(s, k)))
  PROVE  Frame(s, k) /\ Outcome(s, k, h)
<1>1. May(s, k, h, post[s], favourite[s], reblog[s], N, jobs[s], Tail(Left(s, k)))
  BY MayKeep DEF May
<1> QED
  BY <1>1, EffectIs

LEMMA EffectOnJobs ==
  ASSUME NEW s \in Servers, NEW k \in Slots, NEW h, MayHappen(h), NEW J,
         MayJobs(s, h, J), Effect(s, k, post[s], favourite[s], reblog[s], notice[s], J, Tail(Left(s, k)))
  PROVE  Frame(s, k) /\ Outcome(s, k, h)
<1>1. May(s, k, h, post[s], favourite[s], reblog[s], notice[s], J, Tail(Left(s, k)))
  BY MayKeep DEF May
<1> QED
  BY <1>1, EffectIs

LEMMA StatementDoes ==
  ASSUME PostsInv, NEW s \in Servers, NEW k \in Slots, Statement(s, k), NEW h, h = Head(Left(s, k))
  PROVE  Left(s, k) # <<>> /\ Frame(s, k) /\ Outcome(s, k, h)
<1> DEFINE Nothing(t) == Effect(s, k, post[s], favourite[s], reblog[s], notice[s], jobs[s], t)
<1> DEFINE Done == Frame(s, k) /\ Outcome(s, k, h)
<1> SUFFICES Done
  BY StatementNames
<1> HIDE DEF Done
<1>1. ASSUME NoEvent, NEW t \in {Tail(Left(s, k)), <<>>}, Nothing(t) PROVE Done
  BY <1>1, MayKeep, EffectOnNothing DEF Done
<1>2. CASE GetPost(s, k) \/ FetchNote(s, k)
  <2>1. NoEvent /\ \E t \in {Tail(Left(s, k)), <<>>} : Nothing(t)
    BY <1>2, GetPostDoes, FetchNoteDoes
  <2> QED
    BY <1>1, <2>1
<1>3. CASE PinPost(s, k) \/ UnpinPost(s, k) \/ RefreshPostCount(s, k) \/ CreateWrapper(s, k)
             \/ CreateRemoteWrapper(s, k) \/ DeleteReblogPost(s, k)
  BY <1>1, <1>3, PassDoes
<1>4. CASE CreatePost(s, k)
  <2>1. h = "CreatePost"
    BY <1>4 DEF At, Left, CreatePost
  <2>2. /\ run[s][k].new \in Row /\ refused' = refused
        /\ Effect(s, k, run[s][k].new, favourite[s], reblog[s], notice[s], jobs[s], Tail(Left(s, k)))
    BY <1>4, CreatePostDoes
  <2>3. MayPost(s, h, run[s][k].new) /\ MayHappen(h)
    BY <2>1, <2>2, NoRow DEF MayPost, PostWriters, MayHappen
  <2> QED
    BY <2>2, <2>3, EffectOnPost DEF Done
<1>5. CASE UpdatePost(s, k) \/ UpdateNote(s, k) \/ UpdatePostMentions(s, k)
  <2>1. h \in PostWriters
    BY <1>5 DEF At, Left, UpdatePost, UpdateNote, UpdatePostMentions, PostWriters
  <2>2. /\ NoEvent /\ (post[s] = NoPost <=> post'[s] = NoPost)
        /\ Effect(s, k, post'[s], favourite[s], reblog[s], notice[s], jobs[s], Tail(Left(s, k)))
    BY <1>5, UpdatePostDoes, UpdateNoteDoes, UpdatePostMentionsDoes, NoRow
  <2>3. MayPost(s, h, post'[s]) /\ MayHappen(h)
    BY <2>1, <2>2, MayKeep DEF MayPost
  <2> QED
    BY <2>2, <2>3, EffectOnPost DEF Done
<1>6. CASE DeletePost(s, k)
  <2>1. h = "DeletePost"
    BY <1>6 DEF At, Left, DeletePost
  <2>2. /\ created' = created
        /\ \/ /\ favourite[s] = {}
              /\ Effect(s, k, NoPost, favourite[s], reblog[s], notice[s], jobs[s], Tail(Left(s, k)))
           \/ Nothing(<<>>)
    BY <1>6, DeletePostDoes DEF NoEvent
  <2>3. MayHappen(h) /\ (favourite[s] = {} => MayPost(s, h, NoPost))
    BY <2>1, <2>2 DEF MayPost, PostWriters, MayHappen
  <2> QED
    BY <2>2, <2>3, MayKeep, EffectOnPost, EffectOnNothing DEF Done
<1>7. CASE StoreNote(s, k)
  <2>1. h = "StoreNote"
    BY <1>7 DEF At, Left, StoreNote
  <2>2. /\ NoEvent
        /\ \/ /\ post[s] = NoPost
              /\ Effect(s, k, post'[s], favourite[s], reblog[s], notice[s], jobs[s], Tail(Left(s, k)))
           \/ Nothing(<<>>)
    BY <1>7, StoreNoteDoes
  <2>3. MayHappen(h) /\ (post[s] = NoPost => MayPost(s, h, post'[s]))
    BY <2>1, <2>2, MayKeep DEF MayPost, PostWriters
  <2> QED
    BY <1>1, <2>2, <2>3, EffectOnPost DEF Done
<1>8. CASE CreateFavourite(s, k) \/ DeleteFavourite(s, k)
  <2>1. h \in {"CreateFavourite", "DeleteFavourite"}
    BY <1>8 DEF At, Left, CreateFavourite, DeleteFavourite
  <2>2. PICK F : F = IF CreateFavourite(s, k) THEN favourite[s] \cup {Actor(s, k)} ELSE favourite[s] \ {Actor(s, k)}
    OBVIOUS
  <2>3. /\ NoEvent
        /\ \/ /\ CreateFavourite(s, k) => post[s] # NoPost
              /\ Effect(s, k, post[s], F, reblog[s], notice[s], jobs[s], Tail(Left(s, k)))
           \/ \E t \in {Tail(Left(s, k)), <<>>} : Nothing(t)
    <3>1. CASE CreateFavourite(s, k)
      BY <2>2, <3>1, CreateFavouriteDoes
    <3>2. CASE ~CreateFavourite(s, k)
      BY <1>8, <2>2, <3>2, DeleteFavouriteDoes
    <3> QED
      BY <3>1, <3>2
  <2>4. (CreateFavourite(s, k) => post[s] # NoPost) => MayFavourite(s, k, h, F)
    BY <2>1, <2>2, ServersAre DEF MayFavourite
  <2> QED
    BY <1>1, <2>3, <2>4, MayKeep, EffectOnFavourites DEF Done
<1>9. CASE CreateReblog(s, k) \/ DeleteReblog(s, k)
  <2>1. h \in {"CreateReblog", "DeleteReblog"}
    BY <1>9 DEF At, Left, CreateReblog, DeleteReblog
  <2>2. PICK B : B = IF CreateReblog(s, k) THEN reblog[s] \cup {Actor(s, k)} ELSE reblog[s] \ {Actor(s, k)}
    OBVIOUS
  <2>3. /\ NoEvent
        /\ \/ Effect(s, k, post[s], favourite[s], B, notice[s], jobs[s], Tail(Left(s, k)))
           \/ \E t \in {Tail(Left(s, k)), <<>>} : Nothing(t)
    <3>1. CASE CreateReblog(s, k)
      BY <2>2, <3>1, CreateReblogDoes
    <3>2. CASE ~CreateReblog(s, k)
      BY <1>9, <2>2, <3>2, DeleteReblogDoes
    <3> QED
      BY <3>1, <3>2
  <2>4. MayReblog(s, k, h, B)
    BY <2>1, <2>2, ServersAre DEF MayReblog
  <2> QED
    BY <1>1, <2>3, <2>4, MayKeep, EffectOnReblogs DEF Done
<1>10. CASE Notify(s, k) \/ DeleteNotification(s, k)
  <2>1. h \in {"Notify", "DeleteNotification"}
    BY <1>10 DEF At, Left, Notify, DeleteNotification
  <2>2. /\ NoEvent
        /\ Effect(s, k, post[s], favourite[s], reblog[s], notice'[s], jobs[s], Tail(Left(s, k)))
    BY <1>10, NotifyDoes, DeleteNotificationDoes
  <2>3. MayNotice(s, h, notice'[s])
    BY <2>1 DEF MayNotice
  <2> QED
    BY <2>2, <2>3, MayKeep, EffectOnNotices DEF Done
<1>11. ASSUME h \in Enqueuers, NEW x \in JobTypes, s = Author => x \notin {"Like", "UndoLike"}, NoEvent,
              Effect(s, k, post[s], favourite[s], reblog[s], notice[s], Append(jobs[s], x), Tail(Left(s, k)))
       PROVE  Done
  BY <1>11, MayEnqueue, MayKeep, EffectOnJobs DEF Done
<1>12. "Create" \in JobTypes /\ {"EnqueueMentioned", "Fanout"} \subseteq Enqueuers
  BY DEF JobTypes, Activities, Enqueuers
<1>13. CASE EnqueueMentioned(s, k)
  <2>1. h = "EnqueueMentioned"
    BY <1>13 DEF At, Left, EnqueueMentioned, Enqueue
  <2>2. MayLeave(s, k, h, Deliver4)
    BY <2>1 DEF MayLeave
  <2> QED
    BY <1>11, <1>12, <1>13, <2>1, <2>2, MayKeep, EnqueueMentionedDoes, EffectOnNothing DEF Done
<1>14. CASE Fanout(s, k)
  <2>1. h = "Fanout"
    BY <1>14 DEF At, Left, Fanout, Enqueue
  <2> QED
    BY <1>1, <1>11, <1>12, <1>14, <2>1, FanoutDoes
<1>15. ASSUME NEW st \in Enqueuers, NEW x \in JobTypes, s = Author => x \notin {"Like", "UndoLike"},
              Enqueue(s, k, st, x)
       PROVE  Done
  <2>1. h \in Enqueuers
    BY <1>15 DEF At, Left, Enqueue
  <2> QED
    BY <1>11, <1>15, <2>1, EnqueueDoes
<1>16. ASSUME NEW st \in Enqueuers, NEW x \in JobTypes, EnqueueAbout(s, k, st, x) PROVE Done
  <2>1. CASE s = Author
    BY <1>1, <1>16, <2>1, PassDoes
  <2>2. CASE s # Author
    BY <1>15, <1>16, <2>2 DEF EnqueueAbout
  <2> QED
    BY <2>1, <2>2
<1>17. Enqueues(s, k) => Done
  <2>1. {"EnqueueDeliverPost", "EnqueueUpdatePost", "EnqueueDeliverDelete", "EnqueueSendLike",
         "EnqueueSendUndoLike", "EnqueueSendAnnounce", "EnqueueSendUndoAnnounce"} \subseteq Enqueuers
    BY DEF Enqueuers
  <2>2. {"Like", "UndoLike", "Announce", "UndoAnnounce", "Create", "Update", "Delete", "deliver_post"}
          \subseteq JobTypes
    BY DEF JobTypes, Activities
  <2> QED
    BY <1>15, <1>16, <2>1, <2>2 DEF Enqueues
<1> QED
  BY <1>2, <1>3, <1>4, <1>5, <1>6, <1>7, <1>8, <1>9, <1>10, <1>13, <1>14, <1>17 DEF Statement

-----------------------------------------------------------------------------
(* The lists of statements, one after the other.                           *)

LEMMA LikingListsAre ==
  /\ FavouritesCreate # <<>> /\ Head(FavouritesCreate) = "GetPost" /\ Tail(FavouritesCreate) = Liking2
  /\ Liking2 # <<>> /\ Head(Liking2) = "CreateFavourite" /\ Tail(Liking2) = Liking3
  /\ Liking3 # <<>> /\ Head(Liking3) = "EnqueueSendLike" /\ Tail(Liking3) = <<>>
BY DEF FavouritesCreate, Liking2, Liking3

LEMMA UnlikingListsAre ==
  /\ FavouritesDelete # <<>> /\ Head(FavouritesDelete) = "GetPost" /\ Tail(FavouritesDelete) = Unliking2
  /\ Unliking2 # <<>> /\ Head(Unliking2) = "DeleteFavourite" /\ Tail(Unliking2) = Unliking3
  /\ Unliking3 # <<>> /\ Head(Unliking3) = "EnqueueSendUndoLike" /\ Tail(Unliking3) = <<>>
BY DEF FavouritesDelete, Unliking2, Unliking3

LEMMA BoostingListsAre ==
  /\ ReblogsCreate # <<>> /\ Head(ReblogsCreate) = "GetPost" /\ Tail(ReblogsCreate) = Boosting2
  /\ Boosting2 # <<>> /\ Head(Boosting2) = "CreateReblog" /\ Tail(Boosting2) = Boosting3
  /\ Boosting3 # <<>> /\ Head(Boosting3) = "CreateWrapper" /\ Tail(Boosting3) = Boosting4
  /\ Boosting4 # <<>> /\ Head(Boosting4) = "RefreshPostCount" /\ Tail(Boosting4) = Boosting5
  /\ Boosting5 # <<>> /\ Head(Boosting5) = "EnqueueSendAnnounce" /\ Tail(Boosting5) = <<>>
BY DEF ReblogsCreate, Boosting2, Boosting3, Boosting4, Boosting5

LEMMA UnboostingListsAre ==
  /\ ReblogsDelete # <<>> /\ Head(ReblogsDelete) = "GetPost" /\ Tail(ReblogsDelete) = Unboosting2
  /\ Unboosting2 # <<>> /\ Head(Unboosting2) = "DeleteReblog" /\ Tail(Unboosting2) = Unboosting3
  /\ Unboosting3 # <<>> /\ Head(Unboosting3) = "DeleteReblogPost" /\ Tail(Unboosting3) = Unboosting4
  /\ Unboosting4 # <<>> /\ Head(Unboosting4) = "RefreshPostCount" /\ Tail(Unboosting4) = Unboosting5
  /\ Unboosting5 # <<>> /\ Head(Unboosting5) = "EnqueueSendUndoAnnounce" /\ Tail(Unboosting5) = <<>>
BY DEF ReblogsDelete, Unboosting2, Unboosting3, Unboosting4, Unboosting5

LEMMA InteractionListsEnd ==
  ASSUME NEW t \in InteractionLists, t # <<>>
  PROVE  Tail(t) \in InteractionLists /\ Head(t) \in {"GetPost", "CreateFavourite", "EnqueueSendLike", "DeleteFavourite", "EnqueueSendUndoLike", "CreateReblog", "CreateWrapper", "RefreshPostCount", "EnqueueSendAnnounce", "DeleteReblog", "DeleteReblogPost", "EnqueueSendUndoAnnounce"}
<1>1. CASE t \in {FavouritesCreate, Liking2, Liking3}
  <2>1. Tail(t) \in {Liking2, Liking3, <<>>} /\ Head(t) \in {"GetPost", "CreateFavourite", "EnqueueSendLike"}
    BY <1>1, LikingListsAre
  <2> QED
    BY <2>1 DEF InteractionLists
<1>2. CASE t \in {FavouritesDelete, Unliking2, Unliking3}
  <2>1. Tail(t) \in {Unliking2, Unliking3, <<>>} /\ Head(t) \in {"GetPost", "DeleteFavourite", "EnqueueSendUndoLike"}
    BY <1>2, UnlikingListsAre
  <2> QED
    BY <2>1 DEF InteractionLists
<1>3. CASE t \in {ReblogsCreate, Boosting2, Boosting3, Boosting4, Boosting5}
  <2>1. Tail(t) \in {Boosting2, Boosting3, Boosting4, Boosting5, <<>>} /\ Head(t) \in {"GetPost", "CreateReblog", "CreateWrapper", "RefreshPostCount", "EnqueueSendAnnounce"}
    BY <1>3, BoostingListsAre
  <2> QED
    BY <2>1 DEF InteractionLists
<1>4. CASE t \in {ReblogsDelete, Unboosting2, Unboosting3, Unboosting4, Unboosting5}
  <2>1. Tail(t) \in {Unboosting2, Unboosting3, Unboosting4, Unboosting5, <<>>} /\ Head(t) \in {"GetPost", "DeleteReblog", "DeleteReblogPost", "RefreshPostCount", "EnqueueSendUndoAnnounce"}
    BY <1>4, UnboostingListsAre
  <2> QED
    BY <2>1 DEF InteractionLists
<1> QED
  BY <1>1, <1>2, <1>3, <1>4 DEF InteractionLists

LEMMA PostingListsAre ==
  /\ PostsCreate # <<>> /\ Head(PostsCreate) = "CreatePost" /\ Tail(PostsCreate) = Posting2
  /\ Posting2 # <<>> /\ Head(Posting2) = "RefreshPostCount" /\ Tail(Posting2) = Posting3
  /\ Posting3 # <<>> /\ Head(Posting3) = "EnqueueDeliverPost" /\ Tail(Posting3) = <<>>
BY DEF PostsCreate, Posting2, Posting3

LEMMA EditingListsAre ==
  /\ PostsUpdate # <<>> /\ Head(PostsUpdate) = "GetPost" /\ Tail(PostsUpdate) = Editing2
  /\ Editing2 # <<>> /\ Head(Editing2) = "UpdatePost" /\ Tail(Editing2) = Editing3
  /\ Editing3 # <<>> /\ Head(Editing3) = "EnqueueUpdatePost" /\ Tail(Editing3) = <<>>
BY DEF PostsUpdate, Editing2, Editing3

LEMMA DeletingListsAre ==
  /\ PostsDelete # <<>> /\ Head(PostsDelete) = "GetPost" /\ Tail(PostsDelete) = Deleting2
  /\ Deleting2 # <<>> /\ Head(Deleting2) = "UnpinPost" /\ Tail(Deleting2) = Deleting3
  /\ Deleting3 # <<>> /\ Head(Deleting3) = "DeletePost" /\ Tail(Deleting3) = Deleting4
  /\ Deleting4 # <<>> /\ Head(Deleting4) = "RefreshPostCount" /\ Tail(Deleting4) = Deleting5
  /\ Deleting5 # <<>> /\ Head(Deleting5) = "EnqueueDeliverDelete" /\ Tail(Deleting5) = <<>>
BY DEF PostsDelete, Deleting2, Deleting3, Deleting4, Deleting5

LEMMA PinningListsAre ==
  /\ PostsPin # <<>> /\ Head(PostsPin) = "GetPost" /\ Tail(PostsPin) = Pinning2
  /\ Pinning2 # <<>> /\ Head(Pinning2) = "PinPost" /\ Tail(Pinning2) = <<>>
BY DEF PostsPin, Pinning2

LEMMA UnpinningListsAre ==
  /\ PostsUnpin # <<>> /\ Head(PostsUnpin) = "UnpinPost" /\ Tail(PostsUnpin) = <<>>
BY DEF PostsUnpin

LEMMA PostListsEnd ==
  ASSUME NEW t \in PostLists, t # <<>>
  PROVE  Tail(t) \in PostLists \cup {<<>>} /\ Head(t) \in {"CreatePost", "RefreshPostCount", "EnqueueDeliverPost", "GetPost", "UpdatePost", "EnqueueUpdatePost", "UnpinPost", "DeletePost", "EnqueueDeliverDelete", "PinPost"}
<1>1. CASE t \in {PostsCreate, Posting2, Posting3}
  <2>1. Tail(t) \in {Posting2, Posting3, <<>>} /\ Head(t) \in {"CreatePost", "RefreshPostCount", "EnqueueDeliverPost"}
    BY <1>1, PostingListsAre
  <2> QED
    BY <2>1 DEF PostLists
<1>2. CASE t \in {PostsUpdate, Editing2, Editing3}
  <2>1. Tail(t) \in {Editing2, Editing3, <<>>} /\ Head(t) \in {"GetPost", "UpdatePost", "EnqueueUpdatePost"}
    BY <1>2, EditingListsAre
  <2> QED
    BY <2>1 DEF PostLists
<1>3. CASE t \in {PostsDelete, Deleting2, Deleting3, Deleting4, Deleting5}
  <2>1. Tail(t) \in {Deleting2, Deleting3, Deleting4, Deleting5, <<>>} /\ Head(t) \in {"GetPost", "UnpinPost", "DeletePost", "RefreshPostCount", "EnqueueDeliverDelete"}
    BY <1>3, DeletingListsAre
  <2> QED
    BY <2>1 DEF PostLists
<1>4. CASE t \in {PostsPin, Pinning2}
  <2>1. Tail(t) \in {Pinning2, <<>>} /\ Head(t) \in {"GetPost", "PinPost"}
    BY <1>4, PinningListsAre
  <2> QED
    BY <2>1 DEF PostLists
<1>5. CASE t \in {PostsUnpin}
  <2>1. Tail(t) \in {<<>>} /\ Head(t) \in {"UnpinPost"}
    BY <1>5, UnpinningListsAre
  <2> QED
    BY <2>1 DEF PostLists
<1> QED
  BY <1>1, <1>2, <1>3, <1>4, <1>5 DEF PostLists

LEMMA LikeListsAre ==
  /\ InboxLike # <<>> /\ Head(InboxLike) = "GetPost" /\ Tail(InboxLike) = Like2
  /\ Like2 # <<>> /\ Head(Like2) = "CreateFavourite" /\ Tail(Like2) = Notifying
  /\ Notifying # <<>> /\ Head(Notifying) = "Notify" /\ Tail(Notifying) = <<>>
BY DEF InboxLike, Like2, Notifying

LEMMA UndoLikeListsAre ==
  /\ InboxUndoLike # <<>> /\ Head(InboxUndoLike) = "GetPost" /\ Tail(InboxUndoLike) = UndoLike2
  /\ UndoLike2 # <<>> /\ Head(UndoLike2) = "DeleteFavourite" /\ Tail(UndoLike2) = Withdrawing
  /\ Withdrawing # <<>> /\ Head(Withdrawing) = "DeleteNotification" /\ Tail(Withdrawing) = <<>>
BY DEF InboxUndoLike, UndoLike2, Withdrawing

LEMMA BoostListsAre ==
  /\ Boost1 # <<>> /\ Head(Boost1) = "GetPost" /\ Tail(Boost1) = Boost2
  /\ Boost2 # <<>> /\ Head(Boost2) = "CreateReblog" /\ Tail(Boost2) = Notifying
  /\ Notifying # <<>> /\ Head(Notifying) = "Notify" /\ Tail(Notifying) = <<>>
BY DEF Boost1, Boost2, Notifying

LEMMA UndoBoostListsAre ==
  /\ UndoBoost1 # <<>> /\ Head(UndoBoost1) = "GetPost" /\ Tail(UndoBoost1) = UndoBoost2
  /\ UndoBoost2 # <<>> /\ Head(UndoBoost2) = "DeleteReblog" /\ Tail(UndoBoost2) = Withdrawing
  /\ Withdrawing # <<>> /\ Head(Withdrawing) = "DeleteNotification" /\ Tail(Withdrawing) = <<>>
BY DEF UndoBoost1, UndoBoost2, Withdrawing

LEMMA AnswerListsEnd ==
  ASSUME NEW t \in AnswerLists, t # <<>>
  PROVE  Tail(t) \in AnswerLists /\ Head(t) \in {"GetPost", "CreateFavourite", "Notify", "DeleteFavourite", "DeleteNotification", "CreateReblog", "DeleteReblog"}
<1>1. CASE t \in {InboxLike, Like2, Notifying}
  <2>1. Tail(t) \in {Like2, Notifying, <<>>} /\ Head(t) \in {"GetPost", "CreateFavourite", "Notify"}
    BY <1>1, LikeListsAre
  <2> QED
    BY <2>1 DEF AnswerLists
<1>2. CASE t \in {InboxUndoLike, UndoLike2, Withdrawing}
  <2>1. Tail(t) \in {UndoLike2, Withdrawing, <<>>} /\ Head(t) \in {"GetPost", "DeleteFavourite", "DeleteNotification"}
    BY <1>2, UndoLikeListsAre
  <2> QED
    BY <2>1 DEF AnswerLists
<1>3. CASE t \in {Boost1, Boost2, Notifying}
  <2>1. Tail(t) \in {Boost2, Notifying, <<>>} /\ Head(t) \in {"GetPost", "CreateReblog", "Notify"}
    BY <1>3, BoostListsAre
  <2> QED
    BY <2>1 DEF AnswerLists
<1>4. CASE t \in {UndoBoost1, UndoBoost2, Withdrawing}
  <2>1. Tail(t) \in {UndoBoost2, Withdrawing, <<>>} /\ Head(t) \in {"GetPost", "DeleteReblog", "DeleteNotification"}
    BY <1>4, UndoBoostListsAre
  <2> QED
    BY <2>1 DEF AnswerLists
<1> QED
  BY <1>1, <1>2, <1>3, <1>4 DEF AnswerLists

LEMMA RepeatListsAre ==
  /\ Repeat1 # <<>> /\ Head(Repeat1) = "CreateRemoteWrapper" /\ Tail(Repeat1) = <<>>
BY DEF Repeat1

LEMMA FetchListsAre ==
  /\ Fetch1 # <<>> /\ Head(Fetch1) = "FetchNote" /\ Tail(Fetch1) = InboxCreate
  /\ InboxCreate # <<>> /\ Head(InboxCreate) = "StoreNote" /\ Tail(InboxCreate) = Notifying
  /\ Notifying # <<>> /\ Head(Notifying) = "Notify" /\ Tail(Notifying) = <<>>
BY DEF Fetch1, InboxCreate, Notifying

LEMMA UpdateListsAre ==
  /\ InboxUpdate # <<>> /\ Head(InboxUpdate) = "GetPost" /\ Tail(InboxUpdate) = Update2
  /\ Update2 # <<>> /\ Head(Update2) = "UpdateNote" /\ Tail(Update2) = <<>>
BY DEF InboxUpdate, Update2

LEMMA DeleteListsAre ==
  /\ InboxDelete # <<>> /\ Head(InboxDelete) = "GetPost" /\ Tail(InboxDelete) = Delete2
  /\ Delete2 # <<>> /\ Head(Delete2) = "DeletePost" /\ Tail(Delete2) = <<>>
BY DEF InboxDelete, Delete2

LEMMA NoteListsEnd ==
  ASSUME NEW t \in NoteLists, t # <<>>
  PROVE  Tail(t) \in NoteLists /\ Head(t) \in {"CreateRemoteWrapper", "FetchNote", "StoreNote", "Notify", "GetPost", "UpdateNote", "DeletePost"}
<1>1. CASE t \in {Repeat1}
  <2>1. Tail(t) \in {<<>>} /\ Head(t) \in {"CreateRemoteWrapper"}
    BY <1>1, RepeatListsAre
  <2> QED
    BY <2>1 DEF NoteLists
<1>2. CASE t \in {Fetch1, InboxCreate, Notifying}
  <2>1. Tail(t) \in {InboxCreate, Notifying, <<>>} /\ Head(t) \in {"FetchNote", "StoreNote", "Notify"}
    BY <1>2, FetchListsAre
  <2> QED
    BY <2>1 DEF NoteLists
<1>3. CASE t \in {InboxUpdate, Update2}
  <2>1. Tail(t) \in {Update2, <<>>} /\ Head(t) \in {"GetPost", "UpdateNote"}
    BY <1>3, UpdateListsAre
  <2> QED
    BY <2>1 DEF NoteLists
<1>4. CASE t \in {InboxDelete, Delete2}
  <2>1. Tail(t) \in {Delete2, <<>>} /\ Head(t) \in {"GetPost", "DeletePost"}
    BY <1>4, DeleteListsAre
  <2> QED
    BY <2>1 DEF NoteLists
<1> QED
  BY <1>1, <1>2, <1>3, <1>4 DEF NoteLists

LEMMA DeliveringListsAre ==
  /\ DeliverPost # <<>> /\ Head(DeliverPost) = "GetPost" /\ Tail(DeliverPost) = Deliver2
  /\ Deliver2 # <<>> /\ Head(Deliver2) = "EnqueueMentioned" /\ Tail(Deliver2) = Deliver3
  /\ Deliver3 # <<>> /\ Head(Deliver3) = "UpdatePostMentions" /\ Tail(Deliver3) = Deliver4
  /\ Deliver4 # <<>> /\ Head(Deliver4) = "Fanout" /\ Tail(Deliver4) = <<>>
BY DEF DeliverPost, Deliver2, Deliver3, Deliver4

LEMMA DeliverListsEnd ==
  ASSUME NEW t \in DeliverLists, t # <<>>
  PROVE  Tail(t) \in DeliverLists /\ Head(t) \in {"GetPost", "EnqueueMentioned", "UpdatePostMentions", "Fanout"}
<1>1. CASE t \in {DeliverPost, Deliver2, Deliver3, Deliver4}
  <2>1. Tail(t) \in {Deliver2, Deliver3, Deliver4, <<>>} /\ Head(t) \in {"GetPost", "EnqueueMentioned", "UpdatePostMentions", "Fanout"}
    BY <1>1, DeliveringListsAre
  <2> QED
    BY <2>1 DEF DeliverLists
<1> QED
  BY <1>1 DEF DeliverLists

\* What is next in each slot.
LEMMA HeadsAt ==
  ASSUME NEW s \in Servers, NEW k \in Slots, NEW t \in ListsAt(s, k), t # <<>>
  PROVE  /\ Tail(t) \in ListsAt(s, k) /\ <<>> \in ListsAt(s, k)
         /\ Head(t) = "EnqueueMentioned" => Deliver4 \in ListsAt(s, k)
         /\ k = "worker" => s = Author /\ Head(t) \in {"GetPost", "EnqueueMentioned", "UpdatePostMentions", "Fanout"}
         /\ s = Reader /\ k = "inbox" =>
              Head(t) \in {"CreateRemoteWrapper", "FetchNote", "StoreNote", "Notify", "GetPost", "UpdateNote", "DeletePost"}
         /\ s = Author /\ k = "inbox" =>
              Head(t) \in {"GetPost", "CreateFavourite", "Notify", "DeleteFavourite", "DeleteNotification",
                           "CreateReblog", "DeleteReblog"}
         /\ s = Reader /\ k = "api" =>
              Head(t) \in {"GetPost", "CreateFavourite", "EnqueueSendLike", "DeleteFavourite", "EnqueueSendUndoLike",
                           "CreateReblog", "CreateWrapper", "RefreshPostCount", "EnqueueSendAnnounce", "DeleteReblog",
                           "DeleteReblogPost", "EnqueueSendUndoAnnounce"}
<1>0. s \in {Author, Reader} /\ Author # Reader /\ k \in {"api", "inbox", "worker"}
  BY ServersDiffer DEF Servers, Slots
<1>1. CASE k = "api" /\ s = Author
  <2>1. t \in InteractionLists \cup PostLists /\ ListsAt(s, k) = InteractionLists \cup PostLists
    BY <1>1 DEF ListsAt
  <2>2. <<>> \in InteractionLists
    BY DEF InteractionLists
  <2>3. CASE t \in InteractionLists
    BY <1>0, <1>1, <2>1, <2>2, <2>3, InteractionListsEnd
  <2>4. CASE t \in PostLists
    BY <1>0, <1>1, <2>1, <2>2, <2>4, PostListsEnd
  <2> QED
    BY <2>1, <2>3, <2>4
<1>2. CASE k = "api" /\ s = Reader
  <2>1. t \in InteractionLists /\ ListsAt(s, k) = InteractionLists
    BY <1>0, <1>2 DEF ListsAt
  <2>2. <<>> \in InteractionLists
    BY DEF InteractionLists
  <2> QED
    BY <1>0, <1>2, <2>1, <2>2, InteractionListsEnd
<1>3. CASE k = "inbox" /\ s = Author
  <2>1. t \in AnswerLists /\ ListsAt(s, k) = AnswerLists /\ <<>> \in AnswerLists
    BY <1>3 DEF ListsAt, AnswerLists
  <2> QED
    BY <1>0, <1>3, <2>1, AnswerListsEnd
<1>4. CASE k = "inbox" /\ s = Reader
  <2>1. t \in NoteLists /\ ListsAt(s, k) = NoteLists /\ <<>> \in NoteLists
    BY <1>0, <1>4 DEF ListsAt, NoteLists
  <2> QED
    BY <1>0, <1>4, <2>1, NoteListsEnd
<1>5. CASE k = "worker"
  <2>1. s = Author /\ t \in DeliverLists /\ ListsAt(s, k) = DeliverLists /\ <<>> \in DeliverLists /\ Deliver4 \in DeliverLists
    BY <1>0, <1>5 DEF ListsAt, DeliverLists
  <2> QED
    BY <1>0, <1>5, <2>1, DeliverListsEnd
<1> QED
  BY <1>0, <1>1, <1>2, <1>3, <1>4, <1>5

-----------------------------------------------------------------------------
(* Queues: a job added at the end or the beginning, or taken from the       *)
(* beginning.                                                               *)

LEMMA Appended ==
  ASSUME NEW S, NEW j \in Seq(S), NEW x \in S, NEW n, n = Append(j, x)
  PROVE  /\ n \in Seq(S) /\ Len(j) \in Nat /\ Len(n) = Len(j) + 1 /\ n[Len(n)] = x
         /\ \A i \in 1..Len(j) : n[i] = j[i]
OBVIOUS

LEMMA Prepended ==
  ASSUME NEW S, NEW j \in Seq(S), NEW x \in S, NEW n, n = <<x>> \o j
  PROVE  /\ n \in Seq(S) /\ Len(j) \in Nat /\ Len(n) = Len(j) + 1 /\ n[1] = x
         /\ \A i \in 1..Len(j) : n[i + 1] = j[i]
<1>1. <<x>> \in Seq(S) /\ Len(<<x>>) = 1 /\ <<x>>[1] = x
  OBVIOUS
<1> QED
  BY <1>1, ConcatProperties

LEMMA FirstTaken ==
  ASSUME NEW S, NEW j \in Seq(S), 1 \in DOMAIN j, NEW n, n = Without(j, 1)
  PROVE  /\ n \in Seq(S) /\ Len(n) \in Nat /\ Len(j) = Len(n) + 1
         /\ \A i \in 1..Len(n) : n[i] = j[i + 1]
<1>1. Len(j) \in Nat /\ 1 \in 1..Len(j) /\ j # <<>>
  OBVIOUS
<1>2. SubSeq(j, 1, 1 - 1) = <<>>
  BY SubSeqEmpty
<1>3. SubSeq(j, 1 + 1, Len(j)) = Tail(j)
  <2>1. 1 + 1 = 2
    OBVIOUS
  <2> QED
    BY <1>1, <2>1, TailIsSubSeq
<1>4. PICK u : u = Tail(j)
  OBVIOUS
<1>5. /\ u \in Seq(S) /\ Len(u) = Len(j) - 1
      /\ \A i \in 1..Len(u) : u[i] = j[i + 1]
  BY <1>1, <1>4, HeadTailProperties
<1>6. Without(j, 1) = <<>> \o u
  BY <1>2, <1>3, <1>4 DEF Without
<1>7. n = u
  BY <1>5, <1>6, ConcatEmptySeq
<1>8. Len(u) \in Nat
  BY <1>5
<1> QED
  BY <1>1, <1>5, <1>7, <1>8

-----------------------------------------------------------------------------
(* What is left, and who says what, in any step.                           *)

LEMMA StatementLists ==
  ASSUME PostsInv, ListsInv, NEW s \in Servers, NEW k \in Slots, Statement(s, k)
  PROVE  ListsInv'
<1> PICK h : h = Head(Left(s, k))
  OBVIOUS
<1>1. Left(s, k) # <<>> /\ Frame(s, k) /\ Outcome(s, k, h)
  BY StatementDoes
<1>2. Left(s, k) \in ListsAt(s, k)
  BY DEF ListsInv, LeftOK
<1>3. LeftOK'
  <2>1. Left(s, k)' \in ListsAt(s, k)
    <3>1. MayLeave(s, k, h, Left(s, k)')
      BY <1>1 DEF Outcome, May
    <3>2. Tail(Left(s, k)) \in ListsAt(s, k) /\ <<>> \in ListsAt(s, k) /\ (h = "EnqueueMentioned" => Deliver4 \in ListsAt(s, k))
      BY <1>1, <1>2, HeadsAt
    <3> QED
      BY <3>1, <3>2 DEF MayLeave
  <2>2. \A x \in Servers, l \in Slots : x # s \/ l # k => Left(x, l)' = Left(x, l)
    BY <1>1 DEF Frame, Left
  <2>3. \A x \in Servers, l \in Slots : Left(x, l)' \in ListsAt(x, l)
    BY <2>1, <2>2 DEF ListsInv, LeftOK
  <2> QED
    BY <2>3 DEF LeftOK, ListsAt, Left
<1>4. Author \in Servers /\ Reader \in Servers /\ Author # Reader
  BY ServersAre
<1>5. jobs'[Author] \in Seq(Tidings) /\ \A a \in wire'[Author] : a.type \in Tidings
  <2>1. jobs[Author] \in Seq(Tidings) /\ wire' = wire /\ \A a \in wire[Author] : a.type \in Tidings
    BY <1>1 DEF ListsInv, TalkOK, Frame
  <2>2. CASE s # Author
    BY <1>1, <1>4, <2>1, <2>2 DEF Frame
  <2>3. CASE s = Author
    <3>1. MayJobs(Author, h, jobs'[Author])
      BY <1>1, <2>3 DEF Outcome, May
    <3>2. CASE jobs'[Author] = jobs[Author]
      BY <2>1, <3>2
    <3>3. ASSUME NEW x \in JobTypes, jobs'[Author] = Append(jobs[Author], x), x \notin {"Like", "UndoLike"}
          PROVE  jobs'[Author] \in Seq(Tidings)
      <4>1. x \in Tidings
        BY <3>3 DEF Tidings
      <4> QED
        BY <2>1, <3>3, <4>1, Appended
    <3> QED
      BY <2>1, <3>1, <3>2, <3>3 DEF MayJobs
  <2> QED
    BY <2>2, <2>3
<1>6. \A x \in Servers : favourite'[x] # {} => post'[x] # NoPost
  <2>1. \A x \in Servers : favourite[x] # {} => post[x] # NoPost
    BY DEF ListsInv, TalkOK
  <2>2. favourite'[s] # {} => post'[s] # NoPost
    <3>1. MayPost(s, h, post'[s]) /\ MayFavourite(s, k, h, favourite'[s])
      BY <1>1 DEF Outcome, May
    <3> QED
      BY <2>1, <3>1 DEF MayPost, MayFavourite
  <2> QED
    BY <1>1, <2>1, <2>2 DEF Frame
<1>7. Author \notin favourite'[Reader] /\ Author \notin reblog'[Reader]
  <2>1. Author \notin favourite[Reader] /\ Author \notin reblog[Reader]
    BY DEF ListsInv, TalkOK
  <2>2. CASE s # Reader
    BY <1>1, <1>4, <2>1, <2>2 DEF Frame
  <2>3. CASE s = Reader
    <3>1. MayFavourite(Reader, k, h, favourite'[Reader]) /\ MayReblog(Reader, k, h, reblog'[Reader])
      BY <1>1, <2>3 DEF Outcome, May
    <3>2. CASE k # "inbox"
      <4>1. Actor(Reader, k) = Reader
        BY <3>2 DEF Actor
      <4> QED
        BY <1>4, <2>1, <3>1, <4>1 DEF MayFavourite, MayReblog
    <3>3. CASE k = "inbox"
      <4>1. h \notin {"CreateFavourite", "DeleteFavourite", "CreateReblog", "DeleteReblog"}
        BY <1>1, <1>2, <2>3, <3>3, HeadsAt
      <4> QED
        BY <2>1, <3>1, <4>1 DEF MayFavourite, MayReblog
    <3> QED
      BY <3>2, <3>3
  <2> QED
    BY <2>2, <2>3
<1> QED
  BY <1>3, <1>5, <1>6, <1>7 DEF ListsInv, TalkOK

\* Steps other than statements: what they do.
LEMMA CallDoes ==
  ASSUME PostsInv, NEW s \in Servers, NEW op \in Ops, Call(s, op)
  PROVE  /\ op \in DOMAIN Methods /\ (s = Author \/ op \in Interactions)
         /\ IF op = "posts_create" THEN ~created ELSE post[s] # NoPost
         /\ Left(s, "api") = <<>> /\ Left(s, "api")' = Methods[op]
         /\ op = "posts_create" => ~run'[s]["api"].new.mentions /\ run'[s]["api"].new.text = 0
         /\ \A x \in Servers, l \in Slots : x # s \/ l # "api" => run'[x][l] = run[x][l]
         /\ UNCHANGED <<post, favourite, reblog, notice, jobs, wire, created, refused, smooth>>
<1> "api" \in Slots
  BY ServersAre
<1>1. PICK vis \in {"public", "followers"} :
        run' = [run EXCEPT ![s]["api"] =
                  Request(op, Methods[op],
                          CASE op = "posts_create" -> [vis |-> vis, text |-> 0, mentions |-> FALSE]
                            [] op = "posts_update" -> [vis |-> vis, text |-> post[s].text + 1, mentions |-> FALSE]
                            [] OTHER -> NoPost)]
  BY DEF Call
<1> PICK new : new = CASE op = "posts_create" -> [vis |-> vis, text |-> 0, mentions |-> FALSE]
                       [] op = "posts_update" -> [vis |-> vis, text |-> post[s].text + 1, mentions |-> FALSE]
                       [] OTHER -> NoPost
  OBVIOUS
<1> PICK n : n = Request(op, Methods[op], new)
  OBVIOUS
<1>2. RunBecomes(s, "api", n)
  BY <1>1 DEF RunBecomes
<1>3. run'[s]["api"] = n /\ \A x \in Servers, l \in Slots : x # s \/ l # "api" => run'[x][l] = run[x][l]
  BY <1>2, RunMoves
<1>4. n.todo = Methods[op] /\ n.new = new
  BY RequestIs
<1>5. op = "posts_create" => ~new.mentions /\ new.text = 0
  OBVIOUS
<1>6. /\ run[s]["api"] = Idle /\ (s = Author \/ op \in Interactions)
      /\ IF op = "posts_create" THEN ~created ELSE post[s] # NoPost
      /\ UNCHANGED <<rows, jobs, wire, created, refused, smooth>>
  BY DEF Call
<1>7. run'[s]["api"].todo = Methods[op] /\ run'[s]["api"].new = new
  BY <1>3, <1>4
<1> QED
  BY <1>3, <1>5, <1>6, <1>7, IdleOK, OpsAreMethods DEF Left, rows

LEMMA BeginDoes ==
  ASSUME PostsInv, NEW s \in Servers, NEW i \in DOMAIN jobs[s], BeginDeliverPost(s, i)
  PROVE  /\ s = Author /\ jobs[s][i] = "deliver_post"
         /\ Left(s, "worker") = <<>> /\ Left(s, "worker")' = DeliverPost
         /\ \A x \in Servers, l \in Slots : x # s \/ l # "worker" => run'[x][l] = run[x][l]
         /\ jobs'[s] = Without(jobs[s], i) /\ \A x \in Servers : x # s => jobs'[x] = jobs[x]
         /\ smooth' => smooth /\ i = 1 /\ wire[s] = {}
         /\ UNCHANGED <<post, favourite, reblog, notice, wire, created, refused>>
<1> "worker" \in Slots
  BY ServersAre
<1> PICK n : n = Request("deliver_post", DeliverPost, NoPost)
  OBVIOUS
<1> PICK js : js = Without(jobs[s], i)
  OBVIOUS
<1>1. /\ RunBecomes(s, "worker", n) /\ jobs' = [jobs EXCEPT ![s] = js]
      /\ jobs[s][i] = "deliver_post" /\ run[s]["worker"] = Idle
      /\ UNCHANGED <<rows, wire, ops, created, refused>>
  BY DEF BeginDeliverPost, RunBecomes
<1>2. smooth' => smooth /\ i = 1 /\ wire[s] = {}
  BY DEF BeginDeliverPost, InOrder
<1>3. run'[s]["worker"] = n /\ \A x \in Servers, l \in Slots : x # s \/ l # "worker" => run'[x][l] = run[x][l]
  BY <1>1, RunMoves
<1>4. n.todo = DeliverPost
  BY RequestIs
<1>5. jobs'[s] = js /\ \A x \in Servers : x # s => jobs'[x] = jobs[x]
  BY <1>1, RowsAre
<1>6. s = Author
  BY <1>1, JobsAre
<1> QED
  BY <1>1, <1>2, <1>3, <1>4, <1>5, <1>6, IdleOK DEF Left, rows

\* What a job says when it is executed.
Said(s, type) ==
  [type |-> type, text |-> IF type \in {"Create", "Update"} THEN post[s].text ELSE 0,
   mentions |-> type = "Create" /\ post[s].mentions]

LEMMA SaidIs ==
  ASSUME PostsInv, NEW s \in Servers, NEW type, NEW a, a = Said(s, type)
  PROVE  /\ a.type = type /\ (type \in {"Create", "Update"} => a.text = post[s].text)
         /\ type = "Create" => a.mentions = post[s].mentions
<1>1. post[s].mentions \in BOOLEAN
  BY ColumnsOf DEF PostsInv, RowsOK
<1> QED
  BY <1>1 DEF Said

LEMMA SendDoes ==
  ASSUME PostsInv, NEW s \in Servers, NEW i \in DOMAIN jobs[s], Send(s, i)
  PROVE  /\ jobs[s][i] # "deliver_post" /\ (jobs[s][i] \in {"Create", "Update"} => post[s] # NoPost)
         /\ jobs'[s] = Without(jobs[s], i) /\ \A x \in Servers : x # s => jobs'[x] = jobs[x] /\ wire'[x] = wire[x]
         /\ wire'[s] = wire[s] \cup {Said(s, jobs[s][i])}
         /\ smooth' => smooth /\ i = 1 /\ wire[s] = {} /\ Left(s, "worker") = <<>>
         /\ UNCHANGED <<post, favourite, reblog, notice, run, created, refused>>
<1> PICK type : type = jobs[s][i]
  OBVIOUS
<1> PICK js : js = Without(jobs[s], i)
  OBVIOUS
<1> PICK ws : ws = wire[s] \cup {Said(s, type)}
  OBVIOUS
<1>1. /\ type # "deliver_post" /\ (type \in {"Create", "Update"} => post[s] # NoPost)
      /\ jobs' = [jobs EXCEPT ![s] = js] /\ UNCHANGED <<rows, run, ops, created, refused>>
  BY DEF Send
<1>2. wire' = [wire EXCEPT ![s] = ws]
  BY DEF Send, Said
<1>3. smooth' => smooth /\ i = 1 /\ wire[s] = {} /\ run[s]["worker"] = Idle
  BY DEF Send, InOrder
<1>4. jobs'[s] = js /\ \A x \in Servers : x # s => jobs'[x] = jobs[x]
  BY <1>1, RowsAre
<1>5. wire'[s] = ws /\ \A x \in Servers : x # s => wire'[x] = wire[x]
  BY <1>2, RowsAre
<1> QED
  BY <1>1, <1>3, <1>4, <1>5, IdleOK DEF Left, rows

LEMMA GiveUpDoes ==
  ASSUME PostsInv, NEW s \in Servers, NEW i \in DOMAIN jobs[s], GiveUp(s, i)
  PROVE  /\ jobs'[s] = Without(jobs[s], i) /\ \A x \in Servers : x # s => jobs'[x] = jobs[x]
         /\ smooth' => smooth /\ s = Author /\ jobs[s][i] \in {"deliver_post", "Create", "Update"} /\ post[s] = NoPost
         /\ UNCHANGED <<post, favourite, reblog, notice, run, wire, created, refused>>
<1> PICK js : js = Without(jobs[s], i)
  OBVIOUS
<1>1. jobs' = [jobs EXCEPT ![s] = js] /\ UNCHANGED <<rows, run, wire, ops, created, refused>>
  BY DEF GiveUp
<1>2. smooth' => smooth /\ jobs[s][i] \in {"deliver_post", "Create", "Update"} /\ post[s] = NoPost
  BY DEF GiveUp
<1>3. jobs'[s] = js /\ \A x \in Servers : x # s => jobs'[x] = jobs[x]
  BY <1>1, RowsAre
<1>4. jobs[s][i] \in {"deliver_post", "Create", "Update"} => s = Author
  BY JobsAre DEF Jobs, Answers
<1> QED
  BY <1>1, <1>2, <1>3, <1>4 DEF rows

LEMMA ReceiveDoes ==
  ASSUME PostsInv, NEW s \in Servers, NEW a \in wire[s], Receive(s, a), NEW t, t = Other(s)
  PROVE  /\ t \in Servers /\ t # s /\ a.type \in Jobs(s) \cap Activities
         /\ Left(t, "inbox") = <<>> /\ Left(t, "inbox")' = Inbox(t)[a.type]
         /\ Left(t, "inbox")' # <<>> /\ a.type \in {"Create", "Update"} =>
              run'[t]["inbox"].new.text = a.text /\ run'[t]["inbox"].new.mentions = a.mentions
         /\ \A x \in Servers, l \in Slots : x # t \/ l # "inbox" => run'[x][l] = run[x][l]
         /\ wire'[s] = wire[s] \ {a} /\ jobs'[s] \in {jobs[s], <<a.type>> \o jobs[s]}
         /\ wire'[t] = wire[t] /\ jobs'[t] = jobs[t]
         /\ UNCHANGED <<post, favourite, reblog, notice, created, refused, smooth>>
<1> "inbox" \in Slots
  BY ServersAre
<1>1. t \in Servers /\ t # s
  BY ServersAre DEF Other
<1>2. a.type \in Jobs(s) /\ a.type \in Activities
  BY DEF PostsInv, QueuesOK, Activity
<1> PICK todo : todo = Inbox(t)[a.type]
  OBVIOUS
<1> PICK new : new = IF a.type \in {"Create", "Update"} THEN [vis |-> "public", text |-> a.text, mentions |-> a.mentions] ELSE NoPost
  OBVIOUS
<1> PICK r : r = Request(a.type, todo, new)
  OBVIOUS
<1> PICK n : n = IF todo = <<>> THEN Idle ELSE r
  OBVIOUS
<1> PICK ws : ws = wire[s] \ {a}
  OBVIOUS
<1> PICK js : js = <<a.type>> \o jobs[s]
  OBVIOUS
<1>3. run[t]["inbox"] = Idle /\ wire' = [wire EXCEPT ![s] = ws]
      /\ jobs' \in {jobs, [jobs EXCEPT ![s] = js]} /\ UNCHANGED <<rows, history>>
  BY DEF Receive
<1>4. RunBecomes(t, "inbox", n)
  BY DEF Receive, RunBecomes
<1>5. run'[t]["inbox"] = n /\ \A x \in Servers, l \in Slots : x # t \/ l # "inbox" => run'[x][l] = run[x][l]
  BY <1>1, <1>4, RunMoves
<1>6. r.todo = todo /\ r.new = new
  BY RequestIs
<1>7. a.type \in {"Create", "Update"} => new.text = a.text /\ new.mentions = a.mentions
  OBVIOUS
<1>8. n.todo = todo /\ (todo # <<>> => n.new = new)
  BY <1>6, IdleOK
<1>9. wire'[s] = ws /\ wire'[t] = wire[t]
  BY <1>1, <1>3, RowsAre
<1>10. jobs'[s] \in {jobs[s], js} /\ jobs'[t] = jobs[t]
  <2>1. CASE jobs' = jobs
    BY <2>1
  <2>2. CASE jobs' = [jobs EXCEPT ![s] = js]
    BY <1>1, <2>2, RowsAre
  <2> QED
    BY <1>3, <2>1, <2>2
<1>11. run'[t]["inbox"].todo = todo /\ (todo # <<>> => run'[t]["inbox"].new = new)
  BY <1>5, <1>8
<1> QED
  BY <1>1, <1>2, <1>3, <1>5, <1>7, <1>9, <1>10, <1>11, IdleOK DEF Left, rows, history

\* A step that starts a request or none, and leaves the rows.
LEMMA RequestLists ==
  ASSUME PostsInv, ListsInv, UNCHANGED <<post, favourite, reblog>>,
         NEW s \in Servers, NEW k \in Slots, Left(s, k)' \in ListsAt(s, k),
         \A x \in Servers, l \in Slots : x # s \/ l # k => run'[x][l] = run[x][l],
         jobs'[Author] \in Seq(Tidings), \A a \in wire'[Author] : a.type \in Tidings
  PROVE  ListsInv'
<1>1. \A x \in Servers, l \in Slots : Left(x, l)' \in ListsAt(x, l)
  BY DEF ListsInv, LeftOK, Left
<1>2. LeftOK'
  BY <1>1 DEF LeftOK, ListsAt, Left
<1> QED
  BY <1>2 DEF ListsInv, TalkOK

LEMMA MethodLists ==
  ASSUME NEW op \in DOMAIN Methods
  PROVE  /\ Methods[op] \in InteractionLists \cup PostLists
         /\ op \in Interactions => Methods[op] \in InteractionLists
<1>1. /\ Methods["posts_create"] = PostsCreate /\ Methods["posts_update"] = PostsUpdate
      /\ Methods["posts_delete"] = PostsDelete /\ Methods["posts_pin"] = PostsPin
      /\ Methods["posts_unpin"] = PostsUnpin /\ Methods["favourites_create"] = FavouritesCreate
      /\ Methods["favourites_delete"] = FavouritesDelete /\ Methods["reblogs_create"] = ReblogsCreate
      /\ Methods["reblogs_delete"] = ReblogsDelete
  BY DEF Methods
<1>2. {PostsCreate, PostsUpdate, PostsDelete, PostsPin, PostsUnpin} \subseteq PostLists
  BY DEF PostLists
<1>3. {FavouritesCreate, FavouritesDelete, ReblogsCreate, ReblogsDelete} \subseteq InteractionLists
  BY DEF InteractionLists
<1>4. op \in {"posts_create", "posts_update", "posts_delete", "posts_pin", "posts_unpin"} \cup Interactions
  BY OpNames DEF Interactions, Methods
<1>5. op \in {"posts_create", "posts_update", "posts_delete", "posts_pin", "posts_unpin"} => Methods[op] \in PostLists
  BY <1>1, <1>2
<1>6. op \in Interactions => Methods[op] \in InteractionLists
  BY <1>1, <1>3 DEF Interactions
<1> QED
  BY <1>4, <1>5, <1>6

\* What an activity of the author starts at the reader, and the other way round.
LEMMA InboxLists ==
  /\ Inbox(Author)["Like"] = InboxLike /\ Inbox(Author)["UndoLike"] = InboxUndoLike
  /\ Inbox(Author)["Announce"] = Boost1 /\ Inbox(Author)["UndoAnnounce"] = UndoBoost1
  /\ Inbox(Reader)["Announce"] = (IF post[Reader] # NoPost THEN Repeat1 ELSE Fetch1)
  /\ Inbox(Reader)["UndoAnnounce"] = <<>> /\ Inbox(Reader)["Create"] = InboxCreate
  /\ Inbox(Reader)["Update"] = InboxUpdate /\ Inbox(Reader)["Delete"] = InboxDelete
<1>1. Author # Reader
  BY ServersDiffer
<1>2. InboxAnnounce(Author) = Boost1
  BY <1>1 DEF InboxAnnounce, Boost1
<1>3. InboxUndoAnnounce(Author) = UndoBoost1 /\ InboxUndoAnnounce(Reader) = <<>>
  BY <1>1 DEF InboxUndoAnnounce, UndoBoost1
<1>4. InboxAnnounce(Reader) = IF post[Reader] # NoPost THEN Repeat1 ELSE Fetch1
  <2>1. CASE post[Reader] # NoPost
    BY <1>1, <2>1 DEF InboxAnnounce, Repeat1
  <2>2. CASE post[Reader] = NoPost
    BY <1>1, <2>2 DEF InboxAnnounce, Fetch1
  <2> QED
    BY <2>1, <2>2
<1> QED
  BY <1>2, <1>3, <1>4 DEF Inbox

LEMMA TidingsAre ==
  /\ Tidings = {"Announce", "UndoAnnounce", "Create", "Update", "Delete", "deliver_post"}
  /\ Activities = {"Like", "UndoLike", "Announce", "UndoAnnounce", "Create", "Update", "Delete"}
  /\ Answers = {"Like", "UndoLike", "Announce", "UndoAnnounce"} /\ Jobs(Reader) = Answers
<1>1. Reader # Author
  BY ServersDiffer
<1> QED
  BY <1>1 DEF Tidings, JobTypes, Activities, Answers, Jobs

LEMMA CallLists ==
  ASSUME PostsInv, ListsInv, NEW s \in Servers, NEW op \in Ops, Call(s, op)
  PROVE  ListsInv'
<1>1. op \in DOMAIN Methods /\ (s = Author \/ op \in Interactions) /\ Left(s, "api")' = Methods[op]
      /\ (\A x \in Servers, l \in Slots : x # s \/ l # "api" => run'[x][l] = run[x][l])
      /\ UNCHANGED <<post, favourite, reblog, jobs, wire>>
  BY CallDoes
<1>2. "api" \in Slots
  BY ServersAre
<1>3. Left(s, "api")' \in ListsAt(s, "api")
  BY <1>1, MethodLists DEF ListsAt
<1>4. jobs'[Author] \in Seq(Tidings) /\ \A a \in wire'[Author] : a.type \in Tidings
  BY <1>1 DEF ListsInv, TalkOK
<1> QED
  BY <1>1, <1>2, <1>3, <1>4, RequestLists

\* The jobs of the author are no favourites.
LEMMA JobsTaken ==
  ASSUME PostsInv, ListsInv, NEW s \in Servers, NEW i \in DOMAIN jobs[s],
         jobs'[s] = Without(jobs[s], i), \A x \in Servers : x # s => jobs'[x] = jobs[x]
  PROVE  jobs'[Author] \in Seq(Tidings) /\ (s = Author => jobs[s][i] \in Tidings)
<1>1. jobs[Author] \in Seq(Tidings)
  BY DEF ListsInv, TalkOK
<1>2. CASE s = Author
  <2>1. i \in DOMAIN jobs[Author]
    BY <1>2
  <2>2. Without(jobs[Author], i) \in Seq(Tidings)
    BY <1>1, <2>1, WithoutIs
  <2>3. jobs[Author][i] \in Tidings
    BY <1>1, <2>1
  <2> QED
    BY <1>2, <2>2, <2>3
<1>3. CASE s # Author
  BY <1>1, <1>3, ServersAre
<1> QED
  BY <1>2, <1>3

LEMMA BeginLists ==
  ASSUME PostsInv, ListsInv, NEW s \in Servers, NEW i \in DOMAIN jobs[s], BeginDeliverPost(s, i)
  PROVE  ListsInv'
<1>1. /\ s = Author /\ Left(s, "worker")' = DeliverPost
      /\ \A x \in Servers, l \in Slots : x # s \/ l # "worker" => run'[x][l] = run[x][l]
      /\ jobs'[s] = Without(jobs[s], i) /\ (\A x \in Servers : x # s => jobs'[x] = jobs[x])
      /\ UNCHANGED <<post, favourite, reblog, wire>>
  BY BeginDoes
<1>2. "worker" \in Slots
  BY ServersAre
<1>3. Left(s, "worker")' \in ListsAt(s, "worker")
  BY <1>1 DEF ListsAt, DeliverLists
<1>4. jobs'[Author] \in Seq(Tidings) /\ \A a \in wire'[Author] : a.type \in Tidings
  BY <1>1, JobsTaken DEF ListsInv, TalkOK
<1> QED
  BY <1>1, <1>2, <1>3, <1>4, RequestLists

\* Neither do steps of the workers that leave the requests.
LEMMA QueueLists ==
  ASSUME PostsInv, ListsInv, UNCHANGED <<post, favourite, reblog, run>>,
         jobs'[Author] \in Seq(Tidings), \A a \in wire'[Author] : a.type \in Tidings
  PROVE  ListsInv'
<1>1. Author \in Servers /\ "worker" \in Slots /\ Left(Author, "worker")' = Left(Author, "worker")
  BY ServersAre DEF Left
<1>2. Left(Author, "worker")' \in ListsAt(Author, "worker")
  BY <1>1 DEF ListsInv, LeftOK
<1> QED
  BY <1>1, <1>2, RequestLists

LEMMA SendLists ==
  ASSUME PostsInv, ListsInv, NEW s \in Servers, NEW i \in DOMAIN jobs[s], Send(s, i)
  PROVE  ListsInv'
<1> PICK a : a = Said(s, jobs[s][i])
  OBVIOUS
<1>1. /\ jobs'[s] = Without(jobs[s], i) /\ (\A x \in Servers : x # s => jobs'[x] = jobs[x] /\ wire'[x] = wire[x])
      /\ wire'[s] = wire[s] \cup {a} /\ UNCHANGED <<post, favourite, reblog, run>>
  BY SendDoes
<1>2. jobs'[Author] \in Seq(Tidings) /\ (s = Author => jobs[s][i] \in Tidings)
  BY <1>1, JobsTaken
<1>3. a.type = jobs[s][i]
  BY SaidIs
<1>4. \A b \in wire'[Author] : b.type \in Tidings
  <2>1. \A b \in wire[Author] : b.type \in Tidings
    BY DEF ListsInv, TalkOK
  <2> QED
    BY <1>1, <1>2, <1>3, <2>1, ServersAre
<1> QED
  BY <1>1, <1>2, <1>4, QueueLists

LEMMA GiveUpLists ==
  ASSUME PostsInv, ListsInv, NEW s \in Servers, NEW i \in DOMAIN jobs[s], GiveUp(s, i)
  PROVE  ListsInv'
<1>1. /\ jobs'[s] = Without(jobs[s], i) /\ (\A x \in Servers : x # s => jobs'[x] = jobs[x])
      /\ UNCHANGED <<post, favourite, reblog, run, wire>>
  BY GiveUpDoes
<1>2. jobs'[Author] \in Seq(Tidings) /\ \A b \in wire'[Author] : b.type \in Tidings
  BY <1>1, JobsTaken DEF ListsInv, TalkOK
<1> QED
  BY <1>1, <1>2, QueueLists

LEMMA ReceiveLists ==
  ASSUME PostsInv, ListsInv, NEW s \in Servers, NEW a \in wire[s], Receive(s, a)
  PROVE  ListsInv'
<1> PICK t : t = Other(s)
  OBVIOUS
<1>1. /\ t \in Servers /\ t # s /\ a.type \in Jobs(s) \cap Activities
      /\ Left(t, "inbox")' = Inbox(t)[a.type]
      /\ \A x \in Servers, l \in Slots : x # t \/ l # "inbox" => run'[x][l] = run[x][l]
      /\ wire'[s] = wire[s] \ {a} /\ jobs'[s] \in {jobs[s], <<a.type>> \o jobs[s]}
      /\ wire'[t] = wire[t] /\ jobs'[t] = jobs[t]
      /\ UNCHANGED <<post, favourite, reblog>>
  BY ReceiveDoes
<1>2. jobs[Author] \in Seq(Tidings) /\ \A b \in wire[Author] : b.type \in Tidings
  BY DEF ListsInv, TalkOK
<1>3. Author # Reader /\ s \in {Author, Reader} /\ t \in {Author, Reader} /\ "inbox" \in Slots
  BY <1>1, ServersAre
<1>4. Left(t, "inbox")' \in ListsAt(t, "inbox")
  <2>1. CASE t = Author
    <3>1. a.type \in {"Like", "UndoLike", "Announce", "UndoAnnounce"}
      BY <1>1, <1>3, <2>1, TidingsAre
    <3>2. Inbox(Author)[a.type] \in {InboxLike, InboxUndoLike, Boost1, UndoBoost1}
      BY <3>1, InboxLists
    <3> QED
      BY <1>1, <2>1, <3>2 DEF ListsAt, AnswerLists
  <2>2. CASE t = Reader
    <3>1. a.type \in {"Announce", "UndoAnnounce", "Create", "Update", "Delete"}
      BY <1>1, <1>2, <1>3, <2>2, TidingsAre
    <3>2. Inbox(Reader)[a.type] \in {Repeat1, Fetch1, <<>>, InboxCreate, InboxUpdate, InboxDelete}
      BY <3>1, InboxLists
    <3> QED
      BY <1>1, <1>3, <2>2, <3>2 DEF ListsAt, NoteLists
  <2> QED
    BY <1>3, <2>1, <2>2
<1>5. jobs'[Author] \in Seq(Tidings)
  <2>1. CASE s = Author
    <3>1. a.type \in Tidings
      BY <1>2, <2>1
    <3>2. <<a.type>> \o jobs[Author] \in Seq(Tidings)
      BY <1>2, <3>1, Prepended
    <3> QED
      BY <1>1, <1>2, <2>1, <3>2
  <2>2. CASE s # Author
    BY <1>1, <1>2, <1>3, <2>2
  <2> QED
    BY <2>1, <2>2
<1>6. \A b \in wire'[Author] : b.type \in Tidings
  BY <1>1, <1>2, <1>3
<1> QED
  BY <1>1, <1>3, <1>4, <1>5, <1>6, RequestLists

LEMMA InitIs ==
  ASSUME Init
  PROVE  /\ \A s \in Servers, k \in Slots : Left(s, k) = <<>>
         /\ \A s \in Servers : jobs[s] = <<>> /\ wire[s] = {}
         /\ \A s \in Servers : IF created THEN post[s] # NoPost /\ post[s].text = 0 ELSE post[s] = NoPost
         /\ \A s \in Servers : favourite[s] # {} => created
         /\ \A s \in Servers : Author \notin favourite[s]
         /\ Author \notin reblog[Reader]
         /\ Reader \in favourite[Reader] <=> Reader \in favourite[Author]
         /\ Reader \in reblog[Reader] <=> Reader \in reblog[Author]
         /\ created => "mention" \in notice[Reader]
<1>1. PICK past \in Past :
        /\ ~created => \A f \in DOMAIN past : ~past[f]
        /\ post = [s \in Servers |->
                     IF created THEN [vis |-> "public", text |-> 0, mentions |-> s = Author] ELSE NoPost]
        /\ favourite = [s \in Servers |-> {a \in {Reader} : past.liked}]
        /\ reblog = [s \in Servers |->
                       {a \in {Reader} : past.boosted} \cup {a \in {Author} : past.own /\ s = Author}]
        /\ notice = [s \in Servers |->
                       IF s = Reader THEN {n \in {"mention"} : created}
                       ELSE {n \in {"favourite"} : past.liked} \cup {n \in {"reblog"} : past.boosted}]
  BY DEF Init
<1>2. /\ run = [s \in Servers |-> [k \in Slots |-> Idle]]
      /\ jobs = [s \in Servers |-> <<>>] /\ wire = [s \in Servers |-> {}]
  BY DEF Init
<1>3. Author # Reader /\ Author \in Servers /\ Reader \in Servers
  BY ServersAre
<1>4. ~created => ~past.liked
  BY <1>1 DEF Past
<1>5. \A s \in Servers, k \in Slots : Left(s, k) = <<>>
  BY <1>2, IdleOK DEF Left
<1>6. ASSUME NEW s \in Servers
      PROVE  IF created THEN post[s] # NoPost /\ post[s].text = 0 ELSE post[s] = NoPost
  <2>1. post[s] = IF created THEN [vis |-> "public", text |-> 0, mentions |-> s = Author] ELSE NoPost
    BY <1>1
  <2>2. CASE created
    <3>1. post[s] = [vis |-> "public", text |-> 0, mentions |-> s = Author]
      BY <2>1, <2>2
    <3>2. post[s].vis = "public" /\ post[s].text = 0
      BY <3>1
    <3> QED
      BY <2>2, <3>2, NoRow
  <2> QED
    BY <2>1, <2>2
<1>7. \A s \in Servers : favourite[s] = {a \in {Reader} : past.liked}
  BY <1>1
<1>8. /\ reblog[Reader] = {a \in {Reader} : past.boosted} \cup {a \in {Author} : past.own /\ Reader = Author}
      /\ reblog[Author] = {a \in {Reader} : past.boosted} \cup {a \in {Author} : past.own /\ Author = Author}
      /\ notice[Reader] = {n \in {"mention"} : created}
  BY <1>1, <1>3
<1> QED
  BY <1>2, <1>3, <1>4, <1>5, <1>6, <1>7, <1>8

LEMMA InitLists == Init => ListsInv
<1> SUFFICES ASSUME Init PROVE ListsInv
  OBVIOUS
<1>1. \A s \in Servers, k \in Slots : <<>> \in ListsAt(s, k)
  BY DEF ListsAt, Slots, InteractionLists, AnswerLists, NoteLists, DeliverLists
<1>2. LeftOK
  BY <1>1, InitIs DEF LeftOK
<1>3. Author \in Servers /\ Reader \in Servers /\ <<>> \in Seq(Tidings)
  BY ServersAre
<1> QED
  BY <1>2, <1>3, InitIs DEF ListsInv, TalkOK

\* What may be left where, and who says what.
LEMMA ListsInvariant == Spec => []ListsInv
<1>1. ListsInv /\ PostsInv /\ [Next]_vars => ListsInv'
  <2> SUFFICES ASSUME ListsInv, PostsInv, [Next]_vars PROVE ListsInv'
    OBVIOUS
  <2>1. CASE UNCHANGED vars
    BY <2>1 DEF vars, rows, ListsInv, LeftOK, TalkOK, ListsAt, Left
  <2> QED
    BY <2>1, StatementLists, CallLists, BeginLists, SendLists, GiveUpLists, ReceiveLists DEF Next
<1> QED
  BY <1>1, InitLists, PostsInvariant, PTL DEF Spec

-----------------------------------------------------------------------------
(* What the reader says to the author, of favourites or of reblogs: c.on or *)
(* c.off.  c.said and c.unsaid are what is left of API requests of the      *)
(* reader that have written the row and not yet enqueued the word; c.taken  *)
(* and c.withdrawn what is left of inbox requests that are to write it.     *)

LastIs(j, x, X) == \E i \in 1..Len(j) : j[i] = x /\ \A m \in 1..Len(j) : m > i => j[m] \notin X

Silent(j, X) == \A i \in 1..Len(j) : j[i] \notin X

Tells(W, x) == \E a \in W : a.type = x

\* The activities W are there, and all of type x.
Only(W, x) == W # {} /\ \A a \in W : a.type = x

Conversation(c) == c.on # c.off /\ c.said \cap c.unsaid = {} /\ c.taken \cap c.withdrawn = {}

\* The last word on its way is on, of the jobs j, the activities W, the inbox i
\* of the author; when there is none the row R has the reader.
Ends(c, j, W, i, R) ==
  \/ LastIs(j, c.on, {c.on, c.off})
  \/ /\ Silent(j, {c.on, c.off})
     /\ \/ Tells(W, c.on)
        \/ /\ ~Tells(W, c.on) /\ ~Tells(W, c.off)
           /\ \/ i \in c.taken
              \/ i \notin c.taken \cup c.withdrawn /\ Reader \in R

\* And it is what the row H of the reader says, or a request t is about to say it.
Agrees(c, t, H, j, W, i, R) ==
  /\ t \in c.said => Reader \in H
  /\ t \in c.unsaid => Reader \notin H
  /\ t \notin c.said \cup c.unsaid => (Reader \in H <=> Ends(c, j, W, i, R))

\* n is j with x before it.
Longer(n, x, j) ==
  /\ Len(j) \in Nat /\ Len(n) = Len(j) + 1 /\ n[1] = x
  /\ \A i \in 1..Len(j) : n[i + 1] = j[i]

LEMMA LastAppended ==
  ASSUME NEW S, NEW j \in Seq(S), NEW x \in S, NEW X, NEW y \in X
  PROVE  /\ LastIs(Append(j, x), y, X) <=> (x = y \/ (x \notin X /\ LastIs(j, y, X)))
         /\ Silent(Append(j, x), X) <=> (x \notin X /\ Silent(j, X))
<1> PICK n : n = Append(j, x)
  OBVIOUS
<1>1. /\ Len(j) \in Nat /\ Len(n) = Len(j) + 1 /\ n[Len(n)] = x
      /\ \A i \in 1..Len(j) : n[i] = j[i]
  BY Appended
<1>2. \A i : i \in 1..Len(n) <=> i \in 1..Len(j) \/ i = Len(n)
  BY <1>1
<1>3. Silent(n, X) <=> (x \notin X /\ Silent(j, X))
  BY <1>1, <1>2 DEF Silent
<1>4. ASSUME x = y PROVE LastIs(n, y, X)
  <2>1. Len(n) \in 1..Len(n) /\ n[Len(n)] = y /\ \A m \in 1..Len(n) : ~(m > Len(n))
    BY <1>1, <1>4
  <2> QED
    BY <2>1 DEF LastIs
<1>5. ASSUME x \notin X, LastIs(j, y, X) PROVE LastIs(n, y, X)
  <2>1. PICK i \in 1..Len(j) : j[i] = y /\ \A m \in 1..Len(j) : m > i => j[m] \notin X
    BY <1>5 DEF LastIs
  <2>2. i \in 1..Len(n) /\ n[i] = y /\ \A m \in 1..Len(n) : m > i => n[m] \notin X
    BY <1>1, <1>2, <1>5, <2>1
  <2> QED
    BY <2>2 DEF LastIs
<1>6. ASSUME LastIs(n, y, X), x # y PROVE x \notin X /\ LastIs(j, y, X)
  <2>1. PICK i \in 1..Len(n) : n[i] = y /\ \A m \in 1..Len(n) : m > i => n[m] \notin X
    BY <1>6 DEF LastIs
  <2>2. i \in 1..Len(j) /\ Len(n) > i /\ Len(n) \in 1..Len(n)
    BY <1>1, <1>2, <1>6, <2>1
  <2>3. x \notin X
    BY <1>1, <2>1, <2>2
  <2>4. j[i] = y /\ \A m \in 1..Len(j) : m > i => j[m] \notin X
    BY <1>1, <1>2, <2>1, <2>2
  <2> QED
    BY <2>2, <2>3, <2>4 DEF LastIs
<1> QED
  BY <1>3, <1>4, <1>5, <1>6

LEMMA LastLonger ==
  ASSUME NEW n, NEW j, NEW x, Longer(n, x, j), NEW X, NEW y \in X
  PROVE  /\ LastIs(n, y, X) <=> (LastIs(j, y, X) \/ (x = y /\ Silent(j, X)))
         /\ Silent(n, X) <=> (x \notin X /\ Silent(j, X))
<1>1. /\ Len(j) \in Nat /\ Len(n) = Len(j) + 1 /\ n[1] = x
      /\ \A i \in 1..Len(j) : n[i + 1] = j[i] /\ i + 1 \in 1..Len(n)
  BY DEF Longer
<1>2. \A m \in 1..Len(n) : m = 1 \/ (m - 1 \in 1..Len(j) /\ n[m] = j[m - 1])
  <2> SUFFICES ASSUME NEW m \in 1..Len(n), m # 1 PROVE m - 1 \in 1..Len(j) /\ n[m] = j[m - 1]
    OBVIOUS
  <2>1. m - 1 \in 1..Len(j) /\ (m - 1) + 1 = m
    BY <1>1
  <2> QED
    BY <1>1, <2>1
<1>3. 1 \in 1..Len(n)
  BY <1>1
<1>4. Silent(n, X) <=> (x \notin X /\ Silent(j, X))
  BY <1>1, <1>2, <1>3 DEF Silent
<1>5. ASSUME LastIs(j, y, X) PROVE LastIs(n, y, X)
  <2>1. PICK i \in 1..Len(j) : j[i] = y /\ \A m \in 1..Len(j) : m > i => j[m] \notin X
    BY <1>5 DEF LastIs
  <2>2. i + 1 \in 1..Len(n) /\ n[i + 1] = y
    BY <1>1, <2>1
  <2>3. ASSUME NEW m \in 1..Len(n), m > i + 1 PROVE n[m] \notin X
    <3>1. m - 1 \in 1..Len(j) /\ n[m] = j[m - 1] /\ m - 1 > i
      BY <1>2, <2>3
    <3> QED
      BY <2>1, <3>1
  <2> QED
    BY <2>2, <2>3 DEF LastIs
<1>6. ASSUME x = y, Silent(j, X) PROVE LastIs(n, y, X)
  <2>1. \A m \in 1..Len(n) : m > 1 => n[m] \notin X
    BY <1>2, <1>6 DEF Silent
  <2> QED
    BY <1>1, <1>3, <1>6, <2>1 DEF LastIs
<1>7. ASSUME LastIs(n, y, X) PROVE LastIs(j, y, X) \/ (x = y /\ Silent(j, X))
  <2>1. PICK i \in 1..Len(n) : n[i] = y /\ \A m \in 1..Len(n) : m > i => n[m] \notin X
    BY <1>7 DEF LastIs
  <2>2. CASE i = 1
    <3>1. \A m \in 1..Len(j) : j[m] \notin X
      <4> SUFFICES ASSUME NEW m \in 1..Len(j) PROVE j[m] \notin X
        OBVIOUS
      <4>1. m + 1 \in 1..Len(n) /\ n[m + 1] = j[m] /\ m + 1 > 1
        BY <1>1
      <4> QED
        BY <2>1, <2>2, <4>1
    <3> QED
      BY <1>1, <2>1, <2>2, <3>1 DEF Silent
  <2>3. CASE i # 1
    <3>1. i - 1 \in 1..Len(j) /\ j[i - 1] = y
      BY <1>2, <2>1, <2>3
    <3>2. ASSUME NEW m \in 1..Len(j), m > i - 1 PROVE j[m] \notin X
      <4>1. m + 1 \in 1..Len(n) /\ n[m + 1] = j[m] /\ m + 1 > i
        BY <1>1, <3>2
      <4> QED
        BY <2>1, <4>1
    <3> QED
      BY <3>1, <3>2 DEF LastIs
  <2> QED
    BY <2>2, <2>3
<1> QED
  BY <1>4, <1>5, <1>6, <1>7

LEMMA SilentIsNotLast ==
  ASSUME NEW j, NEW X, NEW y \in X, Silent(j, X)
  PROVE  ~LastIs(j, y, X)
BY DEF Silent, LastIs

\* A request of the reader says its word.
LEMMA EndsAppended ==
  ASSUME NEW c, Conversation(c), NEW S, NEW j \in Seq(S), NEW x \in S, NEW W, NEW i, NEW R
  PROVE  /\ x = c.on => Ends(c, Append(j, x), W, i, R)
         /\ x = c.off => ~Ends(c, Append(j, x), W, i, R)
         /\ x \notin {c.on, c.off} => (Ends(c, Append(j, x), W, i, R) <=> Ends(c, j, W, i, R))
<1> PICK n : n = Append(j, x)
  OBVIOUS
<1> PICK X : X = {c.on, c.off}
  OBVIOUS
<1>1. /\ LastIs(n, c.on, X) <=> (x = c.on \/ (x \notin X /\ LastIs(j, c.on, X)))
      /\ Silent(n, X) <=> (x \notin X /\ Silent(j, X))
  BY LastAppended
<1> QED
  BY <1>1, SMTT(20) DEF Ends, Conversation

\* The first job is executed, or the one activity arrives.
LEMMA EndsLonger ==
  ASSUME NEW c, Conversation(c), NEW n, NEW j, NEW x, Longer(n, x, j), NEW W, NEW i, NEW R,
         Only(W, x)
  PROVE  Ends(c, n, {}, i, R) <=> Ends(c, j, W, i, R)
<1> PICK X : X = {c.on, c.off}
  OBVIOUS
<1>1. /\ LastIs(n, c.on, X) <=> (LastIs(j, c.on, X) \/ (x = c.on /\ Silent(j, X)))
      /\ Silent(n, X) <=> (x \notin X /\ Silent(j, X))
  BY LastLonger
<1>2. \A y : ~Tells({}, y) /\ (Tells(W, y) <=> x = y)
  BY DEF Tells, Only
<1>3. Silent(j, X) => ~LastIs(j, c.on, X)
  BY SilentIsNotLast
<1> QED
  BY <1>1, <1>2, <1>3 DEF Ends, Conversation

LEMMA EndsArrived ==
  ASSUME NEW c, Conversation(c), NEW j, NEW W, NEW x, Only(W, x), NEW R,
         NEW i, i \notin c.taken \cup c.withdrawn, NEW t,
         x = c.on => t \in c.taken, x = c.off => t \in c.withdrawn,
         x \notin {c.on, c.off} => t \notin c.taken \cup c.withdrawn
  PROVE  Ends(c, j, {}, t, R) <=> Ends(c, j, W, i, R)
<1>1. \A y : ~Tells({}, y) /\ (Tells(W, y) <=> x = y)
  BY DEF Tells, Only
<1> QED
  BY <1>1 DEF Ends, Conversation

\* It arrives, and its answer is lost.
LEMMA EndsArrivedTwice ==
  ASSUME NEW c, Conversation(c), NEW n, NEW j, NEW x, Longer(n, x, j), NEW W, Only(W, x), NEW R,
         NEW i, i \notin c.taken \cup c.withdrawn, NEW t,
         x \notin {c.on, c.off} => t \notin c.taken \cup c.withdrawn
  PROVE  Ends(c, n, {}, t, R) <=> Ends(c, j, W, i, R)
<1> PICK X : X = {c.on, c.off}
  OBVIOUS
<1>1. /\ LastIs(n, c.on, X) <=> (LastIs(j, c.on, X) \/ (x = c.on /\ Silent(j, X)))
      /\ Silent(n, X) <=> (x \notin X /\ Silent(j, X))
  BY LastLonger
<1>2. \A y : ~Tells({}, y) /\ (Tells(W, y) <=> x = y)
  BY DEF Tells, Only
<1>3. Silent(j, X) => ~LastIs(j, c.on, X)
  BY SilentIsNotLast
<1> QED
  BY <1>1, <1>2, <1>3 DEF Ends, Conversation

Likes ==
  [on |-> "Like", off |-> "UndoLike", said |-> {Liking3}, unsaid |-> {Unliking3},
   taken |-> {InboxLike, Like2}, withdrawn |-> {InboxUndoLike, UndoLike2}]

Boosts ==
  [on |-> "Announce", off |-> "UndoAnnounce",
   said |-> {Boosting3, Boosting4, Boosting5}, unsaid |-> {Unboosting3, Unboosting4, Unboosting5},
   taken |-> {Boost1, Boost2}, withdrawn |-> {UndoBoost1, UndoBoost2}]

\* Deliveries in order have one activity under way from each server.
Single == smooth => \A s \in Servers : \A a, b \in wire[s] : a = b

LikesAgree ==
  Agrees(Likes, Left(Reader, "api"), favourite[Reader], jobs[Reader], wire[Reader],
         Left(Author, "inbox"), favourite[Author])

BoostsAgree ==
  Agrees(Boosts, Left(Reader, "api"), reblog[Reader], jobs[Reader], wire[Reader],
         Left(Author, "inbox"), reblog[Author])

\* The two rows of the reader, and what the author has of them.
TalkInv == smooth /\ post[Author] # NoPost => LikesAgree /\ BoostsAgree

\* A request of the reader goes from t to u, with the row H to G and the jobs j
\* to n.
Speaks(c, t, u, H, G, j, n) ==
  \/ /\ t \notin c.said \cup c.unsaid /\ u \notin c.said \cup c.unsaid /\ (Reader \in G <=> Reader \in H)
     /\ n = j \/ \E x \in Answers : x \notin {c.on, c.off} /\ n = Append(j, x)
  \/ t \notin c.said \cup c.unsaid /\ u \in c.said /\ Reader \in G /\ n = j
  \/ t \notin c.said \cup c.unsaid /\ u \in c.unsaid /\ Reader \notin G /\ n = j
  \/ t \in c.said /\ u \in c.said /\ G = H /\ n = j
  \/ t \in c.unsaid /\ u \in c.unsaid /\ G = H /\ n = j
  \/ t \in c.said /\ u \notin c.said \cup c.unsaid /\ G = H /\ n = Append(j, c.on)
  \/ t \in c.unsaid /\ u \notin c.said \cup c.unsaid /\ G = H /\ n = Append(j, c.off)

LEMMA AgreesSpeaks ==
  ASSUME NEW c, Conversation(c), c.on \in Answers, c.off \in Answers,
         NEW t, NEW u, NEW H, NEW G, NEW j \in Seq(Answers), NEW n, Speaks(c, t, u, H, G, j, n),
         NEW W, NEW i, NEW R, Agrees(c, t, H, j, W, i, R)
  PROVE  Agrees(c, u, G, n, W, i, R)
<1>1. CASE /\ t \notin c.said \cup c.unsaid /\ u \notin c.said \cup c.unsaid /\ (Reader \in G <=> Reader \in H)
           /\ n = j \/ \E x \in Answers : x \notin {c.on, c.off} /\ n = Append(j, x)
  <2>1. Ends(c, n, W, i, R) <=> Ends(c, j, W, i, R)
    <3>1. ASSUME NEW x \in Answers, x \notin {c.on, c.off}, n = Append(j, x)
          PROVE  Ends(c, n, W, i, R) <=> Ends(c, j, W, i, R)
      <4>1. Ends(c, Append(j, x), W, i, R) <=> Ends(c, j, W, i, R)
        BY <3>1, EndsAppended
      <4> QED
        BY <3>1, <4>1
    <3> QED
      BY <1>1, <3>1
  <2> QED
    BY <1>1, <2>1 DEF Agrees
<1>2. CASE t \notin c.said \cup c.unsaid /\ u \in c.said /\ Reader \in G /\ n = j
  BY <1>2 DEF Agrees, Conversation
<1>3. CASE t \notin c.said \cup c.unsaid /\ u \in c.unsaid /\ Reader \notin G /\ n = j
  BY <1>3 DEF Agrees, Conversation
<1>4. CASE t \in c.said /\ u \in c.said /\ G = H /\ n = j
  BY <1>4 DEF Agrees, Conversation
<1>5. CASE t \in c.unsaid /\ u \in c.unsaid /\ G = H /\ n = j
  BY <1>5 DEF Agrees, Conversation
<1>6. CASE t \in c.said /\ u \notin c.said \cup c.unsaid /\ G = H /\ n = Append(j, c.on)
  <2>1. Ends(c, n, W, i, R)
    BY <1>6, EndsAppended
  <2> QED
    BY <1>6, <2>1 DEF Agrees
<1>7. CASE t \in c.unsaid /\ u \notin c.said \cup c.unsaid /\ G = H /\ n = Append(j, c.off)
  <2>1. ~Ends(c, n, W, i, R)
    BY <1>7, EndsAppended
  <2> QED
    BY <1>7, <2>1 DEF Agrees
<1> QED
  BY <1>1, <1>2, <1>3, <1>4, <1>5, <1>6, <1>7 DEF Speaks

\* A request in the inbox of the author goes from t to u, with the row R to Q.
Hears(c, t, u, R, Q) ==
  \/ t \in c.taken /\ u \in c.taken
  \/ t \in c.withdrawn /\ u \in c.withdrawn
  \/ t \in c.taken /\ u \notin c.taken \cup c.withdrawn /\ Reader \in Q
  \/ t \in c.withdrawn /\ u \notin c.taken \cup c.withdrawn /\ Reader \notin Q
  \/ t \notin c.taken \cup c.withdrawn /\ u \notin c.taken \cup c.withdrawn /\ (Reader \in Q <=> Reader \in R)

LEMMA AgreesHears ==
  ASSUME NEW c, Conversation(c), NEW t, NEW u, NEW R, NEW Q, Hears(c, t, u, R, Q),
         NEW p, NEW H, NEW j, NEW W, Agrees(c, p, H, j, W, t, R)
  PROVE  Agrees(c, p, H, j, W, u, Q)
<1>1. Ends(c, j, W, u, Q) <=> Ends(c, j, W, t, R)
  BY DEF Ends, Hears, Conversation
<1> QED
  BY <1>1 DEF Agrees

LEMMA ConversationsAre ==
  /\ Likes.on = "Like" /\ Likes.off = "UndoLike" /\ Boosts.on = "Announce" /\ Boosts.off = "UndoAnnounce"
  /\ Likes.said = {Liking3} /\ Likes.unsaid = {Unliking3}
  /\ Likes.taken = {InboxLike, Like2} /\ Likes.withdrawn = {InboxUndoLike, UndoLike2}
  /\ Boosts.said = {Boosting3, Boosting4, Boosting5} /\ Boosts.unsaid = {Unboosting3, Unboosting4, Unboosting5}
  /\ Boosts.taken = {Boost1, Boost2} /\ Boosts.withdrawn = {UndoBoost1, UndoBoost2}
BY DEF Likes, Boosts

\* Which requests of the reader owe the author a word.
LEMMA SaidLists ==
  /\ FavouritesCreate \notin Likes.said /\ FavouritesCreate \notin Likes.unsaid /\ FavouritesCreate \notin Boosts.said /\ FavouritesCreate \notin Boosts.unsaid
  /\ Liking2 \notin Likes.said /\ Liking2 \notin Likes.unsaid /\ Liking2 \notin Boosts.said /\ Liking2 \notin Boosts.unsaid
  /\ Liking3 \in Likes.said /\ Liking3 \notin Likes.unsaid /\ Liking3 \notin Boosts.said /\ Liking3 \notin Boosts.unsaid
  /\ FavouritesDelete \notin Likes.said /\ FavouritesDelete \notin Likes.unsaid /\ FavouritesDelete \notin Boosts.said /\ FavouritesDelete \notin Boosts.unsaid
  /\ Unliking2 \notin Likes.said /\ Unliking2 \notin Likes.unsaid /\ Unliking2 \notin Boosts.said /\ Unliking2 \notin Boosts.unsaid
  /\ Unliking3 \notin Likes.said /\ Unliking3 \in Likes.unsaid /\ Unliking3 \notin Boosts.said /\ Unliking3 \notin Boosts.unsaid
  /\ ReblogsCreate \notin Likes.said /\ ReblogsCreate \notin Likes.unsaid /\ ReblogsCreate \notin Boosts.said /\ ReblogsCreate \notin Boosts.unsaid
  /\ Boosting2 \notin Likes.said /\ Boosting2 \notin Likes.unsaid /\ Boosting2 \notin Boosts.said /\ Boosting2 \notin Boosts.unsaid
  /\ Boosting3 \notin Likes.said /\ Boosting3 \notin Likes.unsaid /\ Boosting3 \in Boosts.said /\ Boosting3 \notin Boosts.unsaid
  /\ Boosting4 \notin Likes.said /\ Boosting4 \notin Likes.unsaid /\ Boosting4 \in Boosts.said /\ Boosting4 \notin Boosts.unsaid
  /\ Boosting5 \notin Likes.said /\ Boosting5 \notin Likes.unsaid /\ Boosting5 \in Boosts.said /\ Boosting5 \notin Boosts.unsaid
  /\ ReblogsDelete \notin Likes.said /\ ReblogsDelete \notin Likes.unsaid /\ ReblogsDelete \notin Boosts.said /\ ReblogsDelete \notin Boosts.unsaid
  /\ Unboosting2 \notin Likes.said /\ Unboosting2 \notin Likes.unsaid /\ Unboosting2 \notin Boosts.said /\ Unboosting2 \notin Boosts.unsaid
  /\ Unboosting3 \notin Likes.said /\ Unboosting3 \notin Likes.unsaid /\ Unboosting3 \notin Boosts.said /\ Unboosting3 \in Boosts.unsaid
  /\ Unboosting4 \notin Likes.said /\ Unboosting4 \notin Likes.unsaid /\ Unboosting4 \notin Boosts.said /\ Unboosting4 \in Boosts.unsaid
  /\ Unboosting5 \notin Likes.said /\ Unboosting5 \notin Likes.unsaid /\ Unboosting5 \notin Boosts.said /\ Unboosting5 \in Boosts.unsaid
  /\ <<>> \notin Likes.said /\ <<>> \notin Likes.unsaid /\ <<>> \notin Boosts.said /\ <<>> \notin Boosts.unsaid
<1> USE ConversationsAre, LikingListsAre, UnlikingListsAre, BoostingListsAre, UnboostingListsAre
<1>0. /\ FavouritesCreate # <<>>
      /\ Liking2 # <<>>
      /\ Liking3 # <<>>
      /\ FavouritesDelete # <<>>
      /\ Unliking2 # <<>>
      /\ Unliking3 # <<>>
      /\ ReblogsCreate # <<>>
      /\ Boosting2 # <<>>
      /\ Boosting3 # <<>>
      /\ Boosting4 # <<>>
      /\ Boosting5 # <<>>
      /\ ReblogsDelete # <<>>
      /\ Unboosting2 # <<>>
      /\ Unboosting3 # <<>>
      /\ Unboosting4 # <<>>
      /\ Unboosting5 # <<>>
  OBVIOUS
<1>1. FavouritesCreate \notin Likes.said /\ FavouritesCreate \notin Likes.unsaid /\ FavouritesCreate \notin Boosts.said /\ FavouritesCreate \notin Boosts.unsaid
  BY <1>0
<1>2. Liking2 \notin Likes.said /\ Liking2 \notin Likes.unsaid /\ Liking2 \notin Boosts.said /\ Liking2 \notin Boosts.unsaid
  BY <1>0
<1>3. Liking3 \in Likes.said /\ Liking3 \notin Likes.unsaid /\ Liking3 \notin Boosts.said /\ Liking3 \notin Boosts.unsaid
  BY <1>0
<1>4. FavouritesDelete \notin Likes.said /\ FavouritesDelete \notin Likes.unsaid /\ FavouritesDelete \notin Boosts.said /\ FavouritesDelete \notin Boosts.unsaid
  BY <1>0
<1>5. Unliking2 \notin Likes.said /\ Unliking2 \notin Likes.unsaid /\ Unliking2 \notin Boosts.said /\ Unliking2 \notin Boosts.unsaid
  BY <1>0
<1>6. Unliking3 \notin Likes.said /\ Unliking3 \in Likes.unsaid /\ Unliking3 \notin Boosts.said /\ Unliking3 \notin Boosts.unsaid
  BY <1>0
<1>7. ReblogsCreate \notin Likes.said /\ ReblogsCreate \notin Likes.unsaid /\ ReblogsCreate \notin Boosts.said /\ ReblogsCreate \notin Boosts.unsaid
  BY <1>0
<1>8. Boosting2 \notin Likes.said /\ Boosting2 \notin Likes.unsaid /\ Boosting2 \notin Boosts.said /\ Boosting2 \notin Boosts.unsaid
  BY <1>0
<1>9. Boosting3 \notin Likes.said /\ Boosting3 \notin Likes.unsaid /\ Boosting3 \in Boosts.said /\ Boosting3 \notin Boosts.unsaid
  BY <1>0
<1>10. Boosting4 \notin Likes.said /\ Boosting4 \notin Likes.unsaid /\ Boosting4 \in Boosts.said /\ Boosting4 \notin Boosts.unsaid
  BY <1>0
<1>11. Boosting5 \notin Likes.said /\ Boosting5 \notin Likes.unsaid /\ Boosting5 \in Boosts.said /\ Boosting5 \notin Boosts.unsaid
  BY <1>0
<1>12. ReblogsDelete \notin Likes.said /\ ReblogsDelete \notin Likes.unsaid /\ ReblogsDelete \notin Boosts.said /\ ReblogsDelete \notin Boosts.unsaid
  BY <1>0
<1>13. Unboosting2 \notin Likes.said /\ Unboosting2 \notin Likes.unsaid /\ Unboosting2 \notin Boosts.said /\ Unboosting2 \notin Boosts.unsaid
  BY <1>0
<1>14. Unboosting3 \notin Likes.said /\ Unboosting3 \notin Likes.unsaid /\ Unboosting3 \notin Boosts.said /\ Unboosting3 \in Boosts.unsaid
  BY <1>0
<1>15. Unboosting4 \notin Likes.said /\ Unboosting4 \notin Likes.unsaid /\ Unboosting4 \notin Boosts.said /\ Unboosting4 \in Boosts.unsaid
  BY <1>0
<1>16. Unboosting5 \notin Likes.said /\ Unboosting5 \notin Likes.unsaid /\ Unboosting5 \notin Boosts.said /\ Unboosting5 \in Boosts.unsaid
  BY <1>0
<1>17. <<>> \notin Likes.said /\ <<>> \notin Likes.unsaid /\ <<>> \notin Boosts.said /\ <<>> \notin Boosts.unsaid
  BY <1>0
<1> QED
  BY <1>1, <1>2, <1>3, <1>4, <1>5, <1>6, <1>7, <1>8, <1>9, <1>10, <1>11, <1>12, <1>13, <1>14, <1>15, <1>16, <1>17

\* And which of the author are to write one down.
LEMMA TakenLists ==
  /\ InboxLike \in Likes.taken /\ InboxLike \notin Likes.withdrawn /\ InboxLike \notin Boosts.taken /\ InboxLike \notin Boosts.withdrawn
  /\ Like2 \in Likes.taken /\ Like2 \notin Likes.withdrawn /\ Like2 \notin Boosts.taken /\ Like2 \notin Boosts.withdrawn
  /\ Notifying \notin Likes.taken /\ Notifying \notin Likes.withdrawn /\ Notifying \notin Boosts.taken /\ Notifying \notin Boosts.withdrawn
  /\ InboxUndoLike \notin Likes.taken /\ InboxUndoLike \in Likes.withdrawn /\ InboxUndoLike \notin Boosts.taken /\ InboxUndoLike \notin Boosts.withdrawn
  /\ UndoLike2 \notin Likes.taken /\ UndoLike2 \in Likes.withdrawn /\ UndoLike2 \notin Boosts.taken /\ UndoLike2 \notin Boosts.withdrawn
  /\ Withdrawing \notin Likes.taken /\ Withdrawing \notin Likes.withdrawn /\ Withdrawing \notin Boosts.taken /\ Withdrawing \notin Boosts.withdrawn
  /\ Boost1 \notin Likes.taken /\ Boost1 \notin Likes.withdrawn /\ Boost1 \in Boosts.taken /\ Boost1 \notin Boosts.withdrawn
  /\ Boost2 \notin Likes.taken /\ Boost2 \notin Likes.withdrawn /\ Boost2 \in Boosts.taken /\ Boost2 \notin Boosts.withdrawn
  /\ UndoBoost1 \notin Likes.taken /\ UndoBoost1 \notin Likes.withdrawn /\ UndoBoost1 \notin Boosts.taken /\ UndoBoost1 \in Boosts.withdrawn
  /\ UndoBoost2 \notin Likes.taken /\ UndoBoost2 \notin Likes.withdrawn /\ UndoBoost2 \notin Boosts.taken /\ UndoBoost2 \in Boosts.withdrawn
  /\ <<>> \notin Likes.taken /\ <<>> \notin Likes.withdrawn /\ <<>> \notin Boosts.taken /\ <<>> \notin Boosts.withdrawn
<1> USE ConversationsAre, LikeListsAre, UndoLikeListsAre, BoostListsAre, UndoBoostListsAre
<1>0. /\ InboxLike # <<>>
      /\ Like2 # <<>>
      /\ Notifying # <<>>
      /\ InboxUndoLike # <<>>
      /\ UndoLike2 # <<>>
      /\ Withdrawing # <<>>
      /\ Boost1 # <<>>
      /\ Boost2 # <<>>
      /\ UndoBoost1 # <<>>
      /\ UndoBoost2 # <<>>
  OBVIOUS
<1>1. InboxLike \in Likes.taken /\ InboxLike \notin Likes.withdrawn /\ InboxLike \notin Boosts.taken /\ InboxLike \notin Boosts.withdrawn
  BY <1>0
<1>2. Like2 \in Likes.taken /\ Like2 \notin Likes.withdrawn /\ Like2 \notin Boosts.taken /\ Like2 \notin Boosts.withdrawn
  BY <1>0
<1>3. Notifying \notin Likes.taken /\ Notifying \notin Likes.withdrawn /\ Notifying \notin Boosts.taken /\ Notifying \notin Boosts.withdrawn
  BY <1>0
<1>4. InboxUndoLike \notin Likes.taken /\ InboxUndoLike \in Likes.withdrawn /\ InboxUndoLike \notin Boosts.taken /\ InboxUndoLike \notin Boosts.withdrawn
  BY <1>0
<1>5. UndoLike2 \notin Likes.taken /\ UndoLike2 \in Likes.withdrawn /\ UndoLike2 \notin Boosts.taken /\ UndoLike2 \notin Boosts.withdrawn
  BY <1>0
<1>6. Withdrawing \notin Likes.taken /\ Withdrawing \notin Likes.withdrawn /\ Withdrawing \notin Boosts.taken /\ Withdrawing \notin Boosts.withdrawn
  BY <1>0
<1>7. Boost1 \notin Likes.taken /\ Boost1 \notin Likes.withdrawn /\ Boost1 \in Boosts.taken /\ Boost1 \notin Boosts.withdrawn
  BY <1>0
<1>8. Boost2 \notin Likes.taken /\ Boost2 \notin Likes.withdrawn /\ Boost2 \in Boosts.taken /\ Boost2 \notin Boosts.withdrawn
  BY <1>0
<1>9. UndoBoost1 \notin Likes.taken /\ UndoBoost1 \notin Likes.withdrawn /\ UndoBoost1 \notin Boosts.taken /\ UndoBoost1 \in Boosts.withdrawn
  BY <1>0
<1>10. UndoBoost2 \notin Likes.taken /\ UndoBoost2 \notin Likes.withdrawn /\ UndoBoost2 \notin Boosts.taken /\ UndoBoost2 \in Boosts.withdrawn
  BY <1>0
<1>11. <<>> \notin Likes.taken /\ <<>> \notin Likes.withdrawn /\ <<>> \notin Boosts.taken /\ <<>> \notin Boosts.withdrawn
  BY <1>0
<1> QED
  BY <1>1, <1>2, <1>3, <1>4, <1>5, <1>6, <1>7, <1>8, <1>9, <1>10, <1>11

LEMMA TheConversations ==
  /\ Conversation(Likes) /\ Likes.on \in Answers /\ Likes.off \in Answers
  /\ Conversation(Boosts) /\ Boosts.on \in Answers /\ Boosts.off \in Answers
<1>1. Conversation(Likes)
  BY ConversationsAre, LikingListsAre, UnlikingListsAre, LikeListsAre, UndoLikeListsAre DEF Conversation
<1>2. Boosts.said \cap Boosts.unsaid = {}
  BY ConversationsAre, BoostingListsAre, UnboostingListsAre
<1>3. Boosts.taken \cap Boosts.withdrawn = {}
  BY ConversationsAre, BoostListsAre, UndoBoostListsAre
<1>4. Conversation(Boosts)
  BY <1>2, <1>3, ConversationsAre DEF Conversation
<1> QED
  BY <1>1, <1>4, ConversationsAre, TidingsAre

\* The request of the reader goes on to u, with the rows F and B, and the jobs n.
Turns(u, F, B, n) ==
  Left(Reader, "api")' = u /\ favourite'[Reader] = F /\ reblog'[Reader] = B /\ jobs'[Reader] = n

LEMMA TurnsAre ==
  ASSUME NEW P, NEW F, NEW B, NEW N, NEW J, NEW t, Effect(Reader, "api", P, F, B, N, J, t)
  PROVE  Turns(t, F, B, J)
BY DEF Effect, Turns

SpeaksOfBoth ==
  /\ Speaks(Likes, Left(Reader, "api"), Left(Reader, "api")', favourite[Reader], favourite'[Reader], jobs[Reader], jobs'[Reader])
  /\ Speaks(Boosts, Left(Reader, "api"), Left(Reader, "api")', reblog[Reader], reblog'[Reader], jobs[Reader], jobs'[Reader])

LEMMA LikingSpeaks ==
  ASSUME PostsInv, Statement(Reader, "api"), Left(Reader, "api") \in {FavouritesCreate, Liking2, Liking3}
  PROVE  SpeaksOfBoth
<1>0. Reader \in Servers /\ "api" \in Slots /\ Actor(Reader, "api") = Reader /\ Reader # Author
  BY ServersAre DEF Actor
<1>w. {"Like", "UndoLike", "Announce", "UndoAnnounce"} = Answers
  BY TidingsAre
<1>1. CASE Left(Reader, "api") = FavouritesCreate
  <2>1. GetPost(Reader, "api")
    BY <1>1, StatementNames, <1>0, LikingListsAre
  <2>2. Turns(Liking2, favourite[Reader], reblog[Reader], jobs[Reader]) \/ Turns(<<>>, favourite[Reader], reblog[Reader], jobs[Reader])
    BY <1>0, <1>1, <2>1, LikingListsAre, GetPostDoes, TurnsAre
  <2>3. CASE Turns(Liking2, favourite[Reader], reblog[Reader], jobs[Reader])
    BY <1>0, <1>w, <1>1, <2>3, SaidLists, ConversationsAre DEF SpeaksOfBoth, Speaks, Turns
  <2>4. CASE Turns(<<>>, favourite[Reader], reblog[Reader], jobs[Reader])
    BY <1>0, <1>w, <1>1, <2>4, SaidLists, ConversationsAre DEF SpeaksOfBoth, Speaks, Turns
  <2> QED
    BY <2>2, <2>3, <2>4
<1>2. CASE Left(Reader, "api") = Liking2
  <2>1. CreateFavourite(Reader, "api")
    BY <1>2, StatementNames, <1>0, LikingListsAre
  <2>2. Turns(Liking3, favourite[Reader] \cup {Reader}, reblog[Reader], jobs[Reader]) \/ Turns(<<>>, favourite[Reader], reblog[Reader], jobs[Reader])
    BY <1>0, <1>2, <2>1, LikingListsAre, CreateFavouriteDoes, TurnsAre
  <2>3. CASE Turns(Liking3, favourite[Reader] \cup {Reader}, reblog[Reader], jobs[Reader])
    BY <1>0, <1>w, <1>2, <2>3, SaidLists, ConversationsAre DEF SpeaksOfBoth, Speaks, Turns
  <2>4. CASE Turns(<<>>, favourite[Reader], reblog[Reader], jobs[Reader])
    BY <1>0, <1>w, <1>2, <2>4, SaidLists, ConversationsAre DEF SpeaksOfBoth, Speaks, Turns
  <2> QED
    BY <2>2, <2>3, <2>4
<1>3. CASE Left(Reader, "api") = Liking3
  <2>1. Enqueue(Reader, "api", "EnqueueSendLike", "Like")
    BY <1>3, StatementNames, <1>0, LikingListsAre DEF EnqueueAbout
  <2>2. Turns(<<>>, favourite[Reader], reblog[Reader], Append(jobs[Reader], "Like"))
    BY <1>0, <1>3, <2>1, LikingListsAre, EnqueueDoes, TurnsAre
  <2>3. CASE Turns(<<>>, favourite[Reader], reblog[Reader], Append(jobs[Reader], "Like"))
    BY <1>0, <1>w, <1>3, <2>3, SaidLists, ConversationsAre DEF SpeaksOfBoth, Speaks, Turns
  <2> QED
    BY <2>2, <2>3
<1> QED
  BY <1>1, <1>2, <1>3

LEMMA UnlikingSpeaks ==
  ASSUME PostsInv, Statement(Reader, "api"), Left(Reader, "api") \in {FavouritesDelete, Unliking2, Unliking3}
  PROVE  SpeaksOfBoth
<1>0. Reader \in Servers /\ "api" \in Slots /\ Actor(Reader, "api") = Reader /\ Reader # Author
  BY ServersAre DEF Actor
<1>w. {"Like", "UndoLike", "Announce", "UndoAnnounce"} = Answers
  BY TidingsAre
<1>1. CASE Left(Reader, "api") = FavouritesDelete
  <2>1. GetPost(Reader, "api")
    BY <1>1, StatementNames, <1>0, UnlikingListsAre
  <2>2. Turns(Unliking2, favourite[Reader], reblog[Reader], jobs[Reader]) \/ Turns(<<>>, favourite[Reader], reblog[Reader], jobs[Reader])
    BY <1>0, <1>1, <2>1, UnlikingListsAre, GetPostDoes, TurnsAre
  <2>3. CASE Turns(Unliking2, favourite[Reader], reblog[Reader], jobs[Reader])
    BY <1>0, <1>w, <1>1, <2>3, SaidLists, ConversationsAre DEF SpeaksOfBoth, Speaks, Turns
  <2>4. CASE Turns(<<>>, favourite[Reader], reblog[Reader], jobs[Reader])
    BY <1>0, <1>w, <1>1, <2>4, SaidLists, ConversationsAre DEF SpeaksOfBoth, Speaks, Turns
  <2> QED
    BY <2>2, <2>3, <2>4
<1>2. CASE Left(Reader, "api") = Unliking2
  <2>1. DeleteFavourite(Reader, "api")
    BY <1>2, StatementNames, <1>0, UnlikingListsAre
  <2>2. Turns(Unliking3, favourite[Reader] \ {Reader}, reblog[Reader], jobs[Reader])
    BY <1>0, <1>2, <2>1, UnlikingListsAre, DeleteFavouriteDoes, TurnsAre
  <2>3. CASE Turns(Unliking3, favourite[Reader] \ {Reader}, reblog[Reader], jobs[Reader])
    BY <1>0, <1>w, <1>2, <2>3, SaidLists, ConversationsAre DEF SpeaksOfBoth, Speaks, Turns
  <2> QED
    BY <2>2, <2>3
<1>3. CASE Left(Reader, "api") = Unliking3
  <2>1. Enqueue(Reader, "api", "EnqueueSendUndoLike", "UndoLike")
    BY <1>3, StatementNames, <1>0, UnlikingListsAre DEF EnqueueAbout
  <2>2. Turns(<<>>, favourite[Reader], reblog[Reader], Append(jobs[Reader], "UndoLike"))
    BY <1>0, <1>3, <2>1, UnlikingListsAre, EnqueueDoes, TurnsAre
  <2>3. CASE Turns(<<>>, favourite[Reader], reblog[Reader], Append(jobs[Reader], "UndoLike"))
    BY <1>0, <1>w, <1>3, <2>3, SaidLists, ConversationsAre DEF SpeaksOfBoth, Speaks, Turns
  <2> QED
    BY <2>2, <2>3
<1> QED
  BY <1>1, <1>2, <1>3

LEMMA BoostingSpeaks ==
  ASSUME PostsInv, Statement(Reader, "api"), Left(Reader, "api") \in {ReblogsCreate, Boosting2, Boosting3, Boosting4, Boosting5}
  PROVE  SpeaksOfBoth
<1>0. Reader \in Servers /\ "api" \in Slots /\ Actor(Reader, "api") = Reader /\ Reader # Author
  BY ServersAre DEF Actor
<1>w. {"Like", "UndoLike", "Announce", "UndoAnnounce"} = Answers
  BY TidingsAre
<1>1. CASE Left(Reader, "api") = ReblogsCreate
  <2>1. GetPost(Reader, "api")
    BY <1>1, StatementNames, <1>0, BoostingListsAre
  <2>2. Turns(Boosting2, favourite[Reader], reblog[Reader], jobs[Reader]) \/ Turns(<<>>, favourite[Reader], reblog[Reader], jobs[Reader])
    BY <1>0, <1>1, <2>1, BoostingListsAre, GetPostDoes, TurnsAre
  <2>3. CASE Turns(Boosting2, favourite[Reader], reblog[Reader], jobs[Reader])
    BY <1>0, <1>w, <1>1, <2>3, SaidLists, ConversationsAre DEF SpeaksOfBoth, Speaks, Turns
  <2>4. CASE Turns(<<>>, favourite[Reader], reblog[Reader], jobs[Reader])
    BY <1>0, <1>w, <1>1, <2>4, SaidLists, ConversationsAre DEF SpeaksOfBoth, Speaks, Turns
  <2> QED
    BY <2>2, <2>3, <2>4
<1>2. CASE Left(Reader, "api") = Boosting2
  <2>1. CreateReblog(Reader, "api")
    BY <1>2, StatementNames, <1>0, BoostingListsAre
  <2>2. Turns(Boosting3, favourite[Reader], reblog[Reader] \cup {Reader}, jobs[Reader]) \/ Turns(<<>>, favourite[Reader], reblog[Reader], jobs[Reader])
    BY <1>0, <1>2, <2>1, BoostingListsAre, CreateReblogDoes, TurnsAre
  <2>3. CASE Turns(Boosting3, favourite[Reader], reblog[Reader] \cup {Reader}, jobs[Reader])
    BY <1>0, <1>w, <1>2, <2>3, SaidLists, ConversationsAre DEF SpeaksOfBoth, Speaks, Turns
  <2>4. CASE Turns(<<>>, favourite[Reader], reblog[Reader], jobs[Reader])
    BY <1>0, <1>w, <1>2, <2>4, SaidLists, ConversationsAre DEF SpeaksOfBoth, Speaks, Turns
  <2> QED
    BY <2>2, <2>3, <2>4
<1>3. CASE Left(Reader, "api") = Boosting3
  <2>1. CreateWrapper(Reader, "api")
    BY <1>3, StatementNames, <1>0, BoostingListsAre
  <2>2. Turns(Boosting4, favourite[Reader], reblog[Reader], jobs[Reader])
    BY <1>0, <1>3, <2>1, BoostingListsAre, PassDoes, TurnsAre
  <2>3. CASE Turns(Boosting4, favourite[Reader], reblog[Reader], jobs[Reader])
    BY <1>0, <1>w, <1>3, <2>3, SaidLists, ConversationsAre DEF SpeaksOfBoth, Speaks, Turns
  <2> QED
    BY <2>2, <2>3
<1>4. CASE Left(Reader, "api") = Boosting4
  <2>1. RefreshPostCount(Reader, "api")
    BY <1>4, StatementNames, <1>0, BoostingListsAre
  <2>2. Turns(Boosting5, favourite[Reader], reblog[Reader], jobs[Reader])
    BY <1>0, <1>4, <2>1, BoostingListsAre, PassDoes, TurnsAre
  <2>3. CASE Turns(Boosting5, favourite[Reader], reblog[Reader], jobs[Reader])
    BY <1>0, <1>w, <1>4, <2>3, SaidLists, ConversationsAre DEF SpeaksOfBoth, Speaks, Turns
  <2> QED
    BY <2>2, <2>3
<1>5. CASE Left(Reader, "api") = Boosting5
  <2>1. Enqueue(Reader, "api", "EnqueueSendAnnounce", "Announce")
    BY <1>5, StatementNames, <1>0, BoostingListsAre
  <2>2. Turns(<<>>, favourite[Reader], reblog[Reader], Append(jobs[Reader], "Announce"))
    BY <1>0, <1>5, <2>1, BoostingListsAre, EnqueueDoes, TurnsAre
  <2>3. CASE Turns(<<>>, favourite[Reader], reblog[Reader], Append(jobs[Reader], "Announce"))
    BY <1>0, <1>w, <1>5, <2>3, SaidLists, ConversationsAre DEF SpeaksOfBoth, Speaks, Turns
  <2> QED
    BY <2>2, <2>3
<1> QED
  BY <1>1, <1>2, <1>3, <1>4, <1>5

LEMMA UnboostingSpeaks ==
  ASSUME PostsInv, Statement(Reader, "api"), Left(Reader, "api") \in {ReblogsDelete, Unboosting2, Unboosting3, Unboosting4, Unboosting5}
  PROVE  SpeaksOfBoth
<1>0. Reader \in Servers /\ "api" \in Slots /\ Actor(Reader, "api") = Reader /\ Reader # Author
  BY ServersAre DEF Actor
<1>w. {"Like", "UndoLike", "Announce", "UndoAnnounce"} = Answers
  BY TidingsAre
<1>1. CASE Left(Reader, "api") = ReblogsDelete
  <2>1. GetPost(Reader, "api")
    BY <1>1, StatementNames, <1>0, UnboostingListsAre
  <2>2. Turns(Unboosting2, favourite[Reader], reblog[Reader], jobs[Reader]) \/ Turns(<<>>, favourite[Reader], reblog[Reader], jobs[Reader])
    BY <1>0, <1>1, <2>1, UnboostingListsAre, GetPostDoes, TurnsAre
  <2>3. CASE Turns(Unboosting2, favourite[Reader], reblog[Reader], jobs[Reader])
    BY <1>0, <1>w, <1>1, <2>3, SaidLists, ConversationsAre DEF SpeaksOfBoth, Speaks, Turns
  <2>4. CASE Turns(<<>>, favourite[Reader], reblog[Reader], jobs[Reader])
    BY <1>0, <1>w, <1>1, <2>4, SaidLists, ConversationsAre DEF SpeaksOfBoth, Speaks, Turns
  <2> QED
    BY <2>2, <2>3, <2>4
<1>2. CASE Left(Reader, "api") = Unboosting2
  <2>1. DeleteReblog(Reader, "api")
    BY <1>2, StatementNames, <1>0, UnboostingListsAre
  <2>2. Turns(Unboosting3, favourite[Reader], reblog[Reader] \ {Reader}, jobs[Reader])
    BY <1>0, <1>2, <2>1, UnboostingListsAre, DeleteReblogDoes, TurnsAre
  <2>3. CASE Turns(Unboosting3, favourite[Reader], reblog[Reader] \ {Reader}, jobs[Reader])
    BY <1>0, <1>w, <1>2, <2>3, SaidLists, ConversationsAre DEF SpeaksOfBoth, Speaks, Turns
  <2> QED
    BY <2>2, <2>3
<1>3. CASE Left(Reader, "api") = Unboosting3
  <2>1. DeleteReblogPost(Reader, "api")
    BY <1>3, StatementNames, <1>0, UnboostingListsAre
  <2>2. Turns(Unboosting4, favourite[Reader], reblog[Reader], jobs[Reader])
    BY <1>0, <1>3, <2>1, UnboostingListsAre, PassDoes, TurnsAre
  <2>3. CASE Turns(Unboosting4, favourite[Reader], reblog[Reader], jobs[Reader])
    BY <1>0, <1>w, <1>3, <2>3, SaidLists, ConversationsAre DEF SpeaksOfBoth, Speaks, Turns
  <2> QED
    BY <2>2, <2>3
<1>4. CASE Left(Reader, "api") = Unboosting4
  <2>1. RefreshPostCount(Reader, "api")
    BY <1>4, StatementNames, <1>0, UnboostingListsAre
  <2>2. Turns(Unboosting5, favourite[Reader], reblog[Reader], jobs[Reader])
    BY <1>0, <1>4, <2>1, UnboostingListsAre, PassDoes, TurnsAre
  <2>3. CASE Turns(Unboosting5, favourite[Reader], reblog[Reader], jobs[Reader])
    BY <1>0, <1>w, <1>4, <2>3, SaidLists, ConversationsAre DEF SpeaksOfBoth, Speaks, Turns
  <2> QED
    BY <2>2, <2>3
<1>5. CASE Left(Reader, "api") = Unboosting5
  <2>1. Enqueue(Reader, "api", "EnqueueSendUndoAnnounce", "UndoAnnounce")
    BY <1>5, StatementNames, <1>0, UnboostingListsAre
  <2>2. Turns(<<>>, favourite[Reader], reblog[Reader], Append(jobs[Reader], "UndoAnnounce"))
    BY <1>0, <1>5, <2>1, UnboostingListsAre, EnqueueDoes, TurnsAre
  <2>3. CASE Turns(<<>>, favourite[Reader], reblog[Reader], Append(jobs[Reader], "UndoAnnounce"))
    BY <1>0, <1>w, <1>5, <2>3, SaidLists, ConversationsAre DEF SpeaksOfBoth, Speaks, Turns
  <2> QED
    BY <2>2, <2>3
<1> QED
  BY <1>1, <1>2, <1>3, <1>4, <1>5

LEMMA ReaderSpeaks ==
  ASSUME PostsInv, ListsInv, Statement(Reader, "api")
  PROVE  SpeaksOfBoth
<1>1. Left(Reader, "api") # <<>> /\ Left(Reader, "api") \in InteractionLists
  BY StatementNames, ServersAre DEF ListsInv, LeftOK, ListsAt
<1> QED
  BY <1>1, LikingSpeaks, UnlikingSpeaks, BoostingSpeaks, UnboostingSpeaks DEF InteractionLists

\* The request in the inbox of the author goes on to u, with the rows F and B.
Hearing(u, F, B) ==
  Left(Author, "inbox")' = u /\ favourite'[Author] = F /\ reblog'[Author] = B

LEMMA HearingIs ==
  ASSUME NEW P, NEW F, NEW B, NEW N, NEW J, NEW t, Effect(Author, "inbox", P, F, B, N, J, t)
  PROVE  Hearing(t, F, B)
BY DEF Effect, Hearing

HearsOfBoth ==
  /\ Hears(Likes, Left(Author, "inbox"), Left(Author, "inbox")', favourite[Author], favourite'[Author])
  /\ Hears(Boosts, Left(Author, "inbox"), Left(Author, "inbox")', reblog[Author], reblog'[Author])

LEMMA LikeIsHeard ==
  ASSUME PostsInv, post[Author] # NoPost, Statement(Author, "inbox"), Left(Author, "inbox") \in {InboxLike, Like2, Notifying}
  PROVE  HearsOfBoth
<1>0. Author \in Servers /\ "inbox" \in Slots /\ Actor(Author, "inbox") = Reader /\ "inbox" # "api"
  BY ServersAre DEF Actor, Other
<1>1. CASE Left(Author, "inbox") = InboxLike
  <2>1. GetPost(Author, "inbox")
    BY <1>1, <1>0, StatementNames, LikeListsAre
  <2>2. Hearing(Like2, favourite[Author], reblog[Author])
    BY <1>0, <1>1, <2>1, LikeListsAre, GetPostDoes, HearingIs
  <2>3. CASE Hearing(Like2, favourite[Author], reblog[Author])
    BY <1>0, <1>1, <2>3, TakenLists DEF HearsOfBoth, Hears, Hearing
  <2> QED
    BY <2>2, <2>3
<1>2. CASE Left(Author, "inbox") = Like2
  <2>1. CreateFavourite(Author, "inbox")
    BY <1>2, <1>0, StatementNames, LikeListsAre
  <2>2. Hearing(Notifying, favourite[Author] \cup {Reader}, reblog[Author]) \/ (Reader \in favourite[Author] /\ Hearing(Notifying, favourite[Author], reblog[Author]))
    BY <1>0, <1>2, <2>1, LikeListsAre, CreateFavouriteDoes, HearingIs
  <2>3. CASE Hearing(Notifying, favourite[Author] \cup {Reader}, reblog[Author])
    BY <1>0, <1>2, <2>3, TakenLists DEF HearsOfBoth, Hears, Hearing
  <2>4. CASE Reader \in favourite[Author] /\ Hearing(Notifying, favourite[Author], reblog[Author])
    BY <1>0, <1>2, <2>4, TakenLists DEF HearsOfBoth, Hears, Hearing
  <2> QED
    BY <2>2, <2>3, <2>4
<1>3. CASE Left(Author, "inbox") = Notifying
  <2>1. Notify(Author, "inbox")
    BY <1>3, <1>0, StatementNames, LikeListsAre
  <2>2. Hearing(<<>>, favourite[Author], reblog[Author])
    BY <1>0, <1>3, <2>1, LikeListsAre, NotifyDoes, HearingIs
  <2>3. CASE Hearing(<<>>, favourite[Author], reblog[Author])
    BY <1>0, <1>3, <2>3, TakenLists DEF HearsOfBoth, Hears, Hearing
  <2> QED
    BY <2>2, <2>3
<1> QED
  BY <1>1, <1>2, <1>3

LEMMA UndoLikeIsHeard ==
  ASSUME PostsInv, post[Author] # NoPost, Statement(Author, "inbox"), Left(Author, "inbox") \in {InboxUndoLike, UndoLike2, Withdrawing}
  PROVE  HearsOfBoth
<1>0. Author \in Servers /\ "inbox" \in Slots /\ Actor(Author, "inbox") = Reader /\ "inbox" # "api"
  BY ServersAre DEF Actor, Other
<1>1. CASE Left(Author, "inbox") = InboxUndoLike
  <2>1. GetPost(Author, "inbox")
    BY <1>1, <1>0, StatementNames, UndoLikeListsAre
  <2>2. Hearing(UndoLike2, favourite[Author], reblog[Author])
    BY <1>0, <1>1, <2>1, UndoLikeListsAre, GetPostDoes, HearingIs
  <2>3. CASE Hearing(UndoLike2, favourite[Author], reblog[Author])
    BY <1>0, <1>1, <2>3, TakenLists DEF HearsOfBoth, Hears, Hearing
  <2> QED
    BY <2>2, <2>3
<1>2. CASE Left(Author, "inbox") = UndoLike2
  <2>1. DeleteFavourite(Author, "inbox")
    BY <1>2, <1>0, StatementNames, UndoLikeListsAre
  <2>2. Hearing(Withdrawing, favourite[Author] \ {Reader}, reblog[Author])
    BY <1>0, <1>2, <2>1, UndoLikeListsAre, DeleteFavouriteDoes, HearingIs
  <2>3. CASE Hearing(Withdrawing, favourite[Author] \ {Reader}, reblog[Author])
    BY <1>0, <1>2, <2>3, TakenLists DEF HearsOfBoth, Hears, Hearing
  <2> QED
    BY <2>2, <2>3
<1>3. CASE Left(Author, "inbox") = Withdrawing
  <2>1. DeleteNotification(Author, "inbox")
    BY <1>3, <1>0, StatementNames, UndoLikeListsAre
  <2>2. Hearing(<<>>, favourite[Author], reblog[Author])
    BY <1>0, <1>3, <2>1, UndoLikeListsAre, DeleteNotificationDoes, HearingIs
  <2>3. CASE Hearing(<<>>, favourite[Author], reblog[Author])
    BY <1>0, <1>3, <2>3, TakenLists DEF HearsOfBoth, Hears, Hearing
  <2> QED
    BY <2>2, <2>3
<1> QED
  BY <1>1, <1>2, <1>3

LEMMA BoostIsHeard ==
  ASSUME PostsInv, post[Author] # NoPost, Statement(Author, "inbox"), Left(Author, "inbox") \in {Boost1, Boost2, Notifying}
  PROVE  HearsOfBoth
<1>0. Author \in Servers /\ "inbox" \in Slots /\ Actor(Author, "inbox") = Reader /\ "inbox" # "api"
  BY ServersAre DEF Actor, Other
<1>1. CASE Left(Author, "inbox") = Boost1
  <2>1. GetPost(Author, "inbox")
    BY <1>1, <1>0, StatementNames, BoostListsAre
  <2>2. Hearing(Boost2, favourite[Author], reblog[Author])
    BY <1>0, <1>1, <2>1, BoostListsAre, GetPostDoes, HearingIs
  <2>3. CASE Hearing(Boost2, favourite[Author], reblog[Author])
    BY <1>0, <1>1, <2>3, TakenLists DEF HearsOfBoth, Hears, Hearing
  <2> QED
    BY <2>2, <2>3
<1>2. CASE Left(Author, "inbox") = Boost2
  <2>1. CreateReblog(Author, "inbox")
    BY <1>2, <1>0, StatementNames, BoostListsAre
  <2>2. Hearing(Notifying, favourite[Author], reblog[Author] \cup {Reader}) \/ (Reader \in reblog[Author] /\ Hearing(Notifying, favourite[Author], reblog[Author]))
    BY <1>0, <1>2, <2>1, BoostListsAre, CreateReblogDoes, HearingIs
  <2>3. CASE Hearing(Notifying, favourite[Author], reblog[Author] \cup {Reader})
    BY <1>0, <1>2, <2>3, TakenLists DEF HearsOfBoth, Hears, Hearing
  <2>4. CASE Reader \in reblog[Author] /\ Hearing(Notifying, favourite[Author], reblog[Author])
    BY <1>0, <1>2, <2>4, TakenLists DEF HearsOfBoth, Hears, Hearing
  <2> QED
    BY <2>2, <2>3, <2>4
<1>3. CASE Left(Author, "inbox") = Notifying
  <2>1. Notify(Author, "inbox")
    BY <1>3, <1>0, StatementNames, BoostListsAre
  <2>2. Hearing(<<>>, favourite[Author], reblog[Author])
    BY <1>0, <1>3, <2>1, BoostListsAre, NotifyDoes, HearingIs
  <2>3. CASE Hearing(<<>>, favourite[Author], reblog[Author])
    BY <1>0, <1>3, <2>3, TakenLists DEF HearsOfBoth, Hears, Hearing
  <2> QED
    BY <2>2, <2>3
<1> QED
  BY <1>1, <1>2, <1>3

LEMMA UndoBoostIsHeard ==
  ASSUME PostsInv, post[Author] # NoPost, Statement(Author, "inbox"), Left(Author, "inbox") \in {UndoBoost1, UndoBoost2, Withdrawing}
  PROVE  HearsOfBoth
<1>0. Author \in Servers /\ "inbox" \in Slots /\ Actor(Author, "inbox") = Reader /\ "inbox" # "api"
  BY ServersAre DEF Actor, Other
<1>1. CASE Left(Author, "inbox") = UndoBoost1
  <2>1. GetPost(Author, "inbox")
    BY <1>1, <1>0, StatementNames, UndoBoostListsAre
  <2>2. Hearing(UndoBoost2, favourite[Author], reblog[Author])
    BY <1>0, <1>1, <2>1, UndoBoostListsAre, GetPostDoes, HearingIs
  <2>3. CASE Hearing(UndoBoost2, favourite[Author], reblog[Author])
    BY <1>0, <1>1, <2>3, TakenLists DEF HearsOfBoth, Hears, Hearing
  <2> QED
    BY <2>2, <2>3
<1>2. CASE Left(Author, "inbox") = UndoBoost2
  <2>1. DeleteReblog(Author, "inbox")
    BY <1>2, <1>0, StatementNames, UndoBoostListsAre
  <2>2. Hearing(Withdrawing, favourite[Author], reblog[Author] \ {Reader})
    BY <1>0, <1>2, <2>1, UndoBoostListsAre, DeleteReblogDoes, HearingIs
  <2>3. CASE Hearing(Withdrawing, favourite[Author], reblog[Author] \ {Reader})
    BY <1>0, <1>2, <2>3, TakenLists DEF HearsOfBoth, Hears, Hearing
  <2> QED
    BY <2>2, <2>3
<1>3. CASE Left(Author, "inbox") = Withdrawing
  <2>1. DeleteNotification(Author, "inbox")
    BY <1>3, <1>0, StatementNames, UndoBoostListsAre
  <2>2. Hearing(<<>>, favourite[Author], reblog[Author])
    BY <1>0, <1>3, <2>1, UndoBoostListsAre, DeleteNotificationDoes, HearingIs
  <2>3. CASE Hearing(<<>>, favourite[Author], reblog[Author])
    BY <1>0, <1>3, <2>3, TakenLists DEF HearsOfBoth, Hears, Hearing
  <2> QED
    BY <2>2, <2>3
<1> QED
  BY <1>1, <1>2, <1>3

LEMMA AuthorHears ==
  ASSUME PostsInv, ListsInv, post[Author] # NoPost, Statement(Author, "inbox")
  PROVE  HearsOfBoth
<1>1. Left(Author, "inbox") # <<>> /\ Left(Author, "inbox") \in AnswerLists
  BY StatementNames, ServersAre DEF ListsInv, LeftOK, ListsAt
<1> QED
  BY <1>1, LikeIsHeard, UndoLikeIsHeard, BoostIsHeard, UndoBoostIsHeard DEF AnswerLists

-----------------------------------------------------------------------------
(* The two rows agree, step by step.                                        *)

LEMMA SameEndsAgree ==
  ASSUME NEW c, NEW t, NEW H, NEW j, NEW W, NEW i, NEW R, Agrees(c, t, H, j, W, i, R),
         NEW n, NEW V, NEW u, NEW Q, Ends(c, n, V, u, Q) <=> Ends(c, j, W, i, R)
  PROVE  Agrees(c, t, H, n, V, u, Q)
BY DEF Agrees

LEMMA NothingEnds ==
  ASSUME NEW c, NEW R, <<>> \notin c.taken, <<>> \notin c.withdrawn
  PROVE  Ends(c, <<>>, {}, <<>>, R) <=> Reader \in R
<1>1. ~ \E m \in 1..Len(<<>>) : TRUE
  OBVIOUS
<1>2. \A x, X : ~LastIs(<<>>, x, X) /\ Silent(<<>>, X)
  BY <1>1 DEF LastIs, Silent
<1>3. \A x : ~Tells({}, x)
  BY DEF Tells
<1> QED
  BY <1>2, <1>3 DEF Ends

\* Once nothing is on its way the rows agree, and only then.
LEMMA NothingAgrees ==
  ASSUME NEW c \in {Likes, Boosts}, NEW H, NEW R
  PROVE  Agrees(c, <<>>, H, <<>>, {}, <<>>, R) <=> (Reader \in H <=> Reader \in R)
<1>1. <<>> \notin c.taken /\ <<>> \notin c.withdrawn /\ <<>> \notin c.said /\ <<>> \notin c.unsaid
  BY SaidLists, TakenLists
<1>2. Ends(c, <<>>, {}, <<>>, R) <=> Reader \in R
  BY <1>1, NothingEnds
<1> QED
  BY <1>1, <1>2 DEF Agrees

\* What the agreement is about, at the reader and between the two, stays.
ReaderKept ==
  /\ Left(Reader, "api")' = Left(Reader, "api") /\ favourite'[Reader] = favourite[Reader]
  /\ reblog'[Reader] = reblog[Reader] /\ jobs'[Reader] = jobs[Reader]

AuthorKept ==
  /\ Left(Author, "inbox")' = Left(Author, "inbox")
  /\ Reader \in favourite'[Author] <=> Reader \in favourite[Author]
  /\ Reader \in reblog'[Author] <=> Reader \in reblog[Author]

LEMMA KeptTalk ==
  ASSUME TalkInv, ReaderKept, AuthorKept, wire'[Reader] = wire[Reader], smooth' => smooth,
         post[Author] = NoPost => post'[Author] = NoPost
  PROVE  TalkInv'
<1> SUFFICES ASSUME smooth, post[Author] # NoPost PROVE LikesAgree' /\ BoostsAgree'
  BY DEF TalkInv
<1>1. LikesAgree /\ BoostsAgree
  BY DEF TalkInv
<1>2. /\ Hears(Likes, Left(Author, "inbox"), Left(Author, "inbox")', favourite[Author], favourite'[Author])
      /\ Hears(Boosts, Left(Author, "inbox"), Left(Author, "inbox")', reblog[Author], reblog'[Author])
  BY DEF AuthorKept, Hears
<1>3. LikesAgree'
  BY <1>1, <1>2, TheConversations, AgreesHears DEF LikesAgree, ReaderKept
<1>4. BoostsAgree'
  BY <1>1, <1>2, TheConversations, AgreesHears DEF BoostsAgree, ReaderKept
<1> QED
  BY <1>3, <1>4

LEMMA SpokenTalk ==
  ASSUME PostsInv, TalkInv, SpeaksOfBoth, AuthorKept, favourite'[Author] = favourite[Author],
         reblog'[Author] = reblog[Author], wire'[Reader] = wire[Reader],
         smooth' => smooth, post[Author] = NoPost => post'[Author] = NoPost
  PROVE  TalkInv'
<1> SUFFICES ASSUME smooth, post[Author] # NoPost PROVE LikesAgree' /\ BoostsAgree'
  BY DEF TalkInv
<1>1. LikesAgree /\ BoostsAgree
  BY DEF TalkInv
<1>2. jobs[Reader] \in Seq(Answers)
  BY ServersAre, TidingsAre DEF PostsInv, QueuesOK
<1>3. LikesAgree'
  BY <1>1, <1>2, TheConversations, AgreesSpeaks DEF LikesAgree, SpeaksOfBoth, AuthorKept
<1>4. BoostsAgree'
  BY <1>1, <1>2, TheConversations, AgreesSpeaks DEF BoostsAgree, SpeaksOfBoth, AuthorKept
<1> QED
  BY <1>3, <1>4

\* A new post is nobody's favourite.
LEMMA CreatePostTalk ==
  ASSUME PostsInv, ListsInv, NEW s \in Servers, NEW k \in Slots, CreatePost(s, k)
  PROVE  TalkInv'
<1>1. Author \in Servers /\ Reader \in Servers /\ Author # Reader /\ "inbox" \in Slots /\ "api" \in Slots /\ "inbox" # "api"
  BY ServersAre
<1>2. s = Author /\ k = "api" /\ ~created
  BY CreatePostDoes
<1>3. /\ favourite'[Author] = favourite[Author] /\ favourite'[Reader] = favourite[Reader]
      /\ reblog'[Author] = reblog[Author] /\ reblog'[Reader] = reblog[Reader]
      /\ jobs'[Reader] = jobs[Reader] /\ wire'[Reader] = wire[Reader]
      /\ Left(Reader, "api")' = Left(Reader, "api") /\ Left(Author, "inbox")' = Left(Author, "inbox")
  BY <1>1, <1>2, CreatePostDoes DEF Effect, Left
<1>4. /\ \A x \in Servers : post[x] = NoPost /\ jobs[x] = <<>> /\ wire[x] = {}
      /\ run[Reader]["api"] = Idle /\ run[Author]["inbox"] = Idle
  BY <1>1, <1>2 DEF PostsInv, FreshOK
<1>5. favourite[Reader] = {} /\ favourite[Author] = {} /\ reblog[Reader] = {} /\ reblog[Author] = {}
  BY <1>1, <1>4 DEF ListsInv, TalkOK, PostsInv, RowOK
<1>6. Left(Reader, "api") = <<>> /\ Left(Author, "inbox") = <<>>
  BY <1>4, IdleOK DEF Left
<1>7. \A c \in {Likes, Boosts} : Agrees(c, <<>>, {}, <<>>, {}, <<>>, {})
  BY NothingAgrees
<1>8. LikesAgree' /\ BoostsAgree'
  BY <1>1, <1>3, <1>4, <1>5, <1>6, <1>7 DEF LikesAgree, BoostsAgree
<1> QED
  BY <1>8 DEF TalkInv

LEMMA StatementTalk ==
  ASSUME PostsInv, ListsInv, TalkInv, NEW s \in Servers, NEW k \in Slots, Statement(s, k)
  PROVE  TalkInv'
<1> PICK h : h = Head(Left(s, k))
  OBVIOUS
<1>1. Left(s, k) # <<>> /\ Frame(s, k) /\ Outcome(s, k, h)
  BY StatementDoes
<1>2. Left(s, k) \in ListsAt(s, k)
  BY DEF ListsInv, LeftOK
<1>3. Author \in Servers /\ Reader \in Servers /\ Author # Reader /\ s \in {Author, Reader} /\ Slots = {"api", "inbox", "worker"}
  BY ServersAre DEF Servers, Slots
<1>4. CASE h = "CreatePost"
  BY <1>4, StatementNames, CreatePostTalk
<1>5. CASE h # "CreatePost"
  <2>1. h = "StoreNote" => s = Reader
    BY <1>1, Places DEF At, Left
  <2>2. post[Author] = NoPost => post'[Author] = NoPost
    BY <1>1, <1>3, <1>5, <2>1 DEF Frame, Outcome, May, MayPost
  <2>3. smooth' = smooth /\ wire'[Reader] = wire[Reader]
    BY <1>1 DEF Frame
  <2>4. s # Reader => ReaderKept
    BY <1>1, <1>3 DEF Frame, ReaderKept, Left
  <2>5. s # Author => AuthorKept /\ favourite'[Author] = favourite[Author] /\ reblog'[Author] = reblog[Author]
    BY <1>1, <1>3 DEF Frame, AuthorKept, Left
  <2>6. CASE s = Author /\ k = "inbox"
    <3>1. CASE post[Author] = NoPost
      BY <2>2, <3>1 DEF TalkInv
    <3>2. CASE post[Author] # NoPost
      <4> SUFFICES ASSUME smooth PROVE LikesAgree' /\ BoostsAgree'
        BY <2>3 DEF TalkInv
      <4>1. LikesAgree /\ BoostsAgree
        BY <3>2 DEF TalkInv
      <4>2. HearsOfBoth
        BY <2>6, <3>2, AuthorHears
      <4>3. LikesAgree'
        BY <1>3, <2>3, <2>4, <2>6, <4>1, <4>2, TheConversations, AgreesHears DEF LikesAgree,
           ReaderKept, HearsOfBoth
      <4>4. BoostsAgree'
        BY <1>3, <2>3, <2>4, <2>6, <4>1, <4>2, TheConversations, AgreesHears DEF BoostsAgree,
           ReaderKept, HearsOfBoth
      <4> QED
        BY <4>3, <4>4
    <3> QED
      BY <3>1, <3>2
  <2>7. CASE s = Author /\ k # "inbox"
    <3>1. Actor(s, k) = Author
      BY <2>7 DEF Actor
    <3>2. MayFavourite(Author, k, h, favourite'[Author]) /\ MayReblog(Author, k, h, reblog'[Author])
      BY <1>1, <2>7 DEF Outcome, May
    <3>3. AuthorKept
      BY <1>1, <1>3, <2>7, <3>1, <3>2 DEF AuthorKept, MayFavourite, MayReblog, Frame, Left
    <3> QED
      BY <1>3, <2>2, <2>3, <2>4, <2>7, <3>3, KeptTalk
  <2>8. CASE s = Reader /\ k = "api"
    <3>1. SpeaksOfBoth
      BY <2>8, ReaderSpeaks
    <3> QED
      BY <1>3, <2>2, <2>3, <2>5, <2>8, <3>1, SpokenTalk
  <2>9. CASE s = Reader /\ k # "api"
    <3>1. k = "inbox"
      BY <1>1, <1>2, <1>3, <2>9, HeadsAt
    <3>2. h \in {"CreateRemoteWrapper", "FetchNote", "StoreNote", "Notify", "GetPost", "UpdateNote", "DeletePost"}
      BY <1>1, <1>2, <2>9, <3>1, HeadsAt
    <3>3. favourite'[Reader] = favourite[Reader] /\ reblog'[Reader] = reblog[Reader] /\ jobs'[Reader] = jobs[Reader]
      BY <1>1, <2>9, <3>2 DEF Outcome, May, MayFavourite, MayReblog, MayJobs, Enqueuers
    <3>4. ReaderKept
      BY <1>1, <1>3, <2>9, <3>3 DEF ReaderKept, Frame, Left
    <3> QED
      BY <1>3, <2>2, <2>3, <2>5, <2>9, <3>4, KeptTalk
  <2> QED
    BY <1>3, <2>6, <2>7, <2>8, <2>9
<1> QED
  BY <1>4, <1>5

LEMMA CallTalk ==
  ASSUME PostsInv, ListsInv, TalkInv, NEW s \in Servers, NEW op \in Ops, Call(s, op)
  PROVE  TalkInv'
<1>1. /\ op \in DOMAIN Methods /\ (s = Author \/ op \in Interactions)
      /\ Left(s, "api") = <<>> /\ Left(s, "api")' = Methods[op]
      /\ (\A x \in Servers, l \in Slots : x # s \/ l # "api" => run'[x][l] = run[x][l])
      /\ UNCHANGED <<post, favourite, reblog, jobs, wire, smooth>>
  BY CallDoes
<1>2. Author \in Servers /\ Reader \in Servers /\ Author # Reader /\ "inbox" \in Slots /\ "api" \in Slots /\ "inbox" # "api"
  BY ServersAre
<1>3. AuthorKept
  BY <1>1, <1>2 DEF AuthorKept, Left
<1>4. CASE s # Reader
  <2>1. ReaderKept
    BY <1>1, <1>2, <1>4 DEF ReaderKept, Left
  <2> QED
    BY <1>1, <1>3, <2>1, KeptTalk
<1>5. CASE s = Reader
  <2>1. Methods[op] \in {FavouritesCreate, FavouritesDelete, ReblogsCreate, ReblogsDelete}
    <3>1. /\ Methods["favourites_create"] = FavouritesCreate /\ Methods["favourites_delete"] = FavouritesDelete
          /\ Methods["reblogs_create"] = ReblogsCreate /\ Methods["reblogs_delete"] = ReblogsDelete
      BY DEF Methods
    <3> QED
      BY <1>1, <1>2, <1>5, <3>1 DEF Interactions
  <2>2. \A c \in {Likes, Boosts} : /\ Methods[op] \notin c.said /\ Methods[op] \notin c.unsaid
                                   /\ <<>> \notin c.said /\ <<>> \notin c.unsaid
    BY <2>1, SaidLists
  <2>3. SpeaksOfBoth
    BY <1>1, <1>5, <2>2 DEF SpeaksOfBoth, Speaks
  <2> QED
    BY <1>1, <1>3, <2>3, SpokenTalk
<1> QED
  BY <1>4, <1>5

LEMMA BeginTalk ==
  ASSUME PostsInv, TalkInv, NEW s \in Servers, NEW i \in DOMAIN jobs[s], BeginDeliverPost(s, i)
  PROVE  TalkInv'
<1>1. /\ s = Author
      /\ \A x \in Servers, l \in Slots : x # s \/ l # "worker" => run'[x][l] = run[x][l]
      /\ \A x \in Servers : x # s => jobs'[x] = jobs[x]
      /\ smooth' => smooth
      /\ UNCHANGED <<post, favourite, reblog, wire>>
  BY BeginDoes
<1>2. Author \in Servers /\ Reader \in Servers /\ Author # Reader /\ "inbox" \in Slots /\ "inbox" # "worker" /\ "api" \in Slots
  BY ServersAre
<1>3. ReaderKept /\ AuthorKept
  BY <1>1, <1>2 DEF ReaderKept, AuthorKept, Left
<1> QED
  BY <1>1, <1>3, KeptTalk

LEMMA GiveUpTalk ==
  ASSUME PostsInv, TalkInv, NEW s \in Servers, NEW i \in DOMAIN jobs[s], GiveUp(s, i)
  PROVE  TalkInv'
<1>1. /\ \A x \in Servers : x # s => jobs'[x] = jobs[x]
      /\ smooth' => smooth /\ s = Author
      /\ UNCHANGED <<post, favourite, reblog, wire, run>>
  BY GiveUpDoes
<1>2. CASE smooth'
  <2>1. ReaderKept /\ AuthorKept
    BY <1>1, <1>2, ServersAre DEF ReaderKept, AuthorKept, Left
  <2> QED
    BY <1>1, <1>2, <2>1, KeptTalk
<1>3. CASE ~smooth'
  BY <1>3 DEF TalkInv
<1> QED
  BY <1>2, <1>3

LEMMA SendTalk ==
  ASSUME PostsInv, TalkInv, NEW s \in Servers, NEW i \in DOMAIN jobs[s], Send(s, i)
  PROVE  TalkInv'
<1> PICK x : x = jobs[s][i]
  OBVIOUS
<1> PICK a : a = Said(s, x)
  OBVIOUS
<1>1. /\ jobs'[s] = Without(jobs[s], i) /\ (\A z \in Servers : z # s => jobs'[z] = jobs[z] /\ wire'[z] = wire[z])
      /\ wire'[s] = wire[s] \cup {a}
      /\ smooth' => smooth /\ i = 1 /\ wire[s] = {}
      /\ UNCHANGED <<post, favourite, reblog, run>>
  BY SendDoes
<1>2. Author \in Servers /\ Reader \in Servers /\ Author # Reader
  BY ServersAre
<1>3. AuthorKept
  BY <1>1 DEF AuthorKept, Left
<1>4. CASE s # Reader
  <2>1. ReaderKept
    BY <1>1, <1>2, <1>4 DEF ReaderKept, Left
  <2> QED
    BY <1>1, <1>2, <1>3, <1>4, <2>1, KeptTalk
<1>5. CASE s = Reader
  <2> SUFFICES ASSUME smooth', post[Author] # NoPost PROVE LikesAgree' /\ BoostsAgree'
    BY <1>1 DEF TalkInv
  <2>1. LikesAgree /\ BoostsAgree /\ i = 1 /\ wire[Reader] = {} /\ wire'[Reader] = {a}
    BY <1>1, <1>5 DEF TalkInv
  <2> PICK n : n = Without(jobs[Reader], 1)
    OBVIOUS
  <2>2. jobs[Reader] \in Seq(JobTypes) /\ 1 \in DOMAIN jobs[Reader] /\ x = jobs[Reader][1] /\ jobs'[Reader] = n
    BY <1>1, <1>5, <2>1 DEF PostsInv, QueuesOK
  <2>3. Longer(jobs[Reader], x, n)
    BY <2>2, FirstTaken DEF Longer
  <2>4. a.type = x
    BY SaidIs
  <2>5. Only({a}, x)
    BY <2>4 DEF Only
  <2>6. ASSUME NEW c, Conversation(c), NEW R
        PROVE  Ends(c, n, {a}, Left(Author, "inbox"), R) <=> Ends(c, jobs[Reader], {}, Left(Author, "inbox"), R)
    BY <2>3, <2>5, <2>6, EndsLonger
  <2>7. Left(Author, "inbox")' = Left(Author, "inbox") /\ Left(Reader, "api")' = Left(Reader, "api")
    BY <1>1 DEF Left
  <2>8. Agrees(Likes, Left(Reader, "api"), favourite[Reader], n, {a}, Left(Author, "inbox"), favourite[Author])
    <3>1. Ends(Likes, n, {a}, Left(Author, "inbox"), favourite[Author])
          <=> Ends(Likes, jobs[Reader], wire[Reader], Left(Author, "inbox"), favourite[Author])
      BY <2>1, <2>6, TheConversations
    <3> QED
      BY <2>1, <3>1, SameEndsAgree, SMTT(20) DEF LikesAgree
  <2>9. Agrees(Boosts, Left(Reader, "api"), reblog[Reader], n, {a}, Left(Author, "inbox"), reblog[Author])
    <3>1. Ends(Boosts, n, {a}, Left(Author, "inbox"), reblog[Author])
          <=> Ends(Boosts, jobs[Reader], wire[Reader], Left(Author, "inbox"), reblog[Author])
      BY <2>1, <2>6, TheConversations
    <3> QED
      BY <2>1, <3>1, SameEndsAgree, SMTT(20) DEF BoostsAgree
  <2> QED
    BY <1>1, <2>1, <2>2, <2>7, <2>8, <2>9 DEF LikesAgree, BoostsAgree
<1> QED
  BY <1>4, <1>5

LEMMA ReceiveTalk ==
  ASSUME PostsInv, TalkInv, Single, NEW s \in Servers, NEW a \in wire[s], Receive(s, a)
  PROVE  TalkInv'
<1> PICK t : t = Other(s)
  OBVIOUS
<1>1. /\ t \in Servers /\ t # s /\ a.type \in Jobs(s) \cap Activities
      /\ Left(t, "inbox") = <<>> /\ Left(t, "inbox")' = Inbox(t)[a.type]
      /\ \A x \in Servers, l \in Slots : x # t \/ l # "inbox" => run'[x][l] = run[x][l]
      /\ wire'[s] = wire[s] \ {a} /\ jobs'[s] \in {jobs[s], <<a.type>> \o jobs[s]}
      /\ wire'[t] = wire[t] /\ jobs'[t] = jobs[t]
      /\ UNCHANGED <<post, favourite, reblog, smooth>>
  BY ReceiveDoes
<1>2. Author \in Servers /\ Reader \in Servers /\ Author # Reader /\ s \in {Author, Reader} /\ t \in {Author, Reader}
      /\ "inbox" \in Slots /\ "api" \in Slots /\ "inbox" # "api"
  BY <1>1, ServersAre
<1>3. CASE s = Author
  <2>1. ReaderKept /\ AuthorKept /\ wire'[Reader] = wire[Reader]
    BY <1>1, <1>2, <1>3 DEF ReaderKept, AuthorKept, Left
  <2> QED
    BY <1>1, <2>1, KeptTalk
<1>4. CASE s = Reader
  <2> SUFFICES ASSUME smooth, post[Author] # NoPost PROVE LikesAgree' /\ BoostsAgree'
    BY <1>1 DEF TalkInv
  <2>1. LikesAgree /\ BoostsAgree
    BY DEF TalkInv
  <2>2. wire[Reader] = {a} /\ wire'[Reader] = {}
    BY <1>1, <1>4 DEF Single
  <2>3. Only({a}, a.type)
    BY DEF Only
  <2>4. a.type \in Answers /\ t = Author
    BY <1>1, <1>2, <1>4, TidingsAre
  <2> PICK u : u = Inbox(Author)[a.type]
    OBVIOUS
  <2>5. Left(Author, "inbox") = <<>> /\ Left(Author, "inbox")' = u /\ Left(Reader, "api")' = Left(Reader, "api")
    BY <1>1, <1>2, <2>4 DEF Left
  <2>6. ASSUME NEW c \in {Likes, Boosts}
        PROVE  /\ <<>> \notin c.taken \cup c.withdrawn
               /\ a.type = c.on => u \in c.taken
               /\ a.type = c.off => u \in c.withdrawn
               /\ a.type \notin {c.on, c.off} => u \notin c.taken \cup c.withdrawn
    <3>1. \/ a.type = "Like" /\ u = InboxLike
          \/ a.type = "UndoLike" /\ u = InboxUndoLike
          \/ a.type = "Announce" /\ u = Boost1
          \/ a.type = "UndoAnnounce" /\ u = UndoBoost1
      BY <2>4, InboxLists DEF Answers
    <3>2. CASE c = Likes
      BY <3>1, <3>2, TakenLists, ConversationsAre
    <3>3. CASE c = Boosts
      BY <3>1, <3>3, TakenLists, ConversationsAre
    <3> QED
      BY <3>2, <3>3
  <2>7. ASSUME NEW c \in {Likes, Boosts}, NEW R
        PROVE  Ends(c, jobs'[Reader], {}, u, R) <=> Ends(c, jobs[Reader], {a}, <<>>, R)
    <3>1. Conversation(c)
      BY TheConversations
    <3> PICK W : W = {a}
      OBVIOUS
    <3> PICK x : x = a.type
      OBVIOUS
    <3> PICK e : e = <<>>
      OBVIOUS
    <3>w. /\ Only(W, x)
          /\ e \notin c.taken \cup c.withdrawn
          /\ x = c.on => u \in c.taken
          /\ x = c.off => u \in c.withdrawn
          /\ x \notin {c.on, c.off} => u \notin c.taken \cup c.withdrawn
      BY <2>3, <2>6
    <3>2. CASE jobs'[Reader] = jobs[Reader]
      <4>1. Ends(c, jobs[Reader], {}, u, R) <=> Ends(c, jobs[Reader], W, e, R)
        BY <3>1, <3>w, EndsArrived
      <4> QED
        BY <3>2, <4>1
    <3>3. CASE jobs'[Reader] # jobs[Reader]
      <4> PICK n : n = <<a.type>> \o jobs[Reader]
        OBVIOUS
      <4>1. jobs'[Reader] = n
        BY <1>1, <1>4, <3>3
      <4>2. jobs[Reader] \in Seq(Answers)
        BY <1>2, TidingsAre DEF PostsInv, QueuesOK
      <4>3. Longer(n, x, jobs[Reader])
        BY <2>4, <4>2, Prepended DEF Longer
      <4>4. Ends(c, n, {}, u, R) <=> Ends(c, jobs[Reader], W, e, R)
        BY <3>1, <3>w, <4>3, EndsArrivedTwice
      <4> QED
        BY <4>1, <4>4
    <3> QED
      BY <3>2, <3>3
  <2>8. Agrees(Likes, Left(Reader, "api"), favourite[Reader], jobs'[Reader], {}, u, favourite[Author])
    <3>1. Ends(Likes, jobs'[Reader], {}, u, favourite[Author])
          <=> Ends(Likes, jobs[Reader], wire[Reader], Left(Author, "inbox"), favourite[Author])
      BY <2>2, <2>5, <2>7
    <3> QED
      BY <2>1, <3>1, SameEndsAgree, SMTT(20) DEF LikesAgree
  <2>9. Agrees(Boosts, Left(Reader, "api"), reblog[Reader], jobs'[Reader], {}, u, reblog[Author])
    <3>1. Ends(Boosts, jobs'[Reader], {}, u, reblog[Author])
          <=> Ends(Boosts, jobs[Reader], wire[Reader], Left(Author, "inbox"), reblog[Author])
      BY <2>2, <2>5, <2>7
    <3> QED
      BY <2>1, <3>1, SameEndsAgree, SMTT(20) DEF BoostsAgree
  <2> QED
    BY <1>1, <2>2, <2>5, <2>8, <2>9 DEF LikesAgree, BoostsAgree
<1> QED
  BY <1>2, <1>3, <1>4

LEMMA InitTalk == Init => TalkInv /\ Single
<1> SUFFICES ASSUME Init PROVE TalkInv /\ Single
  OBVIOUS
<1>1. Author \in Servers /\ Reader \in Servers /\ "inbox" \in Slots /\ "api" \in Slots
  BY ServersAre
<1>2. /\ Left(Reader, "api") = <<>> /\ Left(Author, "inbox") = <<>> /\ jobs[Reader] = <<>>
      /\ \A s \in Servers : wire[s] = {}
      /\ Reader \in favourite[Reader] <=> Reader \in favourite[Author]
      /\ Reader \in reblog[Reader] <=> Reader \in reblog[Author]
  BY <1>1, InitIs
<1> PICK H : H = favourite[Reader]
  OBVIOUS
<1> PICK R : R = favourite[Author]
  OBVIOUS
<1> PICK G : G = reblog[Reader]
  OBVIOUS
<1> PICK Q : Q = reblog[Author]
  OBVIOUS
<1>n. Agrees(Likes, <<>>, H, <<>>, {}, <<>>, R) /\ Agrees(Boosts, <<>>, G, <<>>, {}, <<>>, Q)
  BY <1>2, NothingAgrees
<1>3. LikesAgree /\ BoostsAgree
  BY <1>1, <1>2, <1>n DEF LikesAgree, BoostsAgree
<1> QED
  BY <1>2, <1>3 DEF TalkInv, Single

LEMMA NextSingle ==
  ASSUME PostsInv, Single, Next
  PROVE  Single'
<1>1. PICK s \in Servers :
        \/ \E k \in Slots : Statement(s, k)
        \/ \E op \in Ops : Call(s, op)
        \/ \E i \in DOMAIN jobs[s] : BeginDeliverPost(s, i) \/ Send(s, i) \/ GiveUp(s, i)
        \/ \E a \in wire[s] : Receive(s, a)
  BY DEF Next
<1>2. ASSUME smooth' => smooth, \A x \in Servers : wire'[x] \subseteq wire[x] PROVE Single'
  BY <1>2 DEF Single
<1>3. ASSUME NEW k \in Slots, Statement(s, k) PROVE Single'
  <2>1. Frame(s, k)
    BY <1>3, StatementDoes
  <2> QED
    BY <1>2, <2>1 DEF Frame
<1>4. ASSUME NEW op \in Ops, Call(s, op) PROVE Single'
  BY <1>2, <1>4, CallDoes
<1>5. ASSUME NEW i \in DOMAIN jobs[s], BeginDeliverPost(s, i) PROVE Single'
  BY <1>2, <1>5, BeginDoes
<1>6. ASSUME NEW i \in DOMAIN jobs[s], GiveUp(s, i) PROVE Single'
  BY <1>2, <1>6, GiveUpDoes
<1>7. ASSUME NEW i \in DOMAIN jobs[s], Send(s, i) PROVE Single'
  <2> PICK a : a = Said(s, jobs[s][i])
    OBVIOUS
  <2>1. /\ \A x \in Servers : x # s => wire'[x] = wire[x]
        /\ wire'[s] = wire[s] \cup {a} /\ (smooth' => smooth /\ wire[s] = {})
    BY <1>7, SendDoes
  <2> QED
    BY <2>1 DEF Single
<1>8. ASSUME NEW a \in wire[s], Receive(s, a) PROVE Single'
  <2> PICK t : t = Other(s)
    OBVIOUS
  <2>1. /\ t \in Servers /\ t # s /\ wire'[s] = wire[s] \ {a} /\ wire'[t] = wire[t] /\ smooth' = smooth
    BY <1>8, ReceiveDoes
  <2>2. \A x \in Servers : x = s \/ x = t
    BY <2>1, ServersAre
  <2> QED
    BY <1>2, <2>1, <2>2
<1> QED
  BY <1>1, <1>3, <1>4, <1>5, <1>6, <1>7, <1>8

LEMMA TalkInvariant == Spec => [](TalkInv /\ Single)
<1>1. TalkInv /\ Single /\ PostsInv /\ ListsInv /\ [Next]_vars => (TalkInv /\ Single)'
  <2> SUFFICES ASSUME TalkInv, Single, PostsInv, ListsInv, [Next]_vars PROVE (TalkInv /\ Single)'
    OBVIOUS
  <2>1. CASE UNCHANGED vars
    BY <2>1 DEF vars, rows, history, TalkInv, Single, LikesAgree, BoostsAgree, Left
  <2>2. CASE Next
    <3>1. Single'
      BY <2>2, NextSingle
    <3>2. TalkInv'
      BY <2>2, StatementTalk, CallTalk, BeginTalk, SendTalk, GiveUpTalk, ReceiveTalk DEF Next
    <3> QED
      BY <3>1, <3>2
  <2> QED
    BY <2>1, <2>2
<1> QED
  BY <1>1, InitTalk, ListsInvariant, PostsInvariant, PTL DEF Spec

\* InteractionsSettle: when the deliveries were in order, and all is quiet, the
\* author's page counts who says on a page of theirs that they favourited or
\* reblogged the post.
THEOREM InteractionsAreSettled == Spec => []InteractionsSettle
<1>1. TalkInv /\ PostsInv /\ ListsInv => InteractionsSettle
  <2> SUFFICES ASSUME TalkInv, PostsInv, ListsInv, smooth, Quiet, post[Author] # NoPost
               PROVE  LET page == [s \in Servers |-> EnrichPostJSON(s)] IN
                      /\ page[Author].favouritesCount = Cardinality({s \in Servers : page[s].favourited})
                      /\ page[Author].reblogsCount = Cardinality({s \in Servers : page[s].reblogged})
    BY DEF InteractionsSettle
  <2> PICK page : page = [s \in Servers |-> EnrichPostJSON(s)]
    OBVIOUS
  <2>1. Author \in Servers /\ Reader \in Servers /\ \A s \in Servers : s \in {Author, Reader}
    BY ServersAre
  <2>2. Left(Reader, "api") = <<>> /\ Left(Author, "inbox") = <<>> /\ jobs[Reader] = <<>> /\ wire[Reader] = {}
    BY <2>1, ServersAre, IdleOK DEF Quiet, Left
  <2>3. LikesAgree /\ BoostsAgree
    BY DEF TalkInv
  <2>4. /\ Reader \in favourite[Reader] <=> Reader \in favourite[Author]
        /\ Reader \in reblog[Reader] <=> Reader \in reblog[Author]
    BY <2>2, <2>3, NothingAgrees DEF LikesAgree, BoostsAgree
  <2>5. \A s \in Servers : page[s].favourited <=> s \in favourite[s]
    BY DEF EnrichPostJSON
  <2>6. \A s \in Servers : page[s].reblogged <=> s \in reblog[s]
    BY DEF EnrichPostJSON
  <2>7. page[Author].favouritesCount = Cardinality(favourite[Author]) /\ page[Author].reblogsCount = Cardinality(reblog[Author])
    BY <2>1 DEF EnrichPostJSON
  <2>8. favourite[Author] \subseteq Servers /\ reblog[Author] \subseteq Servers
        /\ Author \notin favourite[Reader] /\ Author \notin reblog[Reader]
    BY <2>1 DEF PostsInv, RowsOK, ListsInv, TalkOK
  <2>9. favourite[Author] = {s \in Servers : s \in favourite[s]} /\ reblog[Author] = {s \in Servers : s \in reblog[s]}
    BY <2>1, <2>4, <2>8
  <2>10. /\ {s \in Servers : page[s].favourited} = {s \in Servers : s \in favourite[s]}
         /\ {s \in Servers : page[s].reblogged} = {s \in Servers : s \in reblog[s]}
    BY <2>5, <2>6
  <2>11. /\ page[Author].favouritesCount = Cardinality({s \in Servers : page[s].favourited})
         /\ page[Author].reblogsCount = Cardinality({s \in Servers : page[s].reblogged})
    BY <2>7, <2>9, <2>10
  <2> QED
    BY <2>11
<1> QED
  BY <1>1, TalkInvariant, ListsInvariant, PostsInvariant, PTL

-----------------------------------------------------------------------------
(* The copy of the reader.  What is left of the requests that write it, and *)
(* what is on its way to it.                                                *)

Api == Left(Author, "api")
Worker == Left(Author, "worker")
Box == Left(Reader, "inbox")

Postings == {PostsCreate, Posting2, Posting3}
Deletings == {Deleting4, Deleting5}
Updatings == {InboxUpdate, Update2}
Removings == {InboxDelete, Delete2}

Waits(j, x) == \E i \in 1..Len(j) : j[i] = x

\* deliver_post is the first of the jobs, if it is one.
First(j) == \A i \in 1..Len(j) : j[i] = "deliver_post" => i = 1

\* Where the requests of the author stand.
LEMMA PostListsAre ==
  /\ PostsCreate \in Postings /\ PostsCreate # Editing2 /\ PostsCreate # Editing3 /\ PostsCreate \notin Deletings
  /\ Posting2 \in Postings /\ Posting2 # Editing2 /\ Posting2 # Editing3 /\ Posting2 \notin Deletings
  /\ Posting3 \in Postings /\ Posting3 # Editing2 /\ Posting3 # Editing3 /\ Posting3 \notin Deletings
  /\ PostsUpdate \notin Postings /\ PostsUpdate # Editing2 /\ PostsUpdate # Editing3 /\ PostsUpdate \notin Deletings
  /\ Editing2 \notin Postings /\ Editing2 # Editing3 /\ Editing2 \notin Deletings
  /\ Editing3 \notin Postings /\ Editing3 # Editing2 /\ Editing3 \notin Deletings
  /\ PostsDelete \notin Postings /\ PostsDelete # Editing2 /\ PostsDelete # Editing3 /\ PostsDelete \notin Deletings
  /\ Deleting2 \notin Postings /\ Deleting2 # Editing2 /\ Deleting2 # Editing3 /\ Deleting2 \notin Deletings
  /\ Deleting3 \notin Postings /\ Deleting3 # Editing2 /\ Deleting3 # Editing3 /\ Deleting3 \notin Deletings
  /\ Deleting4 \notin Postings /\ Deleting4 # Editing2 /\ Deleting4 # Editing3 /\ Deleting4 \in Deletings
  /\ Deleting5 \notin Postings /\ Deleting5 # Editing2 /\ Deleting5 # Editing3 /\ Deleting5 \in Deletings
  /\ PostsPin \notin Postings /\ PostsPin # Editing2 /\ PostsPin # Editing3 /\ PostsPin \notin Deletings
  /\ Pinning2 \notin Postings /\ Pinning2 # Editing2 /\ Pinning2 # Editing3 /\ Pinning2 \notin Deletings
  /\ PostsUnpin \notin Postings /\ PostsUnpin # Editing2 /\ PostsUnpin # Editing3 /\ PostsUnpin \notin Deletings
  /\ <<>> \notin Postings /\ <<>> # Editing2 /\ <<>> # Editing3 /\ <<>> \notin Deletings
<1> USE PostingListsAre, EditingListsAre, DeletingListsAre, PinningListsAre, UnpinningListsAre
<1>0. /\ PostsCreate # <<>>
      /\ Posting2 # <<>>
      /\ Posting3 # <<>>
      /\ PostsUpdate # <<>>
      /\ Editing2 # <<>>
      /\ Editing3 # <<>>
      /\ PostsDelete # <<>>
      /\ Deleting2 # <<>>
      /\ Deleting3 # <<>>
      /\ Deleting4 # <<>>
      /\ Deleting5 # <<>>
      /\ PostsPin # <<>>
      /\ Pinning2 # <<>>
      /\ PostsUnpin # <<>>
  OBVIOUS
<1>1. PostsCreate \in Postings /\ PostsCreate # Editing2 /\ PostsCreate # Editing3 /\ PostsCreate \notin Deletings
  BY <1>0
     DEF Postings, Deletings
<1>2. Posting2 \in Postings /\ Posting2 # Editing2 /\ Posting2 # Editing3 /\ Posting2 \notin Deletings
  BY <1>0
     DEF Postings, Deletings
<1>3. Posting3 \in Postings /\ Posting3 # Editing2 /\ Posting3 # Editing3 /\ Posting3 \notin Deletings
  BY <1>0
     DEF Postings, Deletings
<1>4. PostsUpdate \notin Postings /\ PostsUpdate # Editing2 /\ PostsUpdate # Editing3 /\ PostsUpdate \notin Deletings
  BY <1>0
     DEF Postings, Deletings
<1>5. Editing2 \notin Postings /\ Editing2 # Editing3 /\ Editing2 \notin Deletings
  BY <1>0
     DEF Postings, Deletings
<1>6. Editing3 \notin Postings /\ Editing3 # Editing2 /\ Editing3 \notin Deletings
  BY <1>0
     DEF Postings, Deletings
<1>7. PostsDelete \notin Postings /\ PostsDelete # Editing2 /\ PostsDelete # Editing3 /\ PostsDelete \notin Deletings
  BY <1>0
     DEF Postings, Deletings
<1>8. Deleting2 \notin Postings /\ Deleting2 # Editing2 /\ Deleting2 # Editing3 /\ Deleting2 \notin Deletings
  BY <1>0
     DEF Postings, Deletings
<1>9. Deleting3 \notin Postings /\ Deleting3 # Editing2 /\ Deleting3 # Editing3 /\ Deleting3 \notin Deletings
  BY <1>0
     DEF Postings, Deletings
<1>10. Deleting4 \notin Postings /\ Deleting4 # Editing2 /\ Deleting4 # Editing3 /\ Deleting4 \in Deletings
  BY <1>0
     DEF Postings, Deletings
<1>11. Deleting5 \notin Postings /\ Deleting5 # Editing2 /\ Deleting5 # Editing3 /\ Deleting5 \in Deletings
  BY <1>0
     DEF Postings, Deletings
<1>12. PostsPin \notin Postings /\ PostsPin # Editing2 /\ PostsPin # Editing3 /\ PostsPin \notin Deletings
  BY <1>0
     DEF Postings, Deletings
<1>13. Pinning2 \notin Postings /\ Pinning2 # Editing2 /\ Pinning2 # Editing3 /\ Pinning2 \notin Deletings
  BY <1>0
     DEF Postings, Deletings
<1>14. PostsUnpin \notin Postings /\ PostsUnpin # Editing2 /\ PostsUnpin # Editing3 /\ PostsUnpin \notin Deletings
  BY <1>0
     DEF Postings, Deletings
<1>15. <<>> \notin Postings /\ <<>> # Editing2 /\ <<>> # Editing3 /\ <<>> \notin Deletings
  BY <1>0
     DEF Postings, Deletings
<1> QED
  BY <1>1, <1>2, <1>3, <1>4, <1>5, <1>6, <1>7, <1>8, <1>9, <1>10, <1>11, <1>12, <1>13, <1>14, <1>15

LEMMA InteractionListsAre ==
  ASSUME NEW t \in InteractionLists
  PROVE  t \notin Postings /\ t # Editing2 /\ t # Editing3 /\ t \notin Deletings
<1>1. CASE t = FavouritesCreate
  BY <1>1, LikingListsAre, PostingListsAre, EditingListsAre, DeletingListsAre DEF Postings, Deletings
<1>2. CASE t = Liking2
  BY <1>2, LikingListsAre, PostingListsAre, EditingListsAre, DeletingListsAre DEF Postings, Deletings
<1>3. CASE t = Liking3
  BY <1>3, LikingListsAre, PostingListsAre, EditingListsAre, DeletingListsAre DEF Postings, Deletings
<1>4. CASE t = FavouritesDelete
  BY <1>4, UnlikingListsAre, PostingListsAre, EditingListsAre, DeletingListsAre DEF Postings, Deletings
<1>5. CASE t = Unliking2
  BY <1>5, UnlikingListsAre, PostingListsAre, EditingListsAre, DeletingListsAre DEF Postings, Deletings
<1>6. CASE t = Unliking3
  BY <1>6, UnlikingListsAre, PostingListsAre, EditingListsAre, DeletingListsAre DEF Postings, Deletings
<1>7. CASE t = ReblogsCreate
  BY <1>7, BoostingListsAre, PostingListsAre, EditingListsAre, DeletingListsAre DEF Postings, Deletings
<1>8. CASE t = Boosting2
  BY <1>8, BoostingListsAre, PostingListsAre, EditingListsAre, DeletingListsAre DEF Postings, Deletings
<1>9. CASE t = Boosting3
  BY <1>9, BoostingListsAre, PostingListsAre, EditingListsAre, DeletingListsAre DEF Postings, Deletings
<1>10. CASE t = Boosting4
  BY <1>10, BoostingListsAre, PostingListsAre, EditingListsAre, DeletingListsAre DEF Postings, Deletings
<1>11. CASE t = Boosting5
  BY <1>11, BoostingListsAre, PostingListsAre, EditingListsAre, DeletingListsAre DEF Postings, Deletings
<1>12. CASE t = ReblogsDelete
  BY <1>12, UnboostingListsAre, PostingListsAre, EditingListsAre, DeletingListsAre DEF Postings, Deletings
<1>13. CASE t = Unboosting2
  BY <1>13, UnboostingListsAre, PostingListsAre, EditingListsAre, DeletingListsAre DEF Postings, Deletings
<1>14. CASE t = Unboosting3
  BY <1>14, UnboostingListsAre, PostingListsAre, EditingListsAre, DeletingListsAre DEF Postings, Deletings
<1>15. CASE t = Unboosting4
  BY <1>15, UnboostingListsAre, PostingListsAre, EditingListsAre, DeletingListsAre DEF Postings, Deletings
<1>16. CASE t = Unboosting5
  BY <1>16, UnboostingListsAre, PostingListsAre, EditingListsAre, DeletingListsAre DEF Postings, Deletings
<1>17. CASE t = <<>>
  BY <1>17, PostListsAre
<1> QED
  BY <1>1, <1>2, <1>3, <1>4, <1>5, <1>6, <1>7, <1>8, <1>9, <1>10, <1>11, <1>12, <1>13, <1>14, <1>15,
     <1>16, <1>17 DEF InteractionLists

\* Those in the inbox of the reader.
LEMMA NoteListsAre ==
  /\ Repeat1 # InboxCreate /\ Repeat1 # Notifying /\ Repeat1 \notin Updatings /\ Repeat1 \notin Removings
  /\ Fetch1 # InboxCreate /\ Fetch1 # Notifying /\ Fetch1 \notin Updatings /\ Fetch1 \notin Removings
  /\ InboxCreate # Notifying /\ InboxCreate \notin Updatings /\ InboxCreate \notin Removings
  /\ Notifying # InboxCreate /\ Notifying \notin Updatings /\ Notifying \notin Removings
  /\ InboxUpdate # InboxCreate /\ InboxUpdate # Notifying /\ InboxUpdate \in Updatings /\ InboxUpdate \notin Removings
  /\ Update2 # InboxCreate /\ Update2 # Notifying /\ Update2 \in Updatings /\ Update2 \notin Removings
  /\ InboxDelete # InboxCreate /\ InboxDelete # Notifying /\ InboxDelete \notin Updatings /\ InboxDelete \in Removings
  /\ Delete2 # InboxCreate /\ Delete2 # Notifying /\ Delete2 \notin Updatings /\ Delete2 \in Removings
  /\ <<>> # InboxCreate /\ <<>> # Notifying /\ <<>> \notin Updatings /\ <<>> \notin Removings
<1> USE RepeatListsAre, FetchListsAre, UpdateListsAre, DeleteListsAre
<1>0. /\ Repeat1 # <<>>
      /\ Fetch1 # <<>>
      /\ InboxCreate # <<>>
      /\ Notifying # <<>>
      /\ InboxUpdate # <<>>
      /\ Update2 # <<>>
      /\ InboxDelete # <<>>
      /\ Delete2 # <<>>
  OBVIOUS
<1>1. Repeat1 # InboxCreate /\ Repeat1 # Notifying /\ Repeat1 \notin Updatings /\ Repeat1 \notin Removings
  BY <1>0 DEF Updatings, Removings
<1>2. Fetch1 # InboxCreate /\ Fetch1 # Notifying /\ Fetch1 \notin Updatings /\ Fetch1 \notin Removings
  BY <1>0 DEF Updatings, Removings
<1>3. InboxCreate # Notifying /\ InboxCreate \notin Updatings /\ InboxCreate \notin Removings
  BY <1>0 DEF Updatings, Removings
<1>4. Notifying # InboxCreate /\ Notifying \notin Updatings /\ Notifying \notin Removings
  BY <1>0 DEF Updatings, Removings
<1>5. InboxUpdate # InboxCreate /\ InboxUpdate # Notifying /\ InboxUpdate \in Updatings /\ InboxUpdate \notin Removings
  BY <1>0 DEF Updatings, Removings
<1>6. Update2 # InboxCreate /\ Update2 # Notifying /\ Update2 \in Updatings /\ Update2 \notin Removings
  BY <1>0 DEF Updatings, Removings
<1>7. InboxDelete # InboxCreate /\ InboxDelete # Notifying /\ InboxDelete \notin Updatings /\ InboxDelete \in Removings
  BY <1>0 DEF Updatings, Removings
<1>8. Delete2 # InboxCreate /\ Delete2 # Notifying /\ Delete2 \notin Updatings /\ Delete2 \in Removings
  BY <1>0 DEF Updatings, Removings
<1>9. <<>> # InboxCreate /\ <<>> # Notifying /\ <<>> \notin Updatings /\ <<>> \notin Removings
  BY <1>0 DEF Updatings, Removings
<1> QED
  BY <1>1, <1>2, <1>3, <1>4, <1>5, <1>6, <1>7, <1>8, <1>9

\* And the job of the author.
LEMMA DeliverListsAre ==
  /\ DeliverPost # Deliver2 /\ DeliverPost # Deliver3 /\ DeliverPost # Deliver4
  /\ Deliver2 # DeliverPost /\ Deliver2 # Deliver3 /\ Deliver2 # Deliver4
  /\ Deliver3 # DeliverPost /\ Deliver3 # Deliver2 /\ Deliver3 # Deliver4
  /\ Deliver4 # DeliverPost /\ Deliver4 # Deliver2 /\ Deliver4 # Deliver3
  /\ <<>> # DeliverPost /\ <<>> # Deliver2 /\ <<>> # Deliver3 /\ <<>> # Deliver4
<1>0. /\ DeliverPost # <<>>
      /\ Deliver2 # <<>>
      /\ Deliver3 # <<>>
      /\ Deliver4 # <<>>
  BY DeliveringListsAre
<1>1. DeliverPost # Deliver2 /\ DeliverPost # Deliver3 /\ DeliverPost # Deliver4
  BY <1>0, DeliveringListsAre
<1>2. Deliver2 # DeliverPost /\ Deliver2 # Deliver3 /\ Deliver2 # Deliver4
  BY <1>0, DeliveringListsAre
<1>3. Deliver3 # DeliverPost /\ Deliver3 # Deliver2 /\ Deliver3 # Deliver4
  BY <1>0, DeliveringListsAre
<1>4. Deliver4 # DeliverPost /\ Deliver4 # Deliver2 /\ Deliver4 # Deliver3
  BY <1>0, DeliveringListsAre
<1>5. <<>> # DeliverPost /\ <<>> # Deliver2 /\ <<>> # Deliver3 /\ <<>> # Deliver4
  BY <1>0, DeliveringListsAre
<1> QED
  BY <1>1, <1>2, <1>3, <1>4, <1>5

\* What the requests have read and are to write.
ApiRead == run[Author]["api"].read
ApiNew == run[Author]["api"].new
WorkerRead == run[Author]["worker"].read
BoxNew == run[Reader]["inbox"].new

Undelivered == Api \in Postings \/ Waits(jobs[Author], "deliver_post") \/ Worker # <<>>

\* The post is delivered once, before anything else is said of it.
OnceInv == smooth =>
  /\ Api \in Postings => (\A x : ~Waits(jobs[Author], x)) /\ Worker = <<>>
  /\ First(jobs[Author])
  /\ Waits(jobs[Author], "deliver_post") => Worker = <<>>
  /\ Undelivered => wire[Author] = {} /\ Box = <<>> /\ post[Reader] = NoPost

\* The mention is stored when the job that tells of it is in the queue.
ResolvedInv == smooth =>
  /\ Worker = Deliver3 /\ post[Author] # NoPost => Waits(jobs[Author], "Create")
  /\ Worker = Deliver4 /\ WorkerRead.mentions /\ post[Author] # NoPost => Waits(jobs[Author], "Create")
  /\ Api \in Postings \/ Waits(jobs[Author], "deliver_post") \/ Worker \in {DeliverPost, Deliver2, Deliver3} =>
       /\ ~post[Author].mentions
       /\ Api = Editing2 => ~ApiRead.mentions
       /\ Api = PostsCreate => ~ApiNew.mentions
       /\ Worker = Deliver2 => ~WorkerRead.mentions

\* The reader is told of the mention before, or by the copy that is stored.
MentionInv == smooth /\ post[Author].mentions /\ post[Author].text = 0 =>
  /\ \/ "mention" \in notice[Reader]
     \/ Waits(jobs[Author], "Create")
     \/ \E a \in wire[Author] : a.type = "Create" /\ a.mentions
     \/ Box \in {InboxCreate, Notifying} /\ BoxNew.mentions
  /\ post[Reader] # NoPost => "mention" \in notice[Reader] \/ (Box = Notifying /\ BoxNew.mentions)
  /\ \A a \in wire[Author] : a.type = "Create" => a.mentions
  /\ Box = InboxCreate => BoxNew.mentions

\* A post that is there has its copy, or one is on its way, and no deletion is.
ThereInv == smooth /\ post[Author] # NoPost =>
  /\ \/ post[Reader] # NoPost \/ Box = InboxCreate \/ Tells(wire[Author], "Create")
     \/ Waits(jobs[Author], "Create") \/ Undelivered
  /\ ~Waits(jobs[Author], "Delete") /\ ~Tells(wire[Author], "Delete") /\ Box \notin Removings
  /\ Api \notin Deletings

\* Unless an Update is still to be said, whatever is on its way, and the copy if
\* nothing is, has the author's text.
TextInv ==
  smooth /\ post[Author] # NoPost /\ Api # Editing3 /\ ~Waits(jobs[Author], "Update") =>
    /\ \A a \in wire[Author] : a.type \in {"Create", "Update"} => a.text = post[Author].text
    /\ \/ Tells(wire[Author], "Update")
       \/ /\ Box \in Updatings \cup {InboxCreate} => BoxNew.text = post[Author].text
          /\ Box \notin Updatings /\ post[Reader] # NoPost => post[Reader].text = post[Author].text

\* Of a post that is gone the copy is gone, or its deletion is on its way or was
\* refused.
GoneInv == smooth /\ post[Author] = NoPost /\ created =>
  \/ refused \/ Api \in Deletings \/ Waits(jobs[Author], "Delete") \/ Tells(wire[Author], "Delete")
  \/ /\ ~Tells(wire[Author], "Create")
     /\ Box \in Removings \/ (Box # InboxCreate /\ post[Reader] = NoPost)

-----------------------------------------------------------------------------
(* The steps, as far as the post and its copy go.                           *)

\* The job x is added to those of the author; added again, before the others;
\* taken from the beginning; or given up.
Adds(x) ==
  /\ \A y : Waits(jobs'[Author], y) <=> Waits(jobs[Author], y) \/ y = x
  /\ First(jobs[Author]) /\ (x = "deliver_post" => \A y : ~Waits(jobs[Author], y)) => First(jobs'[Author])

Repeats(x) ==
  /\ \A y : Waits(jobs'[Author], y) <=> Waits(jobs[Author], y) \/ y = x
  /\ First(jobs[Author]) /\ ~Waits(jobs[Author], "deliver_post") /\ x # "deliver_post" => First(jobs'[Author])

Takes(x) ==
  /\ \A y : Waits(jobs[Author], y) <=> Waits(jobs'[Author], y) \/ y = x
  /\ First(jobs[Author]) => First(jobs'[Author]) /\ ~Waits(jobs'[Author], "deliver_post")

Drops(x) ==
  /\ \A y : Waits(jobs'[Author], y) => Waits(jobs[Author], y)
  /\ \A y : y # x /\ Waits(jobs[Author], y) => Waits(jobs'[Author], y)
  /\ First(jobs[Author]) => First(jobs'[Author])

PostKept == post'[Author] = post[Author]
CopyKept == post'[Reader] = post[Reader]
NoticeKept == notice'[Reader] = notice[Reader]
JobsKept == jobs'[Author] = jobs[Author]
WireKept == wire'[Author] = wire[Author]
ApiKept == Api' = Api /\ ApiRead' = ApiRead /\ ApiNew' = ApiNew
WorkerKept == Worker' = Worker /\ WorkerRead' = WorkerRead
BoxKept == Box' = Box /\ BoxNew' = BoxNew
PastKept == created' = created /\ (refused => refused') /\ (smooth' => smooth)

Untouched ==
  /\ PostKept /\ CopyKept /\ NoticeKept /\ JobsKept /\ WireKept /\ ApiKept /\ WorkerKept /\ BoxKept /\ PastKept

\* Steps of an API request of the author.
KeptByApi == CopyKept /\ NoticeKept /\ WireKept /\ WorkerKept /\ BoxKept

ApiCreates ==
  /\ Api = PostsCreate /\ Api' = Posting2
  /\ post'[Author] # NoPost /\ (post'[Author].mentions => ApiNew.mentions)
  /\ JobsKept /\ KeptByApi /\ (smooth' => smooth)

ApiRefreshes == Api = Posting2 /\ Api' = Posting3 /\ PostKept /\ JobsKept /\ KeptByApi /\ PastKept

ApiDelivers == Api = Posting3 /\ Api' = <<>> /\ PostKept /\ Adds("deliver_post") /\ KeptByApi /\ PastKept

ApiReads ==
  /\ Api = PostsUpdate /\ Api' = Editing2 /\ (ApiRead'.mentions => post[Author].mentions)
  /\ PostKept /\ JobsKept /\ KeptByApi /\ PastKept

ApiEdits ==
  /\ Api = Editing2 /\ Api' = Editing3
  /\ post[Author] = NoPost => post'[Author] = NoPost
  /\ post[Author] # NoPost => post'[Author] # NoPost
  /\ post'[Author].mentions => ApiRead.mentions /\ post'[Author].text # 0
  /\ JobsKept /\ KeptByApi /\ PastKept

ApiTellsEdit == Api = Editing3 /\ Api' = <<>> /\ PostKept /\ Adds("Update") /\ KeptByApi /\ PastKept

ApiDeletes ==
  /\ Api = Deleting3 /\ Api' = Deleting4 /\ post'[Author] = NoPost
  /\ JobsKept /\ KeptByApi /\ PastKept

ApiGoesOnDeleting == Api = Deleting4 /\ Api' = Deleting5 /\ PostKept /\ JobsKept /\ KeptByApi /\ PastKept

ApiTellsDeletion == Api = Deleting5 /\ Api' = <<>> /\ PostKept /\ Adds("Delete") /\ KeptByApi /\ PastKept

\* Any other.
ApiElse ==
  /\ Api \notin Postings /\ Api # Editing3 /\ Api \notin Deletings
  /\ Api' \notin Postings /\ Api' # Editing2 /\ Api' # Editing3 /\ Api' \notin Deletings
  /\ JobsKept \/ Adds("Announce") \/ Adds("UndoAnnounce")
  /\ PostKept /\ KeptByApi /\ PastKept

\* Steps of the job of the author.
KeptByWorker == CopyKept /\ NoticeKept /\ WireKept /\ ApiKept /\ BoxKept /\ PastKept

WorkerReads ==
  /\ Worker = DeliverPost /\ Worker' = Deliver2 /\ (WorkerRead'.mentions => post[Author].mentions)
  /\ PostKept /\ JobsKept /\ KeptByWorker

WorkerEnds == Worker = DeliverPost /\ Worker' = <<>> /\ post[Author] = NoPost /\ PostKept /\ JobsKept /\ KeptByWorker

WorkerTells ==
  /\ Worker = Deliver2 /\ Worker' = Deliver3
  /\ PostKept /\ Adds("Create") /\ KeptByWorker

WorkerTellsNobody ==
  /\ Worker = Deliver2 /\ Worker' = Deliver4 /\ WorkerRead' = WorkerRead
  /\ PostKept /\ JobsKept /\ KeptByWorker

WorkerMentions ==
  /\ Worker = Deliver3 /\ Worker' = Deliver4
  /\ post[Author] = NoPost => post'[Author] = NoPost
  /\ post[Author] # NoPost => post'[Author] # NoPost /\ post'[Author].text = post[Author].text
  /\ JobsKept /\ KeptByWorker

WorkerFansOut ==
  /\ Worker = Deliver4 /\ Worker' = <<>>
  /\ (WorkerRead.mentions /\ JobsKept) \/ Adds("Create")
  /\ PostKept /\ KeptByWorker

\* Steps of a request in the inbox of the reader.
KeptByBox == PostKept /\ JobsKept /\ WireKept /\ ApiKept /\ WorkerKept /\ PastKept

BoxFetches ==
  /\ Box = Fetch1 /\ Box' = InboxCreate /\ post[Author] # NoPost
  /\ (post[Author].mentions => BoxNew'.mentions) /\ BoxNew'.text = post[Author].text
  /\ CopyKept /\ NoticeKept /\ KeptByBox

BoxStores ==
  /\ Box = InboxCreate /\ Box' = Notifying /\ post[Reader] = NoPost
  /\ post'[Reader] # NoPost /\ post'[Reader].text = BoxNew.text
  /\ BoxNew' = BoxNew /\ NoticeKept /\ KeptByBox

BoxHasIt ==
  /\ Box = InboxCreate /\ Box' = <<>> /\ post[Reader] # NoPost
  /\ CopyKept /\ NoticeKept /\ KeptByBox

BoxTells ==
  /\ Box = Notifying /\ Box' = <<>>
  /\ "mention" \in notice[Reader] \/ BoxNew.mentions => "mention" \in notice'[Reader]
  /\ CopyKept /\ KeptByBox

BoxFindsToUpdate ==
  /\ Box = InboxUpdate /\ Box' = Update2 /\ BoxNew' = BoxNew
  /\ CopyKept /\ NoticeKept /\ KeptByBox

BoxUpdates ==
  /\ Box = Update2 /\ Box' = <<>>
  /\ post[Reader] = NoPost => post'[Reader] = NoPost
  /\ post[Reader] # NoPost => post'[Reader] # NoPost /\ post'[Reader].text = BoxNew.text
  /\ NoticeKept /\ KeptByBox

BoxFindsToDelete ==
  /\ Box = InboxDelete /\ Box' = Delete2
  /\ CopyKept /\ NoticeKept /\ KeptByBox

BoxDeletes ==
  /\ Box = Delete2 /\ Box' = <<>>
  /\ post'[Reader] = NoPost \/ (CopyKept /\ refused')
  /\ NoticeKept /\ KeptByBox

\* There is nothing to update or to delete, or nothing is done to the copy.
BoxElse ==
  /\ Box' = <<>>
  /\ (Box \in {InboxUpdate, InboxDelete} /\ post[Reader] = NoPost) \/ Box \in {Fetch1, Repeat1}
  /\ CopyKept /\ NoticeKept /\ KeptByBox

\* Steps of the queue of the author, and the beginnings of requests.
KeptByQueue == PostKept /\ CopyKept /\ NoticeKept /\ ApiKept /\ created' = created /\ (refused => refused')

Begins ==
  /\ Worker = <<>> /\ Worker' = DeliverPost /\ Waits(jobs[Author], "deliver_post")
  /\ smooth' => smooth /\ Takes("deliver_post")
  /\ WireKept /\ BoxKept /\ KeptByQueue

Sends(x) ==
  /\ x # "deliver_post" /\ Waits(jobs[Author], x) /\ (x \in {"Create", "Update"} => post[Author] # NoPost)
  /\ smooth' => /\ smooth /\ wire[Author] = {} /\ Worker = <<>> /\ Takes(x)
                /\ \E a : /\ wire'[Author] = {a} /\ a.type = x
                          /\ x \in {"Create", "Update"} => a.text = post[Author].text
                          /\ x = "Create" /\ post[Author].mentions => a.mentions
  /\ WorkerKept /\ BoxKept /\ KeptByQueue

GivesUp(x) ==
  /\ smooth' => smooth /\ x \in {"deliver_post", "Create", "Update"} /\ post[Author] = NoPost
  /\ Drops(x) /\ WireKept /\ WorkerKept /\ BoxKept /\ KeptByQueue

Receives(a) ==
  /\ wire[Author] # {} /\ (smooth => wire[Author] = {a} /\ wire'[Author] = {})
  /\ a.type # "deliver_post" /\ (JobsKept \/ Repeats(a.type))
  /\ Box = <<>>
  /\ CASE a.type = "Create" -> Box' = InboxCreate
       [] a.type = "Update" -> Box' = InboxUpdate
       [] a.type = "Delete" -> Box' = InboxDelete
       [] OTHER -> Box' \in {Fetch1, Repeat1, <<>>}
  /\ a.type \in {"Create", "Update"} => BoxNew'.text = a.text /\ (a.mentions => BoxNew'.mentions)
  /\ smooth' => smooth
  /\ WorkerKept /\ KeptByQueue

Calls ==
  /\ Api = <<>> /\ Api' # Editing2 /\ Api' # Editing3 /\ Api' \notin Deletings
  /\ Api' \in Postings =>
       /\ \A x : ~Waits(jobs[Author], x)
       /\ Worker = <<>> /\ wire[Author] = {} /\ Box = <<>> /\ ~post[Author].mentions /\ post[Reader] = NoPost
       /\ Api' = PostsCreate => ~ApiNew'.mentions
  /\ PostKept /\ JobsKept /\ KeptByApi /\ PastKept

\* Every step is one of these.
ApiSteps ==
  \/ ApiCreates \/ ApiRefreshes \/ ApiDelivers \/ ApiReads \/ ApiEdits \/ ApiTellsEdit
  \/ ApiDeletes \/ ApiGoesOnDeleting \/ ApiTellsDeletion \/ ApiElse \/ Calls

WorkerSteps ==
  \/ WorkerReads \/ WorkerEnds \/ WorkerTells \/ WorkerTellsNobody \/ WorkerMentions \/ WorkerFansOut

BoxSteps ==
  \/ BoxFetches \/ BoxStores \/ BoxHasIt \/ BoxTells \/ BoxFindsToUpdate \/ BoxUpdates
  \/ BoxFindsToDelete \/ BoxDeletes \/ BoxElse

QueueSteps ==
  Begins \/ (\E x : Sends(x)) \/ (\E x : GivesUp(x)) \/ (\E a : Receives(a))

-----------------------------------------------------------------------------
(* Each of them is kept by each step.                                       *)

LEMMA NoPostIs == ~NoPost.mentions /\ NoPost.text = 0
BY DEF NoPost

LEMMA OnceInApiSteps ==
  ASSUME OnceInv, ApiSteps
  PROVE  OnceInv'
<1> USE PostListsAre, DeliverListsAre, NoteListsAre, NoPostIs
<1> USE DEF OnceInv, Undelivered, KeptByApi, Adds, PostKept, CopyKept, NoticeKept, JobsKept,
   WireKept, ApiKept, WorkerKept, BoxKept, PastKept
<1>1. CASE ApiCreates
  BY <1>1 DEF ApiCreates
<1>2. CASE ApiRefreshes
  BY <1>2 DEF ApiRefreshes
<1>3. CASE ApiDelivers
  BY <1>3 DEF ApiDelivers
<1>4. CASE ApiReads
  BY <1>4 DEF ApiReads
<1>5. CASE ApiEdits
  BY <1>5 DEF ApiEdits
<1>6. CASE ApiTellsEdit
  BY <1>6 DEF ApiTellsEdit
<1>7. CASE ApiDeletes
  BY <1>7 DEF ApiDeletes
<1>8. CASE ApiGoesOnDeleting
  BY <1>8 DEF ApiGoesOnDeleting
<1>9. CASE ApiTellsDeletion
  BY <1>9 DEF ApiTellsDeletion
<1>10. CASE ApiElse
  BY <1>10 DEF ApiElse
<1>11. CASE Calls
  BY <1>11 DEF Calls
<1> QED
  BY <1>1, <1>2, <1>3, <1>4, <1>5, <1>6, <1>7, <1>8, <1>9, <1>10, <1>11 DEF ApiSteps

LEMMA OnceInWorkerSteps ==
  ASSUME OnceInv, WorkerSteps
  PROVE  OnceInv'
<1> USE PostListsAre, DeliverListsAre, NoteListsAre, NoPostIs
<1> USE DEF OnceInv, Undelivered, KeptByWorker, Adds, PostKept, CopyKept, NoticeKept, JobsKept,
   WireKept, ApiKept, WorkerKept, BoxKept, PastKept
<1>1. CASE WorkerReads
  BY <1>1 DEF WorkerReads
<1>2. CASE WorkerEnds
  BY <1>2 DEF WorkerEnds
<1>3. CASE WorkerTells
  BY <1>3 DEF WorkerTells
<1>4. CASE WorkerTellsNobody
  BY <1>4 DEF WorkerTellsNobody
<1>5. CASE WorkerMentions
  BY <1>5 DEF WorkerMentions
<1>6. CASE WorkerFansOut
  BY <1>6 DEF WorkerFansOut
<1> QED
  BY <1>1, <1>2, <1>3, <1>4, <1>5, <1>6 DEF WorkerSteps

LEMMA OnceInBoxSteps ==
  ASSUME OnceInv, BoxSteps
  PROVE  OnceInv'
<1> USE PostListsAre, DeliverListsAre, NoteListsAre, NoPostIs
<1> USE DEF OnceInv, Undelivered, KeptByBox, PostKept, CopyKept, NoticeKept, JobsKept, WireKept,
   ApiKept, WorkerKept, BoxKept, PastKept
<1>1. CASE BoxFetches
  BY <1>1, FetchListsAre DEF BoxFetches
<1>2. CASE BoxStores
  BY <1>2 DEF BoxStores
<1>3. CASE BoxHasIt
  BY <1>3 DEF BoxHasIt
<1>4. CASE BoxTells
  BY <1>4 DEF BoxTells
<1>5. CASE BoxFindsToUpdate
  BY <1>5 DEF BoxFindsToUpdate
<1>6. CASE BoxUpdates
  BY <1>6 DEF BoxUpdates
<1>7. CASE BoxFindsToDelete
  BY <1>7 DEF BoxFindsToDelete
<1>8. CASE BoxDeletes
  BY <1>8 DEF BoxDeletes
<1>9. CASE BoxElse
  BY <1>9 DEF BoxElse
<1> QED
  BY <1>1, <1>2, <1>3, <1>4, <1>5, <1>6, <1>7, <1>8, <1>9 DEF BoxSteps

LEMMA OnceInQueueSteps ==
  ASSUME OnceInv, QueueSteps
  PROVE  OnceInv'
<1> USE PostListsAre, DeliverListsAre, NoteListsAre, NoPostIs
<1> USE DEF OnceInv, Undelivered, KeptByQueue, Takes, Drops, Repeats, PostKept, CopyKept,
   NoticeKept, JobsKept, WireKept, ApiKept, WorkerKept, BoxKept, PastKept
<1>1. CASE Begins
  BY <1>1 DEF Begins
<1>2. ASSUME NEW x, Sends(x) PROVE OnceInv'
  BY <1>2 DEF Sends
<1>3. ASSUME NEW x, GivesUp(x) PROVE OnceInv'
  BY <1>3 DEF GivesUp
<1>4. ASSUME NEW a, Receives(a) PROVE OnceInv'
  BY <1>4 DEF Receives
<1> QED
  BY <1>1, <1>2, <1>3, <1>4 DEF QueueSteps

LEMMA ResolvedInApiSteps ==
  ASSUME ResolvedInv, OnceInv, ApiSteps
  PROVE  ResolvedInv'
<1> USE PostListsAre, DeliverListsAre, NoteListsAre, NoPostIs
<1> USE DEF ResolvedInv, OnceInv, Undelivered, KeptByApi, Adds, PostKept, CopyKept, NoticeKept,
   JobsKept, WireKept, ApiKept, WorkerKept, BoxKept, PastKept
<1>1. CASE ApiCreates
  BY <1>1, PostingListsAre DEF ApiCreates
<1>2. CASE ApiRefreshes
  BY <1>2, PostingListsAre DEF ApiRefreshes
<1>3. CASE ApiDelivers
  BY <1>3 DEF ApiDelivers
<1>4. CASE ApiReads
  BY <1>4 DEF ApiReads
<1>5. CASE ApiEdits
  BY <1>5 DEF ApiEdits
<1>6. CASE ApiTellsEdit
  BY <1>6 DEF ApiTellsEdit
<1>7. CASE ApiDeletes
  BY <1>7 DEF ApiDeletes
<1>8. CASE ApiGoesOnDeleting
  BY <1>8 DEF ApiGoesOnDeleting
<1>9. CASE ApiTellsDeletion
  BY <1>9 DEF ApiTellsDeletion
<1>10. CASE ApiElse
  BY <1>10 DEF ApiElse
<1>11. CASE Calls
  BY <1>11 DEF Calls
<1> QED
  BY <1>1, <1>2, <1>3, <1>4, <1>5, <1>6, <1>7, <1>8, <1>9, <1>10, <1>11 DEF ApiSteps

LEMMA ResolvedInWorkerSteps ==
  ASSUME ResolvedInv, OnceInv, WorkerSteps
  PROVE  ResolvedInv'
<1> USE PostListsAre, DeliverListsAre, NoteListsAre, NoPostIs
<1> USE DEF ResolvedInv, OnceInv, Undelivered, KeptByWorker, Adds, PostKept, CopyKept, NoticeKept,
   JobsKept, WireKept, ApiKept, WorkerKept, BoxKept, PastKept
<1>1. CASE WorkerReads
  BY <1>1 DEF WorkerReads
<1>2. CASE WorkerEnds
  BY <1>2 DEF WorkerEnds
<1>3. CASE WorkerTells
  BY <1>3 DEF WorkerTells
<1>4. CASE WorkerTellsNobody
  BY <1>4 DEF WorkerTellsNobody
<1>5. CASE WorkerMentions
  BY <1>5 DEF WorkerMentions
<1>6. CASE WorkerFansOut
  BY <1>6 DEF WorkerFansOut
<1> QED
  BY <1>1, <1>2, <1>3, <1>4, <1>5, <1>6 DEF WorkerSteps

LEMMA ResolvedInBoxSteps ==
  ASSUME ResolvedInv, OnceInv, BoxSteps
  PROVE  ResolvedInv'
<1> USE PostListsAre, DeliverListsAre, NoteListsAre, NoPostIs
<1> USE DEF ResolvedInv, OnceInv, Undelivered, KeptByBox, PostKept, CopyKept, NoticeKept, JobsKept,
   WireKept, ApiKept, WorkerKept, BoxKept, PastKept
<1>1. CASE BoxFetches
  BY <1>1 DEF BoxFetches
<1>2. CASE BoxStores
  BY <1>2 DEF BoxStores
<1>3. CASE BoxHasIt
  BY <1>3 DEF BoxHasIt
<1>4. CASE BoxTells
  BY <1>4 DEF BoxTells
<1>5. CASE BoxFindsToUpdate
  BY <1>5 DEF BoxFindsToUpdate
<1>6. CASE BoxUpdates
  BY <1>6 DEF BoxUpdates
<1>7. CASE BoxFindsToDelete
  BY <1>7 DEF BoxFindsToDelete
<1>8. CASE BoxDeletes
  BY <1>8 DEF BoxDeletes
<1>9. CASE BoxElse
  BY <1>9 DEF BoxElse
<1> QED
  BY <1>1, <1>2, <1>3, <1>4, <1>5, <1>6, <1>7, <1>8, <1>9 DEF BoxSteps

LEMMA ResolvedInQueueSteps ==
  ASSUME ResolvedInv, OnceInv, QueueSteps
  PROVE  ResolvedInv'
<1> USE PostListsAre, DeliverListsAre, NoteListsAre, NoPostIs
<1> USE DEF ResolvedInv, OnceInv, Undelivered, KeptByQueue, Takes, Drops, Repeats, PostKept,
   CopyKept, NoticeKept, JobsKept, WireKept, ApiKept, WorkerKept, BoxKept, PastKept
<1>1. CASE Begins
  BY <1>1 DEF Begins
<1>2. ASSUME NEW x, Sends(x) PROVE ResolvedInv'
  BY <1>2 DEF Sends
<1>3. ASSUME NEW x, GivesUp(x) PROVE ResolvedInv'
  BY <1>3 DEF GivesUp
<1>4. ASSUME NEW a, Receives(a) PROVE ResolvedInv'
  BY <1>4 DEF Receives
<1> QED
  BY <1>1, <1>2, <1>3, <1>4 DEF QueueSteps

LEMMA MentionInApiSteps ==
  ASSUME MentionInv, OnceInv, ResolvedInv, ApiSteps
  PROVE  MentionInv'
<1> USE PostListsAre, DeliverListsAre, NoteListsAre, NoPostIs
<1> USE DEF MentionInv, OnceInv, ResolvedInv, Undelivered, KeptByApi, Adds, PostKept, CopyKept,
   NoticeKept, JobsKept, WireKept, ApiKept, WorkerKept, BoxKept, PastKept
<1>1. CASE ApiCreates
  BY <1>1 DEF ApiCreates
<1>2. CASE ApiRefreshes
  BY <1>2 DEF ApiRefreshes
<1>3. CASE ApiDelivers
  BY <1>3 DEF ApiDelivers
<1>4. CASE ApiReads
  BY <1>4 DEF ApiReads
<1>5. CASE ApiEdits
  BY <1>5 DEF ApiEdits
<1>6. CASE ApiTellsEdit
  BY <1>6 DEF ApiTellsEdit
<1>7. CASE ApiDeletes
  BY <1>7 DEF ApiDeletes
<1>8. CASE ApiGoesOnDeleting
  BY <1>8 DEF ApiGoesOnDeleting
<1>9. CASE ApiTellsDeletion
  BY <1>9 DEF ApiTellsDeletion
<1>10. CASE ApiElse
  BY <1>10 DEF ApiElse
<1>11. CASE Calls
  BY <1>11 DEF Calls
<1> QED
  BY <1>1, <1>2, <1>3, <1>4, <1>5, <1>6, <1>7, <1>8, <1>9, <1>10, <1>11 DEF ApiSteps

LEMMA MentionInWorkerSteps ==
  ASSUME MentionInv, OnceInv, ResolvedInv, WorkerSteps
  PROVE  MentionInv'
<1> USE PostListsAre, DeliverListsAre, NoteListsAre, NoPostIs
<1> USE DEF MentionInv, OnceInv, ResolvedInv, Undelivered, KeptByWorker, Adds, PostKept, CopyKept,
   NoticeKept, JobsKept, WireKept, ApiKept, WorkerKept, BoxKept, PastKept
<1>1. CASE WorkerReads
  BY <1>1 DEF WorkerReads
<1>2. CASE WorkerEnds
  BY <1>2 DEF WorkerEnds
<1>3. CASE WorkerTells
  BY <1>3 DEF WorkerTells
<1>4. CASE WorkerTellsNobody
  BY <1>4 DEF WorkerTellsNobody
<1>5. CASE WorkerMentions
  BY <1>5 DEF WorkerMentions
<1>6. CASE WorkerFansOut
  BY <1>6 DEF WorkerFansOut
<1> QED
  BY <1>1, <1>2, <1>3, <1>4, <1>5, <1>6 DEF WorkerSteps

LEMMA MentionInBoxSteps ==
  ASSUME MentionInv, OnceInv, ResolvedInv, BoxSteps
  PROVE  MentionInv'
<1> USE PostListsAre, DeliverListsAre, NoteListsAre, NoPostIs
<1> USE DEF MentionInv, OnceInv, ResolvedInv, Undelivered, KeptByBox, PostKept, CopyKept,
   NoticeKept, JobsKept, WireKept, ApiKept, WorkerKept, BoxKept, PastKept
<1>1. CASE BoxFetches
  BY <1>1 DEF BoxFetches
<1>2. CASE BoxStores
  BY <1>2 DEF BoxStores
<1>3. CASE BoxHasIt
  BY <1>3 DEF BoxHasIt
<1>4. CASE BoxTells
  BY <1>4 DEF BoxTells
<1>5. CASE BoxFindsToUpdate
  BY <1>5 DEF BoxFindsToUpdate
<1>6. CASE BoxUpdates
  BY <1>6 DEF BoxUpdates
<1>7. CASE BoxFindsToDelete
  BY <1>7 DEF BoxFindsToDelete
<1>8. CASE BoxDeletes
  BY <1>8 DEF BoxDeletes
<1>9. CASE BoxElse
  BY <1>9 DEF BoxElse
<1> QED
  BY <1>1, <1>2, <1>3, <1>4, <1>5, <1>6, <1>7, <1>8, <1>9 DEF BoxSteps

LEMMA MentionInQueueSteps ==
  ASSUME MentionInv, OnceInv, ResolvedInv, QueueSteps
  PROVE  MentionInv'
<1> USE PostListsAre, DeliverListsAre, NoteListsAre, NoPostIs
<1> USE DEF MentionInv, OnceInv, ResolvedInv, Undelivered, KeptByQueue, Takes, Drops, Repeats,
   PostKept, CopyKept, NoticeKept, JobsKept, WireKept, ApiKept, WorkerKept, BoxKept, PastKept
<1>1. CASE Begins
  BY <1>1 DEF Begins
<1>2. ASSUME NEW x, Sends(x) PROVE MentionInv'
  BY <1>2 DEF Sends
<1>3. ASSUME NEW x, GivesUp(x) PROVE MentionInv'
  BY <1>3 DEF GivesUp
<1>4. ASSUME NEW a, Receives(a) PROVE MentionInv'
  BY <1>4 DEF Receives
<1> QED
  BY <1>1, <1>2, <1>3, <1>4 DEF QueueSteps

LEMMA ThereInApiSteps ==
  ASSUME ThereInv, OnceInv, ResolvedInv, ApiSteps
  PROVE  ThereInv'
<1> USE PostListsAre, DeliverListsAre, NoteListsAre, NoPostIs
<1> USE DEF ThereInv, OnceInv, ResolvedInv, Undelivered, Tells, KeptByApi, Adds, PostKept, CopyKept,
   NoticeKept, JobsKept, WireKept, ApiKept, WorkerKept, BoxKept, PastKept
<1>1. CASE ApiCreates
  BY <1>1 DEF ApiCreates
<1>2. CASE ApiRefreshes
  BY <1>2 DEF ApiRefreshes
<1>3. CASE ApiDelivers
  BY <1>3 DEF ApiDelivers
<1>4. CASE ApiReads
  BY <1>4 DEF ApiReads
<1>5. CASE ApiEdits
  BY <1>5 DEF ApiEdits
<1>6. CASE ApiTellsEdit
  BY <1>6 DEF ApiTellsEdit
<1>7. CASE ApiDeletes
  BY <1>7 DEF ApiDeletes
<1>8. CASE ApiGoesOnDeleting
  BY <1>8 DEF ApiGoesOnDeleting
<1>9. CASE ApiTellsDeletion
  BY <1>9 DEF ApiTellsDeletion
<1>10. CASE ApiElse
  BY <1>10 DEF ApiElse
<1>11. CASE Calls
  BY <1>11 DEF Calls
<1> QED
  BY <1>1, <1>2, <1>3, <1>4, <1>5, <1>6, <1>7, <1>8, <1>9, <1>10, <1>11 DEF ApiSteps

LEMMA ThereInWorkerSteps ==
  ASSUME ThereInv, OnceInv, ResolvedInv, WorkerSteps
  PROVE  ThereInv'
<1> USE PostListsAre, DeliverListsAre, NoteListsAre, NoPostIs
<1> USE DEF ThereInv, OnceInv, ResolvedInv, Undelivered, Tells, KeptByWorker, Adds, PostKept,
   CopyKept, NoticeKept, JobsKept, WireKept, ApiKept, WorkerKept, BoxKept, PastKept
<1>1. CASE WorkerReads
  BY <1>1 DEF WorkerReads
<1>2. CASE WorkerEnds
  BY <1>2 DEF WorkerEnds
<1>3. CASE WorkerTells
  BY <1>3 DEF WorkerTells
<1>4. CASE WorkerTellsNobody
  BY <1>4 DEF WorkerTellsNobody
<1>5. CASE WorkerMentions
  BY <1>5 DEF WorkerMentions
<1>6. CASE WorkerFansOut
  BY <1>6 DEF WorkerFansOut
<1> QED
  BY <1>1, <1>2, <1>3, <1>4, <1>5, <1>6 DEF WorkerSteps

LEMMA ThereInBoxSteps ==
  ASSUME ThereInv, OnceInv, ResolvedInv, BoxSteps
  PROVE  ThereInv'
<1> USE PostListsAre, DeliverListsAre, NoteListsAre, NoPostIs
<1> USE DEF ThereInv, OnceInv, ResolvedInv, Undelivered, Tells, KeptByBox, PostKept, CopyKept,
   NoticeKept, JobsKept, WireKept, ApiKept, WorkerKept, BoxKept, PastKept
<1>1. CASE BoxFetches
  BY <1>1 DEF BoxFetches
<1>2. CASE BoxStores
  BY <1>2 DEF BoxStores
<1>3. CASE BoxHasIt
  BY <1>3 DEF BoxHasIt
<1>4. CASE BoxTells
  BY <1>4 DEF BoxTells
<1>5. CASE BoxFindsToUpdate
  BY <1>5 DEF BoxFindsToUpdate
<1>6. CASE BoxUpdates
  BY <1>6 DEF BoxUpdates
<1>7. CASE BoxFindsToDelete
  BY <1>7 DEF BoxFindsToDelete
<1>8. CASE BoxDeletes
  BY <1>8 DEF BoxDeletes
<1>9. CASE BoxElse
  BY <1>9 DEF BoxElse
<1> QED
  BY <1>1, <1>2, <1>3, <1>4, <1>5, <1>6, <1>7, <1>8, <1>9 DEF BoxSteps

LEMMA ThereInQueueSteps ==
  ASSUME ThereInv, OnceInv, ResolvedInv, QueueSteps
  PROVE  ThereInv'
<1> USE PostListsAre, DeliverListsAre, NoteListsAre, NoPostIs
<1> USE DEF ThereInv, OnceInv, ResolvedInv, Undelivered, Tells, KeptByQueue, Takes, Drops, Repeats,
   PostKept, CopyKept, NoticeKept, JobsKept, WireKept, ApiKept, WorkerKept, BoxKept, PastKept
<1>1. CASE Begins
  BY <1>1 DEF Begins
<1>2. ASSUME NEW x, Sends(x) PROVE ThereInv'
  BY <1>2 DEF Sends
<1>3. ASSUME NEW x, GivesUp(x) PROVE ThereInv'
  BY <1>3 DEF GivesUp
<1>4. ASSUME NEW a, Receives(a) PROVE ThereInv'
  BY <1>4 DEF Receives
<1> QED
  BY <1>1, <1>2, <1>3, <1>4 DEF QueueSteps

LEMMA TextInApiSteps ==
  ASSUME TextInv, OnceInv, ApiSteps
  PROVE  TextInv'
<1> USE PostListsAre, DeliverListsAre, NoteListsAre, NoPostIs
<1> USE DEF TextInv, OnceInv, Undelivered, Tells, KeptByApi, Adds, PostKept, CopyKept, NoticeKept,
   JobsKept, WireKept, ApiKept, WorkerKept, BoxKept, PastKept
<1>1. CASE ApiCreates
  BY <1>1 DEF ApiCreates
<1>2. CASE ApiRefreshes
  BY <1>2 DEF ApiRefreshes
<1>3. CASE ApiDelivers
  BY <1>3 DEF ApiDelivers
<1>4. CASE ApiReads
  BY <1>4 DEF ApiReads
<1>5. CASE ApiEdits
  BY <1>5 DEF ApiEdits
<1>6. CASE ApiTellsEdit
  BY <1>6 DEF ApiTellsEdit
<1>7. CASE ApiDeletes
  BY <1>7 DEF ApiDeletes
<1>8. CASE ApiGoesOnDeleting
  BY <1>8 DEF ApiGoesOnDeleting
<1>9. CASE ApiTellsDeletion
  BY <1>9 DEF ApiTellsDeletion
<1>10. CASE ApiElse
  BY <1>10 DEF ApiElse
<1>11. CASE Calls
  BY <1>11 DEF Calls
<1> QED
  BY <1>1, <1>2, <1>3, <1>4, <1>5, <1>6, <1>7, <1>8, <1>9, <1>10, <1>11 DEF ApiSteps

LEMMA TextInWorkerSteps ==
  ASSUME TextInv, OnceInv, WorkerSteps
  PROVE  TextInv'
<1> USE PostListsAre, DeliverListsAre, NoteListsAre, NoPostIs
<1> USE DEF TextInv, OnceInv, Undelivered, Tells, KeptByWorker, Adds, PostKept, CopyKept,
   NoticeKept, JobsKept, WireKept, ApiKept, WorkerKept, BoxKept, PastKept
<1>1. CASE WorkerReads
  BY <1>1 DEF WorkerReads
<1>2. CASE WorkerEnds
  BY <1>2 DEF WorkerEnds
<1>3. CASE WorkerTells
  BY <1>3 DEF WorkerTells
<1>4. CASE WorkerTellsNobody
  BY <1>4 DEF WorkerTellsNobody
<1>5. CASE WorkerMentions
  BY <1>5 DEF WorkerMentions
<1>6. CASE WorkerFansOut
  BY <1>6 DEF WorkerFansOut
<1> QED
  BY <1>1, <1>2, <1>3, <1>4, <1>5, <1>6 DEF WorkerSteps

LEMMA TextInBoxSteps ==
  ASSUME TextInv, OnceInv, BoxSteps
  PROVE  TextInv'
<1> USE PostListsAre, DeliverListsAre, NoteListsAre, NoPostIs
<1> USE DEF TextInv, OnceInv, Undelivered, Tells, KeptByBox, PostKept, CopyKept, NoticeKept,
   JobsKept, WireKept, ApiKept, WorkerKept, BoxKept, PastKept
<1>1. CASE BoxFetches
  BY <1>1 DEF BoxFetches
<1>2. CASE BoxStores
  BY <1>2 DEF BoxStores
<1>3. CASE BoxHasIt
  BY <1>3 DEF BoxHasIt
<1>4. CASE BoxTells
  BY <1>4 DEF BoxTells
<1>5. CASE BoxFindsToUpdate
  BY <1>5 DEF BoxFindsToUpdate
<1>6. CASE BoxUpdates
  BY <1>6 DEF BoxUpdates
<1>7. CASE BoxFindsToDelete
  BY <1>7 DEF BoxFindsToDelete
<1>8. CASE BoxDeletes
  BY <1>8 DEF BoxDeletes
<1>9. CASE BoxElse
  BY <1>9 DEF BoxElse
<1> QED
  BY <1>1, <1>2, <1>3, <1>4, <1>5, <1>6, <1>7, <1>8, <1>9 DEF BoxSteps

LEMMA TextInQueueSteps ==
  ASSUME TextInv, OnceInv, QueueSteps
  PROVE  TextInv'
<1> USE PostListsAre, DeliverListsAre, NoteListsAre, NoPostIs
<1> USE DEF TextInv, OnceInv, Undelivered, Tells, KeptByQueue, Takes, Drops, Repeats, PostKept,
   CopyKept, NoticeKept, JobsKept, WireKept, ApiKept, WorkerKept, BoxKept, PastKept
<1>1. CASE Begins
  BY <1>1 DEF Begins
<1>2. ASSUME NEW x, Sends(x) PROVE TextInv'
  BY <1>2 DEF Sends
<1>3. ASSUME NEW x, GivesUp(x) PROVE TextInv'
  BY <1>3 DEF GivesUp
<1>4. ASSUME NEW a, Receives(a) PROVE TextInv'
  BY <1>4 DEF Receives
<1> QED
  BY <1>1, <1>2, <1>3, <1>4 DEF QueueSteps

LEMMA GoneInApiSteps ==
  ASSUME GoneInv, ApiSteps
  PROVE  GoneInv'
<1> USE PostListsAre, DeliverListsAre, NoteListsAre, NoPostIs
<1> USE DEF GoneInv, Tells, KeptByApi, Adds, PostKept, CopyKept, NoticeKept, JobsKept, WireKept,
   ApiKept, WorkerKept, BoxKept, PastKept
<1>1. CASE ApiCreates
  BY <1>1 DEF ApiCreates
<1>2. CASE ApiRefreshes
  BY <1>2 DEF ApiRefreshes
<1>3. CASE ApiDelivers
  BY <1>3 DEF ApiDelivers
<1>4. CASE ApiReads
  BY <1>4 DEF ApiReads
<1>5. CASE ApiEdits
  BY <1>5 DEF ApiEdits
<1>6. CASE ApiTellsEdit
  BY <1>6 DEF ApiTellsEdit
<1>7. CASE ApiDeletes
  BY <1>7 DEF ApiDeletes
<1>8. CASE ApiGoesOnDeleting
  BY <1>8 DEF ApiGoesOnDeleting
<1>9. CASE ApiTellsDeletion
  BY <1>9 DEF ApiTellsDeletion
<1>10. CASE ApiElse
  BY <1>10 DEF ApiElse
<1>11. CASE Calls
  BY <1>11 DEF Calls
<1> QED
  BY <1>1, <1>2, <1>3, <1>4, <1>5, <1>6, <1>7, <1>8, <1>9, <1>10, <1>11 DEF ApiSteps

LEMMA GoneInWorkerSteps ==
  ASSUME GoneInv, WorkerSteps
  PROVE  GoneInv'
<1> USE PostListsAre, DeliverListsAre, NoteListsAre, NoPostIs
<1> USE DEF GoneInv, Tells, KeptByWorker, Adds, PostKept, CopyKept, NoticeKept, JobsKept, WireKept,
   ApiKept, WorkerKept, BoxKept, PastKept
<1>1. CASE WorkerReads
  BY <1>1 DEF WorkerReads
<1>2. CASE WorkerEnds
  BY <1>2 DEF WorkerEnds
<1>3. CASE WorkerTells
  BY <1>3 DEF WorkerTells
<1>4. CASE WorkerTellsNobody
  BY <1>4 DEF WorkerTellsNobody
<1>5. CASE WorkerMentions
  BY <1>5 DEF WorkerMentions
<1>6. CASE WorkerFansOut
  BY <1>6 DEF WorkerFansOut
<1> QED
  BY <1>1, <1>2, <1>3, <1>4, <1>5, <1>6 DEF WorkerSteps

LEMMA GoneInBoxSteps ==
  ASSUME GoneInv, BoxSteps
  PROVE  GoneInv'
<1> USE PostListsAre, DeliverListsAre, NoteListsAre, NoPostIs
<1> USE DEF GoneInv, Tells, KeptByBox, PostKept, CopyKept, NoticeKept, JobsKept, WireKept, ApiKept,
   WorkerKept, BoxKept, PastKept
<1>1. CASE BoxFetches
  BY <1>1 DEF BoxFetches
<1>2. CASE BoxStores
  BY <1>2 DEF BoxStores
<1>3. CASE BoxHasIt
  BY <1>3 DEF BoxHasIt
<1>4. CASE BoxTells
  BY <1>4 DEF BoxTells
<1>5. CASE BoxFindsToUpdate
  BY <1>5 DEF BoxFindsToUpdate
<1>6. CASE BoxUpdates
  BY <1>6 DEF BoxUpdates
<1>7. CASE BoxFindsToDelete
  BY <1>7 DEF BoxFindsToDelete
<1>8. CASE BoxDeletes
  BY <1>8 DEF BoxDeletes
<1>9. CASE BoxElse
  BY <1>9 DEF BoxElse
<1> QED
  BY <1>1, <1>2, <1>3, <1>4, <1>5, <1>6, <1>7, <1>8, <1>9 DEF BoxSteps

LEMMA GoneInQueueSteps ==
  ASSUME GoneInv, QueueSteps
  PROVE  GoneInv'
<1> USE PostListsAre, DeliverListsAre, NoteListsAre, NoPostIs
<1> USE DEF GoneInv, Tells, KeptByQueue, Takes, Drops, Repeats, PostKept, CopyKept, NoticeKept,
   JobsKept, WireKept, ApiKept, WorkerKept, BoxKept, PastKept
<1>1. CASE Begins
  BY <1>1 DEF Begins
<1>2. ASSUME NEW x, Sends(x) PROVE GoneInv'
  BY <1>2 DEF Sends
<1>3. ASSUME NEW x, GivesUp(x) PROVE GoneInv'
  BY <1>3 DEF GivesUp
<1>4. ASSUME NEW a, Receives(a) PROVE GoneInv'
  BY <1>4 DEF Receives
<1> QED
  BY <1>1, <1>2, <1>3, <1>4 DEF QueueSteps

-----------------------------------------------------------------------------
(* And every step is one of them.                                           *)

LEMMA AddsIs ==
  ASSUME NEW S, jobs[Author] \in Seq(S), NEW x \in S, jobs'[Author] = Append(jobs[Author], x)
  PROVE  Adds(x)
<1> PICK j : j = jobs[Author]
  OBVIOUS
<1> PICK n : n = jobs'[Author]
  OBVIOUS
<1>1. /\ Len(j) \in Nat /\ Len(n) = Len(j) + 1 /\ n[Len(n)] = x
      /\ \A i \in 1..Len(j) : n[i] = j[i]
  BY Appended
<1>2. \A i : i \in 1..Len(n) <=> i \in 1..Len(j) \/ i = Len(n)
  BY <1>1
<1>3. \A y : Waits(n, y) <=> Waits(j, y) \/ y = x
  BY <1>1, <1>2 DEF Waits
<1>4. ASSUME First(j), x = "deliver_post" => \A y : ~Waits(j, y) PROVE First(n)
  <2>1. CASE x = "deliver_post"
    <3>1. \A i \in 1..Len(j) : FALSE
      BY <1>4, <2>1 DEF Waits
    <3>2. Len(n) = 1
      BY <1>1, <3>1
    <3> QED
      BY <1>2, <3>1, <3>2 DEF First
  <2>2. CASE x # "deliver_post"
    BY <1>1, <1>2, <1>4, <2>2 DEF First
  <2> QED
    BY <2>1, <2>2
<1> QED
  BY <1>3, <1>4 DEF Adds

LEMMA RepeatsIs ==
  ASSUME NEW S, jobs[Author] \in Seq(S), NEW x \in S, jobs'[Author] = <<x>> \o jobs[Author]
  PROVE  Repeats(x)
<1> PICK j : j = jobs[Author]
  OBVIOUS
<1> PICK n : n = jobs'[Author]
  OBVIOUS
<1>1. /\ Len(j) \in Nat /\ Len(n) = Len(j) + 1 /\ n[1] = x
      /\ \A i \in 1..Len(j) : n[i + 1] = j[i]
  BY Prepended
<1>2. \A i \in 1..Len(j) : i + 1 \in 1..Len(n)
  BY <1>1
<1>3. \A m \in 1..Len(n) : m = 1 \/ (m - 1 \in 1..Len(j) /\ n[m] = j[m - 1])
  <2> SUFFICES ASSUME NEW m \in 1..Len(n), m # 1 PROVE m - 1 \in 1..Len(j) /\ n[m] = j[m - 1]
    OBVIOUS
  <2>1. m - 1 \in 1..Len(j) /\ (m - 1) + 1 = m
    BY <1>1
  <2> QED
    BY <1>1, <2>1
<1>4. 1 \in 1..Len(n)
  BY <1>1
<1>5. \A y : Waits(n, y) <=> Waits(j, y) \/ y = x
  BY <1>1, <1>2, <1>3, <1>4 DEF Waits
<1>6. ~Waits(j, "deliver_post") /\ x # "deliver_post" => First(n)
  BY <1>1, <1>3 DEF First, Waits
<1> QED
  BY <1>5, <1>6 DEF Repeats

LEMMA TakesIs ==
  ASSUME NEW S, jobs[Author] \in Seq(S), 1 \in DOMAIN jobs[Author], jobs'[Author] = Without(jobs[Author], 1)
  PROVE  Takes(jobs[Author][1])
<1> PICK j : j = jobs[Author]
  OBVIOUS
<1> PICK n : n = jobs'[Author]
  OBVIOUS
<1>1. /\ Len(n) \in Nat /\ Len(j) = Len(n) + 1
      /\ \A i \in 1..Len(n) : n[i] = j[i + 1]
  BY FirstTaken
<1>2. \A i \in 1..Len(n) : i + 1 \in 1..Len(j) /\ i + 1 # 1
  BY <1>1
<1>3. \A m \in 1..Len(j) : m = 1 \/ (m - 1 \in 1..Len(n) /\ j[m] = n[m - 1])
  <2> SUFFICES ASSUME NEW m \in 1..Len(j), m # 1 PROVE m - 1 \in 1..Len(n) /\ j[m] = n[m - 1]
    OBVIOUS
  <2>1. m - 1 \in 1..Len(n) /\ (m - 1) + 1 = m
    BY <1>1
  <2> QED
    BY <1>1, <2>1
<1>4. 1 \in 1..Len(j)
  BY <1>1
<1>5. \A y : Waits(j, y) <=> Waits(n, y) \/ y = j[1]
  <2>1. ASSUME NEW y, Waits(j, y), y # j[1] PROVE Waits(n, y)
    BY <1>3, <2>1 DEF Waits
  <2>2. ASSUME NEW y, Waits(n, y) PROVE Waits(j, y)
    BY <1>1, <1>2, <2>2 DEF Waits
  <2>3. Waits(j, j[1])
    BY <1>4 DEF Waits
  <2> QED
    BY <2>1, <2>2, <2>3
<1>6. First(j) => First(n) /\ ~Waits(n, "deliver_post")
  BY <1>1, <1>2 DEF First, Waits
<1> QED
  BY <1>5, <1>6 DEF Takes

\* u and v, joined, of length L - 1; v begins at i.
Joined(u, v, L, i) ==
  /\ Len(u \o v) = L - 1
  /\ \A m \in 1..(L - 1) : m < i => (u \o v)[m] = u[m]
  /\ \A m \in 1..(L - 1) : ~(m < i) => (u \o v)[m] = v[m - (i - 1)]

LEMMA JoinedAre ==
  ASSUME NEW S, NEW u \in Seq(S), NEW v \in Seq(S), NEW L, NEW i, L \in Nat, i \in 1..L, Len(u) = i - 1, Len(v) = L - i
  PROVE  Joined(u, v, L, i)
<1>1. Len(u \o v) = Len(u) + Len(v)
  OBVIOUS
<1>2. Len(u) + Len(v) = L - 1
  OBVIOUS
<1>3. \A m \in 1..(L - 1) : m < i <=> m <= Len(u)
  OBVIOUS
<1>4. \A m \in 1..(Len(u) + Len(v)) : (u \o v)[m] = IF m <= Len(u) THEN u[m] ELSE v[m - Len(u)]
  BY ConcatProperties
<1> QED
  BY <1>1, <1>2, <1>3, <1>4 DEF Joined

LEMMA WithoutAt ==
  ASSUME NEW S, NEW j \in Seq(S), NEW i \in DOMAIN j, NEW n, n = Without(j, i)
  PROVE  /\ Len(j) \in Nat /\ i \in 1..Len(j) /\ Len(n) = Len(j) - 1
         /\ \A m \in 1..Len(n) : n[m] = IF m < i THEN j[m] ELSE j[m + 1]
<1>1. Len(j) \in Nat /\ i \in 1..Len(j) /\ i - 1 \in Int /\ i + 1 \in Int /\ \A m \in 1..Len(j) : j[m] \in S
  OBVIOUS
<1> PICK L : L = Len(j)
  OBVIOUS
<1>2. L \in Nat /\ i \in 1..L
  BY <1>1
<1> PICK u : u = SubSeq(j, 1, i - 1)
  OBVIOUS
<1> PICK v : v = SubSeq(j, i + 1, L)
  OBVIOUS
<1>3. u \in Seq(S) /\ Len(u) = i - 1 /\ \A m \in 1..(i - 1) : u[m] = j[m]
  <2>1. \A m \in 1..(i - 1) : j[m] \in S
    BY <1>1
  <2>2. /\ u \in Seq(S) /\ Len(u) = IF 1 <= i - 1 THEN (i - 1) - 1 + 1 ELSE 0
        /\ \A m \in 1..((i - 1) - 1 + 1) : u[m] = j[1 + m - 1]
    BY <1>1, <2>1, SubSeqProperties, SMTT(20)
  <2>3. Len(u) = i - 1 /\ (i - 1) - 1 + 1 = i - 1
    BY <1>1, <2>2
  <2>4. \A m \in 1..(i - 1) : 1 + m - 1 = m
    BY <1>1
  <2> QED
    BY <2>2, <2>3, <2>4
<1>4. v \in Seq(S) /\ Len(v) = L - i /\ \A m \in 1..(L - i) : v[m] = j[i + m]
  <2>1. \A m \in (i + 1)..L : j[m] \in S
    BY <1>1
  <2>2. /\ v \in Seq(S) /\ Len(v) = IF i + 1 <= L THEN L - (i + 1) + 1 ELSE 0
        /\ \A m \in 1..(L - (i + 1) + 1) : v[m] = j[(i + 1) + m - 1]
    BY <1>1, <2>1, SubSeqProperties, SMTT(20)
  <2>3. L - (i + 1) + 1 = L - i /\ (i + 1 <= L \/ L - i = 0)
    BY <1>2
  <2>5. Len(v) = L - i
    BY <2>2, <2>3
  <2>4. \A m \in 1..(L - i) : (i + 1) + m - 1 = i + m
    BY <1>2
  <2> QED
    BY <2>2, <2>3, <2>4, <2>5
<1>5. n = u \o v
  BY DEF Without
<1>6. /\ Len(u \o v) = L - 1
      /\ \A m \in 1..(L - 1) : m < i => (u \o v)[m] = u[m]
      /\ \A m \in 1..(L - 1) : ~(m < i) => (u \o v)[m] = v[m - (i - 1)]
  <2>1. u \in Seq(S) /\ Len(u) = i - 1
    BY <1>3
  <2>2. v \in Seq(S) /\ Len(v) = L - i
    BY <1>4
  <2>3. Joined(u, v, L, i)
    BY ONLY <1>2, <2>1, <2>2, JoinedAre
  <2> QED
    BY <2>3 DEF Joined
<1>7. \A m \in 1..(L - 1) : n[m] = IF m < i THEN j[m] ELSE j[m + 1]
  <2> SUFFICES ASSUME NEW m \in 1..(L - 1) PROVE n[m] = IF m < i THEN j[m] ELSE j[m + 1]
    OBVIOUS
  <2>1. CASE m < i
    <3>1. m \in 1..(i - 1)
      BY <1>2, <2>1
    <3>2. (u \o v)[m] = u[m] /\ u[m] = j[m]
      BY <1>3, <1>6, <2>1, <3>1
    <3> QED
      BY <1>5, <2>1, <3>2
  <2>2. CASE ~(m < i)
    <3> PICK l : l = m - (i - 1)
      OBVIOUS
    <3>1. l \in 1..(L - i) /\ i + l = m + 1
      BY <1>2, <2>2
    <3>2. (u \o v)[m] = v[l]
      BY <1>6, <2>2
    <3>3. v[l] = j[i + l]
      BY <1>4, <3>1
    <3> QED
      BY <1>5, <2>2, <3>1, <3>2, <3>3
  <2> QED
    BY <2>1, <2>2
<1> QED
  BY <1>1, <1>5, <1>6, <1>7

LEMMA DropsIs ==
  ASSUME NEW S, jobs[Author] \in Seq(S), NEW i \in DOMAIN jobs[Author], jobs'[Author] = Without(jobs[Author], i)
  PROVE  Drops(jobs[Author][i])
<1> PICK j : j = jobs[Author]
  OBVIOUS
<1> PICK n : n = jobs'[Author]
  OBVIOUS
<1>1. /\ Len(j) \in Nat /\ i \in 1..Len(j) /\ Len(n) = Len(j) - 1
      /\ \A m \in 1..Len(n) : n[m] = IF m < i THEN j[m] ELSE j[m + 1]
  BY WithoutAt
<1>2. \A m \in 1..Len(n) : m \in 1..Len(j) /\ m + 1 \in 1..Len(j) /\ m + 1 # 1
  BY <1>1
<1>3. \A y : Waits(n, y) => Waits(j, y)
  BY <1>1, <1>2 DEF Waits
<1>4. ASSUME NEW m \in 1..Len(j), m # i PROVE \E l \in 1..Len(n) : n[l] = j[m]
  <2>1. CASE m < i
    <3>1. m \in 1..Len(n)
      BY <1>1, <2>1
    <3> QED
      BY <1>1, <2>1, <3>1
  <2>2. CASE m > i
    <3>1. m - 1 \in 1..Len(n) /\ ~(m - 1 < i) /\ (m - 1) + 1 = m
      BY <1>1, <2>2
    <3> QED
      BY <1>1, <3>1
  <2> QED
    BY <1>1, <1>4, <2>1, <2>2
<1>5. \A y : y # j[i] /\ Waits(j, y) => Waits(n, y)
  BY <1>4 DEF Waits
<1>6. First(j) => First(n)
  <2> SUFFICES ASSUME First(j), NEW m \in 1..Len(n), n[m] = "deliver_post" PROVE m = 1
    BY DEF First
  <2>1. CASE m < i
    BY <1>1, <1>2, <2>1 DEF First
  <2>2. CASE ~(m < i)
    <3>1. j[m + 1] = "deliver_post" /\ m + 1 \in 1..Len(j) /\ m + 1 # 1
      BY <1>1, <1>2, <2>2
    <3> QED
      BY <3>1 DEF First
  <2> QED
    BY <2>1, <2>2
<1> QED
  BY <1>3, <1>5, <1>6 DEF Drops

LEMMA ApiEffect ==
  ASSUME NEW P, NEW F, NEW B, NEW N, NEW J, NEW t, Effect(Author, "api", P, F, B, N, J, t)
  PROVE  post'[Author] = P /\ jobs'[Author] = J /\ Api' = t /\ KeptByApi /\ (smooth' => smooth)
<1>1. Author \in Servers /\ Reader \in Servers /\ Author # Reader /\ Slots = {"api", "inbox", "worker"}
  BY ServersAre DEF Slots
<1>2. run'[Author]["worker"] = run[Author]["worker"] /\ run'[Reader]["inbox"] = run[Reader]["inbox"]
  BY <1>1 DEF Effect
<1>3. post'[Reader] = post[Reader] /\ notice'[Reader] = notice[Reader] /\ wire' = wire /\ smooth' = smooth
  BY <1>1 DEF Effect
<1>4. post'[Author] = P /\ jobs'[Author] = J /\ Left(Author, "api")' = t
  BY DEF Effect
<1> QED
  BY <1>2, <1>3, <1>4 DEF Api, Worker, WorkerRead, Box, BoxNew, Left, KeptByApi, CopyKept,
     NoticeKept, WireKept, WorkerKept, BoxKept

LEMMA WorkerEffect ==
  ASSUME NEW P, NEW F, NEW B, NEW N, NEW J, NEW t, Effect(Author, "worker", P, F, B, N, J, t), NoEvent
  PROVE  post'[Author] = P /\ jobs'[Author] = J /\ Worker' = t /\ KeptByWorker
<1>1. Author \in Servers /\ Reader \in Servers /\ Author # Reader /\ Slots = {"api", "inbox", "worker"}
  BY ServersAre DEF Slots
<1>2. run'[Author]["api"] = run[Author]["api"] /\ run'[Reader]["inbox"] = run[Reader]["inbox"]
  BY <1>1 DEF Effect
<1>3. post'[Reader] = post[Reader] /\ notice'[Reader] = notice[Reader] /\ wire' = wire /\ smooth' = smooth
  BY <1>1 DEF Effect
<1>4. post'[Author] = P /\ jobs'[Author] = J /\ Left(Author, "worker")' = t
  BY DEF Effect
<1> QED
  BY <1>2, <1>3, <1>4 DEF Worker, Api, ApiRead, ApiNew, Box, BoxNew, Left, KeptByWorker, CopyKept,
     NoticeKept, WireKept,
     ApiKept, BoxKept, PastKept, NoEvent

LEMMA BoxEffect ==
  ASSUME NEW P, NEW F, NEW B, NEW N, NEW J, NEW t, Effect(Reader, "inbox", P, F, B, N, J, t),
         created' = created, refused => refused'
  PROVE  post'[Reader] = P /\ notice'[Reader] = N /\ Box' = t /\ KeptByBox
<1>1. Author \in Servers /\ Reader \in Servers /\ Author # Reader /\ Slots = {"api", "inbox", "worker"}
  BY ServersAre DEF Slots
<1>2. run'[Author]["api"] = run[Author]["api"] /\ run'[Author]["worker"] = run[Author]["worker"]
  BY <1>1 DEF Effect
<1>3. post'[Author] = post[Author] /\ jobs'[Author] = jobs[Author] /\ wire' = wire /\ smooth' = smooth
  BY <1>1 DEF Effect
<1>4. post'[Reader] = P /\ notice'[Reader] = N /\ Left(Reader, "inbox")' = t
  BY DEF Effect
<1> QED
  BY <1>2, <1>3, <1>4 DEF Worker, WorkerRead, Api, ApiRead, ApiNew, Box, Left, KeptByBox, PostKept,
     JobsKept, WireKept,
     ApiKept, WorkerKept, PastKept

-----------------------------------------------------------------------------
(* Statements of the API requests of the author.                            *)

LEMMA AuthorSlots ==
  /\ Author \in Servers /\ Reader \in Servers /\ Author # Reader /\ Other(Author) = Reader /\ Other(Reader) = Author
  /\ "api" \in Slots /\ "inbox" \in Slots /\ "worker" \in Slots
BY ServersAre DEF Other

\* What a statement of the API leaves of the post, of the queue and of itself.
ApiTurns(P, J, t) ==
  post'[Author] = P /\ jobs'[Author] = J /\ Api' = t /\ KeptByApi /\ (smooth' => smooth)

LEMMA ApiTurnsTo ==
  ASSUME NEW P, NEW F, NEW B, NEW N, NEW J, NEW t, Effect(Author, "api", P, F, B, N, J, t)
  PROVE  ApiTurns(P, J, t)
BY ApiEffect DEF ApiTurns

LEMMA AuthorAdds ==
  ASSUME PostsInv, NEW x \in JobTypes, jobs'[Author] = Append(jobs[Author], x)
  PROVE  Adds(x)
<1>1. jobs[Author] \in Seq(JobTypes)
  BY ServersAre DEF PostsInv, QueuesOK, Jobs
<1> QED
  BY <1>1, AddsIs

LEMMA ApiKeepsOn ==
  ASSUME NEW t, ApiTurns(post[Author], jobs[Author], t), NoEvent
  PROVE  Api' = t /\ PostKept /\ JobsKept /\ KeptByApi /\ PastKept
BY DEF ApiTurns, PostKept, JobsKept, PastKept, NoEvent

LEMMA ApiAdds ==
  ASSUME PostsInv, NEW x \in JobTypes, ApiTurns(post[Author], Append(jobs[Author], x), <<>>), NoEvent
  PROVE  Api' = <<>> /\ PostKept /\ Adds(x) /\ KeptByApi /\ PastKept
BY AuthorAdds DEF ApiTurns, PostKept, PastKept, NoEvent

LEMMA PostingSteps ==
  ASSUME PostsInv, Statement(Author, "api"), Api \in {PostsCreate, Posting2, Posting3}
  PROVE  ApiSteps
<1>0. Author \in Servers /\ "api" \in Slots
  BY AuthorSlots
<1>1. CASE Api = PostsCreate
  <2>1. CreatePost(Author, "api")
    BY <1>1, <1>0, StatementNames, PostingListsAre DEF Api
  <2>2. ApiTurns(ApiNew, jobs[Author], Posting2) /\ ApiNew \in Row
    BY <1>1, <1>0, <2>1, CreatePostDoes, ApiTurnsTo, PostingListsAre DEF Api, ApiNew
  <2>3. post'[Author] = ApiNew /\ ApiNew # NoPost
    BY <2>2, NoRow DEF ApiTurns
  <2>4. ApiCreates
    BY <1>1, <2>2, <2>3 DEF ApiTurns, ApiCreates, JobsKept
  <2> QED
    BY <2>4 DEF ApiSteps
<1>2. CASE Api = Posting2
  <2>1. RefreshPostCount(Author, "api")
    BY <1>2, <1>0, StatementNames, PostingListsAre DEF Api
  <2>2. ApiTurns(post[Author], jobs[Author], Posting3) /\ NoEvent
    BY <1>2, <1>0, <2>1, PassDoes, ApiTurnsTo, PostingListsAre DEF Api
  <2>3. ApiRefreshes
    BY <1>2, <2>2, ApiKeepsOn DEF ApiRefreshes
  <2> QED
    BY <2>3 DEF ApiSteps
<1>3. CASE Api = Posting3
  <2>1. Enqueue(Author, "api", "EnqueueDeliverPost", "deliver_post")
    BY <1>3, <1>0, StatementNames, PostingListsAre DEF Api
  <2>2. ApiTurns(post[Author], Append(jobs[Author], "deliver_post"), <<>>) /\ NoEvent
    BY <1>3, <1>0, <2>1, EnqueueDoes, ApiTurnsTo, PostingListsAre DEF Api
  <2>3. "deliver_post" \in JobTypes
    BY OpNames
  <2>4. ApiDelivers
    BY <1>3, <2>2, <2>3, ApiAdds DEF ApiDelivers
  <2> QED
    BY <2>4 DEF ApiSteps
<1> QED
  BY <1>1, <1>2, <1>3

LEMMA EditingSteps ==
  ASSUME PostsInv, Statement(Author, "api"), Api \in {PostsUpdate, Editing2, Editing3}
  PROVE  ApiSteps
<1>0. Author \in Servers /\ "api" \in Slots
  BY AuthorSlots
<1>1. CASE Api = PostsUpdate
  <2>1. GetPost(Author, "api")
    BY <1>1, <1>0, StatementNames, EditingListsAre DEF Api
  <2>2. NoEvent /\ (ApiTurns(post[Author], jobs[Author], <<>>) \/ (ApiTurns(post[Author], jobs[Author], Editing2) /\ Holds(Author, "api", post[Author], ApiNew)))
    BY <1>1, <1>0, <2>1, GetPostDoes, ApiTurnsTo, EditingListsAre DEF Api, ApiNew
  <2>3. CASE ApiTurns(post[Author], jobs[Author], <<>>)
    <3>1. ApiElse
      BY <1>1, <2>2, <2>3, ApiKeepsOn, PostListsAre DEF ApiElse
    <3> QED
      BY <3>1 DEF ApiSteps
  <2>4. CASE ApiTurns(post[Author], jobs[Author], Editing2) /\ Holds(Author, "api", post[Author], ApiNew)
    <3>1. Api' = Editing2 /\ PostKept /\ JobsKept /\ KeptByApi /\ PastKept
      BY <2>2, <2>4, ApiKeepsOn
    <3>2. ApiRead' = post[Author]
      BY <2>4, <3>1, EditingListsAre DEF Holds, Api, ApiRead
    <3>3. ApiReads
      BY <1>1, <3>1, <3>2 DEF ApiReads
    <3> QED
      BY <3>3 DEF ApiSteps
  <2> QED
    BY <2>2, <2>3, <2>4
<1>2. CASE Api = Editing2
  <2>1. UpdatePost(Author, "api")
    BY <1>2, <1>0, StatementNames, EditingListsAre DEF Api
  <2>2. /\ ApiTurns(post'[Author], jobs[Author], Editing3) /\ NoEvent
        /\ post[Author] = NoPost => post'[Author] = NoPost
        /\ post[Author] # NoPost => /\ post'[Author] \in Row /\ post'[Author].text = ApiNew.text
                                    /\ post'[Author].mentions = ApiRead.mentions
        /\ ApiNew.text > 0
    BY <1>2, <1>0, <2>1, UpdatePostDoes, ApiTurnsTo, EditingListsAre DEF Api, ApiNew, ApiRead
  <2>3. Api' = Editing3 /\ JobsKept /\ KeptByApi /\ PastKept
    BY <2>2 DEF ApiTurns, JobsKept, PastKept, NoEvent
  <2>5. post'[Author].mentions => ApiRead.mentions /\ post'[Author].text # 0
    <3>1. CASE post[Author] = NoPost
      BY <2>2, <3>1, NoPostIs
    <3>2. CASE post[Author] # NoPost
      <4>1. ApiNew.text \in Nat
        BY <2>2, <3>2, ColumnsOf, BoundsAreNumbers DEF Texts
      <4>2. ApiNew.text # 0
        BY <2>2, <4>1
      <4> QED
        BY <2>2, <3>2, <4>2
    <3> QED
      BY <3>1, <3>2
  <2>6. ApiEdits
    BY <1>2, <2>2, <2>3, <2>5, NoRow DEF ApiEdits
  <2> QED
    BY <2>6 DEF ApiSteps
<1>3. CASE Api = Editing3
  <2>1. Enqueue(Author, "api", "EnqueueUpdatePost", "Update")
    BY <1>3, <1>0, StatementNames, EditingListsAre DEF Api
  <2>2. ApiTurns(post[Author], Append(jobs[Author], "Update"), <<>>) /\ NoEvent
    BY <1>3, <1>0, <2>1, EnqueueDoes, ApiTurnsTo, EditingListsAre DEF Api
  <2>3. "Update" \in JobTypes
    BY OpNames
  <2>4. ApiTellsEdit
    BY <1>3, <2>2, <2>3, ApiAdds DEF ApiTellsEdit
  <2> QED
    BY <2>4 DEF ApiSteps
<1> QED
  BY <1>1, <1>2, <1>3

LEMMA DeletingSteps ==
  ASSUME PostsInv, Statement(Author, "api"), Api \in {PostsDelete, Deleting2, Deleting3, Deleting4, Deleting5}
  PROVE  ApiSteps
<1>0. Author \in Servers /\ "api" \in Slots
  BY AuthorSlots
<1>1. CASE Api = PostsDelete
  <2>1. GetPost(Author, "api")
    BY <1>1, <1>0, StatementNames, DeletingListsAre DEF Api
  <2>2. NoEvent /\ (ApiTurns(post[Author], jobs[Author], <<>>) \/ (ApiTurns(post[Author], jobs[Author], Deleting2) /\ Holds(Author, "api", post[Author], ApiNew)))
    BY <1>1, <1>0, <2>1, GetPostDoes, ApiTurnsTo, DeletingListsAre DEF Api, ApiNew
  <2>3. CASE ApiTurns(post[Author], jobs[Author], <<>>)
    <3>1. ApiElse
      BY <1>1, <2>2, <2>3, ApiKeepsOn, PostListsAre DEF ApiElse
    <3> QED
      BY <3>1 DEF ApiSteps
  <2>4. CASE ApiTurns(post[Author], jobs[Author], Deleting2) /\ Holds(Author, "api", post[Author], ApiNew)
    <3>1. ApiElse
      BY <1>1, <2>2, <2>4, ApiKeepsOn, PostListsAre DEF ApiElse
    <3> QED
      BY <3>1 DEF ApiSteps
  <2> QED
    BY <2>2, <2>3, <2>4
<1>2. CASE Api = Deleting2
  <2>1. UnpinPost(Author, "api")
    BY <1>2, <1>0, StatementNames, DeletingListsAre DEF Api
  <2>2. ApiTurns(post[Author], jobs[Author], Deleting3) /\ NoEvent
    BY <1>2, <1>0, <2>1, PassDoes, ApiTurnsTo, DeletingListsAre DEF Api
  <2>3. ApiElse
    BY <1>2, <2>2, ApiKeepsOn, PostListsAre DEF ApiElse
  <2> QED
    BY <2>3 DEF ApiSteps
<1>3. CASE Api = Deleting3
  <2>1. DeletePost(Author, "api")
    BY <1>3, <1>0, StatementNames, DeletingListsAre DEF Api
  <2>2. /\ created' = created /\ (refused => refused')
        /\ ApiTurns(NoPost, jobs[Author], Deleting4) \/ ApiTurns(post[Author], jobs[Author], <<>>)
    BY <1>3, <1>0, <2>1, DeletePostDoes, ApiTurnsTo, DeletingListsAre DEF Api, NoEvent
  <2>3. CASE ApiTurns(NoPost, jobs[Author], Deleting4)
    <3>1. ApiDeletes
      BY <1>3, <2>2, <2>3 DEF ApiDeletes, ApiTurns, JobsKept, PastKept
    <3> QED
      BY <3>1 DEF ApiSteps
  <2>4. CASE ApiTurns(post[Author], jobs[Author], <<>>)
    <3>1. Api' = <<>> /\ PostKept /\ JobsKept /\ KeptByApi /\ PastKept
      BY <2>2, <2>4 DEF ApiTurns, PostKept, JobsKept, PastKept
    <3>2. ApiElse
      BY <1>3, <3>1, PostListsAre DEF ApiElse
    <3> QED
      BY <3>2 DEF ApiSteps
  <2> QED
    BY <2>2, <2>3, <2>4
<1>4. CASE Api = Deleting4
  <2>1. RefreshPostCount(Author, "api")
    BY <1>4, <1>0, StatementNames, DeletingListsAre DEF Api
  <2>2. ApiTurns(post[Author], jobs[Author], Deleting5) /\ NoEvent
    BY <1>4, <1>0, <2>1, PassDoes, ApiTurnsTo, DeletingListsAre DEF Api
  <2>3. ApiGoesOnDeleting
    BY <1>4, <2>2, ApiKeepsOn DEF ApiGoesOnDeleting
  <2> QED
    BY <2>3 DEF ApiSteps
<1>5. CASE Api = Deleting5
  <2>1. Enqueue(Author, "api", "EnqueueDeliverDelete", "Delete")
    BY <1>5, <1>0, StatementNames, DeletingListsAre DEF Api
  <2>2. ApiTurns(post[Author], Append(jobs[Author], "Delete"), <<>>) /\ NoEvent
    BY <1>5, <1>0, <2>1, EnqueueDoes, ApiTurnsTo, DeletingListsAre DEF Api
  <2>3. "Delete" \in JobTypes
    BY OpNames
  <2>4. ApiTellsDeletion
    BY <1>5, <2>2, <2>3, ApiAdds DEF ApiTellsDeletion
  <2> QED
    BY <2>4 DEF ApiSteps
<1> QED
  BY <1>1, <1>2, <1>3, <1>4, <1>5

LEMMA PinningSteps ==
  ASSUME PostsInv, Statement(Author, "api"), Api \in {PostsPin, Pinning2, PostsUnpin}
  PROVE  ApiSteps
<1>0. Author \in Servers /\ "api" \in Slots
  BY AuthorSlots
<1>1. CASE Api = PostsPin
  <2>1. GetPost(Author, "api")
    BY <1>1, <1>0, StatementNames, PinningListsAre DEF Api
  <2>2. NoEvent /\ (ApiTurns(post[Author], jobs[Author], <<>>) \/ (ApiTurns(post[Author], jobs[Author], Pinning2) /\ Holds(Author, "api", post[Author], ApiNew)))
    BY <1>1, <1>0, <2>1, GetPostDoes, ApiTurnsTo, PinningListsAre DEF Api, ApiNew
  <2>3. CASE ApiTurns(post[Author], jobs[Author], <<>>)
    <3>1. ApiElse
      BY <1>1, <2>2, <2>3, ApiKeepsOn, PostListsAre DEF ApiElse
    <3> QED
      BY <3>1 DEF ApiSteps
  <2>4. CASE ApiTurns(post[Author], jobs[Author], Pinning2) /\ Holds(Author, "api", post[Author], ApiNew)
    <3>1. ApiElse
      BY <1>1, <2>2, <2>4, ApiKeepsOn, PostListsAre DEF ApiElse
    <3> QED
      BY <3>1 DEF ApiSteps
  <2> QED
    BY <2>2, <2>3, <2>4
<1>2. CASE Api = Pinning2
  <2>1. PinPost(Author, "api")
    BY <1>2, <1>0, StatementNames, PinningListsAre DEF Api
  <2>2. ApiTurns(post[Author], jobs[Author], <<>>) /\ NoEvent
    BY <1>2, <1>0, <2>1, PassDoes, ApiTurnsTo, PinningListsAre DEF Api
  <2>3. ApiElse
    BY <1>2, <2>2, ApiKeepsOn, PostListsAre DEF ApiElse
  <2> QED
    BY <2>3 DEF ApiSteps
<1>3. CASE Api = PostsUnpin
  <2>1. UnpinPost(Author, "api")
    BY <1>3, <1>0, StatementNames, UnpinningListsAre DEF Api
  <2>2. ApiTurns(post[Author], jobs[Author], <<>>) /\ NoEvent
    BY <1>3, <1>0, <2>1, PassDoes, ApiTurnsTo, UnpinningListsAre DEF Api
  <2>3. ApiElse
    BY <1>3, <2>2, ApiKeepsOn, PostListsAre DEF ApiElse
  <2> QED
    BY <2>3 DEF ApiSteps
<1> QED
  BY <1>1, <1>2, <1>3

\* Favourites and reblogs of the author.
LEMMA InteractionSteps ==
  ASSUME PostsInv, Statement(Author, "api"), Api \in InteractionLists
  PROVE  ApiElse
<1> PICK h : h = Head(Left(Author, "api"))
  OBVIOUS
<1>0. Author \in Servers /\ "api" \in Slots
  BY AuthorSlots
<1>1. Left(Author, "api") # <<>> /\ Frame(Author, "api") /\ Outcome(Author, "api", h)
  BY <1>0, StatementDoes
<1>2. /\ Tail(Api) \in InteractionLists /\ <<>> \in InteractionLists
      /\ h \in {"GetPost", "CreateFavourite", "EnqueueSendLike", "DeleteFavourite", "EnqueueSendUndoLike",
                "CreateReblog", "CreateWrapper", "RefreshPostCount", "EnqueueSendAnnounce", "DeleteReblog",
                "DeleteReblogPost", "EnqueueSendUndoAnnounce"}
  <2>1. Api \in InteractionLists /\ Api # <<>> /\ h = Head(Api)
    BY <1>1 DEF Api
  <2>2. Tail(Api) \in InteractionLists /\ <<>> \in InteractionLists
    BY <2>1, InteractionListsEnd DEF InteractionLists
  <2> QED
    BY <2>1, <2>2, InteractionListsEnd
<1>3. PostKept /\ Api' \in InteractionLists /\ created' = created /\ refused' = refused
  <2>1. /\ MayPost(Author, h, post'[Author]) /\ MayLeave(Author, "api", h, Left(Author, "api")') /\ MayHappen(h)
    BY <1>1 DEF Outcome, May
  <2>2. h \notin PostWriters /\ h # "EnqueueMentioned" /\ h # "CreatePost" /\ h # "DeletePost"
    BY <1>2 DEF PostWriters
  <2> QED
    BY <1>2, <2>1, <2>2 DEF MayPost, MayLeave, MayHappen, PostKept, Api
<1>4. KeptByApi /\ (smooth' => smooth)
  BY <1>1, ServersAre DEF Frame, KeptByApi, CopyKept, NoticeKept, WireKept, WorkerKept, BoxKept,
     Worker, WorkerRead, Box, BoxNew, Left
<1>5. JobsKept \/ Adds("Announce") \/ Adds("UndoAnnounce")
  <2>1. CASE h \in {"EnqueueSendLike", "EnqueueSendUndoLike"}
    <3>1. \E st, type : EnqueueAbout(Author, "api", st, type)
      BY <1>0, <2>1, StatementNames
    <3>2. jobs'[Author] = jobs[Author]
      BY <1>0, <3>1, PassDoes DEF Effect
    <3> QED
      BY <3>2 DEF JobsKept
  <2>2. CASE h \in {"EnqueueSendAnnounce", "EnqueueSendUndoAnnounce"}
    <3>1. Enqueue(Author, "api", h, "Announce") \/ Enqueue(Author, "api", h, "UndoAnnounce")
      BY <1>0, <2>2, StatementNames
    <3>2. jobs'[Author] = Append(jobs[Author], "Announce") \/ jobs'[Author] = Append(jobs[Author], "UndoAnnounce")
      BY <1>0, <3>1, EnqueueDoes DEF Effect
    <3> QED
      BY <3>2, AuthorAdds, OpNames
  <2>3. CASE h \notin Enqueuers
    <3>1. MayJobs(Author, h, jobs'[Author])
      BY <1>1 DEF Outcome, May
    <3> QED
      BY <2>3, <3>1 DEF MayJobs, JobsKept
  <2> QED
    BY <1>2, <2>1, <2>2, <2>3 DEF Enqueuers
<1>6. /\ Api \notin Postings /\ Api # Editing2 /\ Api # Editing3 /\ Api \notin Deletings
      /\ Api' \notin Postings /\ Api' # Editing2 /\ Api' # Editing3 /\ Api' \notin Deletings
  BY <1>3, InteractionListsAre
<1> QED
  BY <1>3, <1>4, <1>5, <1>6 DEF ApiElse, PastKept

LEMMA ApiStatementSteps ==
  ASSUME PostsInv, ListsInv, Statement(Author, "api")
  PROVE  ApiSteps
<1>1. Api \in InteractionLists \cup PostLists
  BY ServersAre DEF ListsInv, LeftOK, ListsAt, Api
<1>2. CASE Api \in InteractionLists
  BY <1>2, InteractionSteps DEF ApiSteps
<1>3. CASE Api \in PostLists
  BY <1>3, PostingSteps, EditingSteps, DeletingSteps, PinningSteps DEF PostLists
<1> QED
  BY <1>1, <1>2, <1>3

-----------------------------------------------------------------------------
(* Statements of the job of the author, and of the inbox of the reader.     *)

WorkerTurns(P, J, t) ==
  post'[Author] = P /\ jobs'[Author] = J /\ Worker' = t /\ KeptByWorker

LEMMA WorkerTurnsTo ==
  ASSUME NEW P, NEW F, NEW B, NEW N, NEW J, NEW t, Effect(Author, "worker", P, F, B, N, J, t), NoEvent
  PROVE  WorkerTurns(P, J, t)
BY WorkerEffect DEF WorkerTurns

LEMMA WorkerAdds ==
  ASSUME PostsInv, NEW t, WorkerTurns(post[Author], Append(jobs[Author], "Create"), t)
  PROVE  Worker' = t /\ PostKept /\ Adds("Create") /\ KeptByWorker
BY AuthorAdds, OpNames DEF WorkerTurns, PostKept

LEMMA WorkerKeepsOn ==
  ASSUME NEW t, WorkerTurns(post[Author], jobs[Author], t)
  PROVE  Worker' = t /\ PostKept /\ JobsKept /\ KeptByWorker
BY DEF WorkerTurns, PostKept, JobsKept

LEMMA WorkerStatementSteps ==
  ASSUME PostsInv, ListsInv, Statement(Author, "worker")
  PROVE  WorkerSteps
<1>0. Author \in Servers /\ "worker" \in Slots
  BY AuthorSlots
<1>1. CASE Worker = DeliverPost
  <2>1. GetPost(Author, "worker")
    BY <1>1, <1>0, StatementNames, DeliveringListsAre DEF Worker
  <2>2. \/ /\ WorkerTurns(post[Author], jobs[Author], Deliver2)
           /\ Holds(Author, "worker", post[Author], run[Author]["worker"].new)
        \/ /\ WorkerTurns(post[Author], jobs[Author], <<>>)
           /\ post[Author] = NoPost
    BY <1>1, <1>0, <2>1, GetPostDoes, WorkerTurnsTo, DeliveringListsAre DEF Worker
  <2>3. CASE /\ WorkerTurns(post[Author], jobs[Author], Deliver2)
             /\ Holds(Author, "worker", post[Author], run[Author]["worker"].new)
    <3>1. Worker' = Deliver2 /\ PostKept /\ JobsKept /\ KeptByWorker
      BY <2>3, WorkerKeepsOn
    <3>2. WorkerRead' = post[Author]
      BY <2>3, <3>1, DeliveringListsAre DEF Holds, Worker, WorkerRead
    <3>3. WorkerReads
      BY <1>1, <3>1, <3>2 DEF WorkerReads
    <3> QED
      BY <3>3 DEF WorkerSteps
  <2>4. CASE WorkerTurns(post[Author], jobs[Author], <<>>) /\ post[Author] = NoPost
    <3>1. WorkerEnds
      BY <1>1, <2>4, WorkerKeepsOn DEF WorkerEnds
    <3> QED
      BY <3>1 DEF WorkerSteps
  <2> QED
    BY <2>2, <2>3, <2>4
<1>2. CASE Worker = Deliver2
  <2>1. EnqueueMentioned(Author, "worker")
    BY <1>2, <1>0, StatementNames, DeliveringListsAre DEF Worker
  <2>2. /\ Holds(Author, "worker", WorkerRead, run[Author]["worker"].new)
        /\ \/ WorkerTurns(post[Author], Append(jobs[Author], "Create"), Deliver3)
           \/ WorkerTurns(post[Author], jobs[Author], Deliver4)
    BY <1>2, <1>0, <2>1, EnqueueMentionedDoes, WorkerTurnsTo, DeliveringListsAre DEF Worker, WorkerRead
  <2>3. CASE WorkerTurns(post[Author], Append(jobs[Author], "Create"), Deliver3)
    <3>1. WorkerTells
      BY <1>2, <2>3, WorkerAdds DEF WorkerTells
    <3> QED
      BY <3>1 DEF WorkerSteps
  <2>4. CASE WorkerTurns(post[Author], jobs[Author], Deliver4)
    <3>1. Worker' = Deliver4 /\ PostKept /\ JobsKept /\ KeptByWorker
      BY <2>4, WorkerKeepsOn
    <3>2. WorkerRead' = WorkerRead
      BY <2>2, <3>1, DeliveringListsAre DEF Holds, Worker, WorkerRead
    <3>3. WorkerTellsNobody
      BY <1>2, <3>1, <3>2 DEF WorkerTellsNobody
    <3> QED
      BY <3>3 DEF WorkerSteps
  <2> QED
    BY <2>2, <2>3, <2>4
<1>3. CASE Worker = Deliver3
  <2>1. UpdatePostMentions(Author, "worker")
    BY <1>3, <1>0, StatementNames, DeliveringListsAre DEF Worker
  <2>2. /\ WorkerTurns(post'[Author], jobs[Author], Deliver4)
        /\ post[Author] = NoPost => post'[Author] = NoPost
        /\ post[Author] # NoPost => post'[Author] \in Row /\ post'[Author].text = post[Author].text
    BY <1>3, <1>0, <2>1, UpdatePostMentionsDoes, WorkerTurnsTo, DeliveringListsAre DEF Worker
  <2>3. WorkerMentions
    BY <1>3, <2>2, NoRow DEF WorkerMentions, WorkerTurns, JobsKept
  <2> QED
    BY <2>3 DEF WorkerSteps
<1>4. CASE Worker = Deliver4
  <2>1. Fanout(Author, "worker")
    BY <1>4, <1>0, StatementNames, DeliveringListsAre DEF Worker
  <2>2. \/ WorkerRead.mentions /\ WorkerTurns(post[Author], jobs[Author], <<>>)
        \/ WorkerTurns(post[Author], Append(jobs[Author], "Create"), <<>>)
    BY <1>4, <1>0, <2>1, FanoutDoes, WorkerTurnsTo, DeliveringListsAre DEF Worker, WorkerRead
  <2>3. WorkerFansOut
    BY <1>4, <2>2, WorkerAdds, WorkerKeepsOn DEF WorkerFansOut
  <2> QED
    BY <2>3 DEF WorkerSteps
<1>5. Worker \in DeliverLists /\ Worker # <<>>
  BY <1>0, AuthorSlots, StatementNames DEF ListsInv, LeftOK, ListsAt, Worker
<1> QED
  BY <1>1, <1>2, <1>3, <1>4, <1>5 DEF DeliverLists

BoxTurns(P, N, t) ==
  post'[Reader] = P /\ notice'[Reader] = N /\ Box' = t /\ KeptByBox

LEMMA BoxTurnsTo ==
  ASSUME NEW P, NEW F, NEW B, NEW N, NEW J, NEW t, Effect(Reader, "inbox", P, F, B, N, J, t), NoEvent
  PROVE  BoxTurns(P, N, t)
BY BoxEffect DEF BoxTurns, NoEvent

LEMMA BoxKeepsOn ==
  ASSUME NEW t, BoxTurns(post[Reader], notice[Reader], t)
  PROVE  Box' = t /\ CopyKept /\ NoticeKept /\ KeptByBox
BY DEF BoxTurns, CopyKept, NoticeKept

LEMMA BoxHolds ==
  ASSUME NEW read, NEW new, Holds(Reader, "inbox", read, new), Box' # <<>>
  PROVE  BoxNew' = new
BY DEF Holds, Box, BoxNew

LEMMA FetchingSteps ==
  ASSUME PostsInv, Statement(Reader, "inbox"), Box \in {Fetch1, InboxCreate, Notifying}
  PROVE  BoxSteps
<1>0. Reader \in Servers /\ "inbox" \in Slots /\ Author \in Servers /\ Other(Reader) = Author
  BY AuthorSlots
<1>1. CASE Box = Fetch1
  <2>1. FetchNote(Reader, "inbox")
    BY <1>1, <1>0, StatementNames, FetchListsAre DEF Box
  <2>2. \/ post[Author] # NoPost /\ BoxTurns(post[Reader], notice[Reader], InboxCreate) /\ Holds(Reader, "inbox", NoPost, post[Author])
        \/ BoxTurns(post[Reader], notice[Reader], <<>>)
    BY <1>1, <1>0, <2>1, FetchNoteDoes, BoxTurnsTo, FetchListsAre DEF Box
  <2>3. CASE post[Author] # NoPost /\ BoxTurns(post[Reader], notice[Reader], InboxCreate) /\ Holds(Reader, "inbox", NoPost, post[Author])
    <3>1. Box' = InboxCreate /\ CopyKept /\ NoticeKept /\ KeptByBox
      BY <2>3, BoxKeepsOn
    <3>2. BoxNew' = post[Author]
      BY <2>3, <3>1, BoxHolds, FetchListsAre
    <3>3. BoxFetches
      BY <1>1, <2>3, <3>1, <3>2 DEF BoxFetches
    <3> QED
      BY <3>3 DEF BoxSteps
  <2>4. CASE BoxTurns(post[Reader], notice[Reader], <<>>)
    <3>1. BoxElse
      BY <1>1, <2>4, BoxKeepsOn DEF BoxElse
    <3> QED
      BY <3>1 DEF BoxSteps
  <2> QED
    BY <2>2, <2>3, <2>4
<1>2. CASE Box = InboxCreate
  <2>1. StoreNote(Reader, "inbox")
    BY <1>2, <1>0, StatementNames, FetchListsAre DEF Box
  <2>2. \/ /\ post[Reader] = NoPost /\ Holds(Reader, "inbox", run[Reader]["inbox"].read, BoxNew)
           /\ post'[Reader] \in Row /\ post'[Reader].text = BoxNew.text
           /\ BoxTurns(post'[Reader], notice[Reader], Notifying)
        \/ post[Reader] # NoPost /\ BoxTurns(post[Reader], notice[Reader], <<>>)
    BY <1>2, <1>0, <2>1, StoreNoteDoes, BoxTurnsTo, FetchListsAre DEF Box, BoxNew
  <2>3. CASE /\ post[Reader] = NoPost /\ Holds(Reader, "inbox", run[Reader]["inbox"].read, BoxNew)
             /\ post'[Reader] \in Row /\ post'[Reader].text = BoxNew.text
             /\ BoxTurns(post'[Reader], notice[Reader], Notifying)
    <3>1. Box' = Notifying /\ NoticeKept /\ KeptByBox
      BY <2>3 DEF BoxTurns, NoticeKept
    <3>2. BoxNew' = BoxNew
      BY <2>3, <3>1, BoxHolds, FetchListsAre
    <3>3. BoxStores
      BY <1>2, <2>3, <3>1, <3>2, NoRow DEF BoxStores
    <3> QED
      BY <3>3 DEF BoxSteps
  <2>4. CASE post[Reader] # NoPost /\ BoxTurns(post[Reader], notice[Reader], <<>>)
    <3>1. BoxHasIt
      BY <1>2, <2>4, BoxKeepsOn DEF BoxHasIt
    <3> QED
      BY <3>1 DEF BoxSteps
  <2> QED
    BY <2>2, <2>3, <2>4
<1>3. CASE Box = Notifying
  <2>1. Notify(Reader, "inbox")
    BY <1>3, <1>0, StatementNames, FetchListsAre DEF Box
  <2>2. /\ BoxTurns(post[Reader], notice'[Reader], <<>>)
        /\ "mention" \in notice[Reader] => "mention" \in notice'[Reader]
        /\ BoxNew.mentions => "mention" \in notice'[Reader]
    BY <1>3, <1>0, <2>1, NotifyDoes, BoxTurnsTo, FetchListsAre, AuthorSlots DEF Box, BoxNew
  <2>3. BoxTells
    BY <1>3, <2>2 DEF BoxTells, BoxTurns, CopyKept
  <2> QED
    BY <2>3 DEF BoxSteps
<1> QED
  BY <1>1, <1>2, <1>3

LEMMA UpdatingSteps ==
  ASSUME PostsInv, Statement(Reader, "inbox"), Box \in {InboxUpdate, Update2}
  PROVE  BoxSteps
<1>0. Reader \in Servers /\ "inbox" \in Slots /\ Author \in Servers /\ Other(Reader) = Author
  BY AuthorSlots
<1>1. CASE Box = InboxUpdate
  <2>1. GetPost(Reader, "inbox")
    BY <1>1, <1>0, StatementNames, UpdateListsAre DEF Box
  <2>2. (BoxTurns(post[Reader], notice[Reader], Update2) /\ Holds(Reader, "inbox", post[Reader], BoxNew))
        \/ (post[Reader] = NoPost /\ BoxTurns(post[Reader], notice[Reader], <<>>))
    BY <1>1, <1>0, <2>1, GetPostDoes, BoxTurnsTo, UpdateListsAre DEF Box, BoxNew
  <2>3. CASE BoxTurns(post[Reader], notice[Reader], Update2) /\ Holds(Reader, "inbox", post[Reader], BoxNew)
    <3>1. Box' = Update2 /\ CopyKept /\ NoticeKept /\ KeptByBox
      BY <2>3, BoxKeepsOn
    <3>2. BoxNew' = BoxNew
      BY <2>3, <3>1, BoxHolds, UpdateListsAre
    <3>3. BoxFindsToUpdate
      BY <1>1, <3>1, <3>2 DEF BoxFindsToUpdate
    <3> QED
      BY <3>3 DEF BoxSteps
  <2>4. CASE post[Reader] = NoPost /\ BoxTurns(post[Reader], notice[Reader], <<>>)
    <3>1. BoxElse
      BY <1>1, <2>4, BoxKeepsOn DEF BoxElse
    <3> QED
      BY <3>1 DEF BoxSteps
  <2> QED
    BY <2>2, <2>3, <2>4
<1>2. CASE Box = Update2
  <2>1. UpdateNote(Reader, "inbox")
    BY <1>2, <1>0, StatementNames, UpdateListsAre DEF Box
  <2> DEFINE P == post'[Reader]
  <2>4. /\ NoEvent
        /\ post[Reader] = NoPost => P = NoPost
        /\ post[Reader] # NoPost => P \in Row /\ P.text = run[Reader]["inbox"].new.text
        /\ Effect(Reader, "inbox", P, favourite[Reader], reblog[Reader], notice[Reader],
             jobs[Reader], Tail(Left(Reader, "inbox")))
    BY <1>0, <2>1, UpdateNoteDoes
  <2>5. Tail(Left(Reader, "inbox")) = <<>>
    BY <1>2, UpdateListsAre DEF Box
  <2> HIDE DEF P
  <2>6. BoxTurns(P, notice[Reader], <<>>)
    BY <2>4, <2>5, BoxTurnsTo
  <2>2. /\ BoxTurns(post'[Reader], notice[Reader], <<>>)
        /\ post[Reader] = NoPost => post'[Reader] = NoPost
        /\ post[Reader] # NoPost => post'[Reader] \in Row /\ post'[Reader].text = BoxNew.text
    BY <2>4, <2>6 DEF P, BoxNew
  <2>3. BoxUpdates
    BY <1>2, <2>2, NoRow DEF BoxUpdates, BoxTurns, NoticeKept
  <2> QED
    BY <2>3 DEF BoxSteps
<1> QED
  BY <1>1, <1>2

LEMMA RemovingSteps ==
  ASSUME PostsInv, Statement(Reader, "inbox"), Box \in {InboxDelete, Delete2}
  PROVE  BoxSteps
<1>0. Reader \in Servers /\ "inbox" \in Slots /\ Author \in Servers /\ Other(Reader) = Author
  BY AuthorSlots
<1>1. CASE Box = InboxDelete
  <2>1. GetPost(Reader, "inbox")
    BY <1>1, <1>0, StatementNames, DeleteListsAre DEF Box
  <2>2. (BoxTurns(post[Reader], notice[Reader], Delete2) /\ Holds(Reader, "inbox", post[Reader], BoxNew))
        \/ (post[Reader] = NoPost /\ BoxTurns(post[Reader], notice[Reader], <<>>))
    BY <1>1, <1>0, <2>1, GetPostDoes, BoxTurnsTo, DeleteListsAre DEF Box, BoxNew
  <2>3. CASE BoxTurns(post[Reader], notice[Reader], Delete2) /\ Holds(Reader, "inbox", post[Reader], BoxNew)
    <3>1. Box' = Delete2 /\ CopyKept /\ NoticeKept /\ KeptByBox
      BY <2>3, BoxKeepsOn
    <3>2. BoxNew' = BoxNew
      BY <2>3, <3>1, BoxHolds, DeleteListsAre
    <3>3. BoxFindsToDelete
      BY <1>1, <3>1, <3>2 DEF BoxFindsToDelete
    <3> QED
      BY <3>3 DEF BoxSteps
  <2>4. CASE post[Reader] = NoPost /\ BoxTurns(post[Reader], notice[Reader], <<>>)
    <3>1. BoxElse
      BY <1>1, <2>4, BoxKeepsOn DEF BoxElse
    <3> QED
      BY <3>1 DEF BoxSteps
  <2> QED
    BY <2>2, <2>3, <2>4
<1>2. CASE Box = Delete2
  <2>1. DeletePost(Reader, "inbox")
    BY <1>2, <1>0, StatementNames, DeleteListsAre DEF Box
  <2>2. \/ BoxTurns(NoPost, notice[Reader], <<>>)
        \/ BoxTurns(post[Reader], notice[Reader], <<>>) /\ refused'
    <3>1. CASE Effect(Reader, "inbox", NoPost, favourite[Reader], reblog[Reader], notice[Reader], jobs[Reader], <<>>) /\ NoEvent
      BY <3>1, BoxTurnsTo
    <3>2. CASE Effect(Reader, "inbox", post[Reader], favourite[Reader], reblog[Reader], notice[Reader], jobs[Reader], <<>>)
               /\ created' = created /\ refused' = (refused \/ "inbox" = "inbox")
      BY <3>2, BoxEffect DEF BoxTurns
    <3> QED
      BY <1>2, <1>0, <2>1, <3>1, <3>2, DeletePostDoes, DeleteListsAre DEF Box
  <2>3. BoxDeletes
    BY <1>2, <2>2, BoxKeepsOn DEF BoxDeletes, BoxTurns, NoticeKept
  <2> QED
    BY <2>3 DEF BoxSteps
<1> QED
  BY <1>1, <1>2

LEMMA RepeatingSteps ==
  ASSUME PostsInv, Statement(Reader, "inbox"), Box \in {Repeat1}
  PROVE  BoxSteps
<1>0. Reader \in Servers /\ "inbox" \in Slots /\ Author \in Servers /\ Other(Reader) = Author
  BY AuthorSlots
<1>1. CASE Box = Repeat1
  <2>1. CreateRemoteWrapper(Reader, "inbox")
    BY <1>1, <1>0, StatementNames, RepeatListsAre DEF Box
  <2>2. BoxTurns(post[Reader], notice[Reader], <<>>)
    BY <1>1, <1>0, <2>1, PassDoes, BoxTurnsTo, RepeatListsAre DEF Box
  <2>3. BoxElse
    BY <1>1, <2>2, BoxKeepsOn DEF BoxElse
  <2> QED
    BY <2>3 DEF BoxSteps
<1> QED
  BY <1>1

LEMMA BoxStatementSteps ==
  ASSUME PostsInv, ListsInv, Statement(Reader, "inbox")
  PROVE  BoxSteps
<1>1. Box \in NoteLists /\ Box # <<>>
  BY AuthorSlots, StatementNames DEF ListsInv, LeftOK, ListsAt, Box
<1> QED
  BY <1>1, FetchingSteps, UpdatingSteps, RemovingSteps, RepeatingSteps DEF NoteLists

-----------------------------------------------------------------------------
(* The other steps.                                                         *)

LEMMA OtherStatementSteps ==
  ASSUME PostsInv, ListsInv, NEW s \in Servers, NEW k \in Slots, Statement(s, k),
         s = Author => k = "inbox", s = Reader => k # "inbox"
  PROVE  Untouched
<1> PICK h : h = Head(Left(s, k))
  OBVIOUS
<1>1. Left(s, k) # <<>> /\ Frame(s, k) /\ Outcome(s, k, h) /\ Left(s, k) \in ListsAt(s, k)
  BY StatementDoes DEF ListsInv, LeftOK
<1>2. Author \in Servers /\ Reader \in Servers /\ Author # Reader /\ s \in {Author, Reader} /\ Slots = {"api", "inbox", "worker"}
  BY ServersAre DEF Servers, Slots
<1>3. \/ /\ s = Author /\ k = "inbox"
         /\ h \in {"GetPost", "CreateFavourite", "Notify", "DeleteFavourite", "DeleteNotification",
                   "CreateReblog", "DeleteReblog"}
      \/ /\ s = Reader /\ k = "api"
         /\ h \in {"GetPost", "CreateFavourite", "EnqueueSendLike", "DeleteFavourite", "EnqueueSendUndoLike",
                   "CreateReblog", "CreateWrapper", "RefreshPostCount", "EnqueueSendAnnounce", "DeleteReblog",
                   "DeleteReblogPost", "EnqueueSendUndoAnnounce"}
  BY <1>1, <1>2, HeadsAt
<1>4. /\ MayPost(s, h, post'[s]) /\ MayNotice(s, h, notice'[s]) /\ MayJobs(s, h, jobs'[s]) /\ MayHappen(h)
      /\ \A x \in Servers : x # s => post'[x] = post[x] /\ notice'[x] = notice[x] /\ jobs'[x] = jobs[x]
      /\ wire' = wire /\ smooth' = smooth
      /\ \A x \in Servers, l \in Slots : x # s \/ l # k => run'[x][l] = run[x][l]
  BY <1>1 DEF Outcome, May, Frame
<1>5. post'[s] = post[s] /\ created' = created /\ refused' = refused
  BY <1>3, <1>4 DEF MayPost, MayHappen, PostWriters
<1>6. notice'[Reader] = notice[Reader]
  BY <1>2, <1>3, <1>4 DEF MayNotice
<1>7. jobs'[Author] = jobs[Author]
  BY <1>2, <1>3, <1>4 DEF MayJobs, Enqueuers
<1>8. run'[Author]["api"] = run[Author]["api"] /\ run'[Author]["worker"] = run[Author]["worker"]
      /\ run'[Reader]["inbox"] = run[Reader]["inbox"]
  BY <1>2, <1>3, <1>4
<1>9. post'[Author] = post[Author] /\ post'[Reader] = post[Reader]
  BY <1>2, <1>4, <1>5
<1> QED
  BY <1>4, <1>5, <1>6, <1>7, <1>8, <1>9 DEF Untouched, PostKept, CopyKept, NoticeKept, JobsKept, WireKept, ApiKept,
     WorkerKept, BoxKept, PastKept, Api, ApiRead, ApiNew, Worker, WorkerRead, Box, BoxNew, Left

\* Nothing is under way before the post is created.
LEMMA NothingYet ==
  ASSUME PostsInv, ~created, Api = <<>>
  PROVE  /\ \A x : ~Waits(jobs[Author], x)
         /\ Worker = <<>> /\ wire[Author] = {} /\ Box = <<>> /\ ~post[Author].mentions /\ post[Reader] = NoPost
<1>1. Author \in Servers /\ Reader \in Servers /\ Author # Reader /\ "worker" \in Slots /\ "inbox" \in Slots
  BY ServersAre
<1>2. /\ post[Author] = NoPost /\ post[Reader] = NoPost /\ jobs[Author] = <<>> /\ wire[Author] = {}
      /\ run[Author]["worker"] = Idle /\ run[Reader]["inbox"] = Idle
  BY <1>1 DEF PostsInv, FreshOK
<1>3. \A x : ~Waits(<<>>, x)
  BY DEF Waits
<1> QED
  BY <1>2, <1>3, IdleOK, NoPostIs DEF Worker, Box, Left

LEMMA CallSteps ==
  ASSUME PostsInv, NEW op \in Ops, Call(Author, op)
  PROVE  Calls
<1>1. Author \in Servers /\ Reader \in Servers /\ Author # Reader
      /\ "api" \in Slots /\ "worker" \in Slots /\ "inbox" \in Slots /\ "worker" # "api"
  BY ServersAre
<1>2. /\ op \in DOMAIN Methods
      /\ op = "posts_create" => ~created
      /\ Api = <<>> /\ Api' = Methods[op]
      /\ op = "posts_create" => ~ApiNew'.mentions
      /\ \A x \in Servers, l \in Slots : x # Author \/ l # "api" => run'[x][l] = run[x][l]
      /\ UNCHANGED <<post, notice, jobs, wire, created, refused, smooth>>
  BY <1>1, CallDoes DEF Api, ApiNew
<1>3. PostKept /\ JobsKept /\ KeptByApi /\ PastKept
  BY <1>1, <1>2 DEF PostKept, CopyKept, NoticeKept, JobsKept, WireKept, KeptByApi, WorkerKept, BoxKept, PastKept,
     Worker, WorkerRead, Box, BoxNew, Left
<1>4. Api' # Editing2 /\ Api' # Editing3 /\ Api' \notin Deletings /\ (Api' \in Postings => op = "posts_create")
  <2>1. CASE op \in Interactions
    BY <1>2, <2>1, MethodLists, InteractionListsAre
  <2>2. CASE op \in {"posts_create", "posts_update", "posts_delete", "posts_pin", "posts_unpin"}
    <3>1. /\ Methods["posts_create"] = PostsCreate /\ Methods["posts_update"] = PostsUpdate
          /\ Methods["posts_delete"] = PostsDelete /\ Methods["posts_pin"] = PostsPin /\ Methods["posts_unpin"] = PostsUnpin
      BY DEF Methods
    <3> QED
      BY <1>2, <2>2, <3>1, PostListsAre
  <2> QED
    BY <1>2, <2>1, <2>2, OpNames
<1>5. op = "posts_create" =>
        /\ \A x : ~Waits(jobs[Author], x)
        /\ Worker = <<>> /\ wire[Author] = {} /\ Box = <<>> /\ ~post[Author].mentions /\ post[Reader] = NoPost
  BY <1>2, NothingYet
<1> QED
  BY <1>2, <1>3, <1>4, <1>5 DEF Calls

LEMMA ReaderCallSteps ==
  ASSUME PostsInv, NEW op \in Ops, Call(Reader, op)
  PROVE  Untouched
<1>1. Author \in Servers /\ Reader \in Servers /\ Author # Reader
      /\ "api" \in Slots /\ "worker" \in Slots /\ "inbox" \in Slots /\ "inbox" # "api"
  BY ServersAre
<1>2. /\ \A x \in Servers, l \in Slots : x # Reader \/ l # "api" => run'[x][l] = run[x][l]
      /\ UNCHANGED <<post, notice, jobs, wire, created, refused, smooth>>
  BY <1>1, CallDoes
<1> QED
  BY <1>1, <1>2 DEF Untouched, PostKept, CopyKept, NoticeKept, JobsKept, WireKept, ApiKept,
     WorkerKept, BoxKept, PastKept, Api, ApiRead, ApiNew, Worker, WorkerRead, Box, BoxNew, Left

LEMMA JobWaits ==
  ASSUME PostsInv, NEW i \in DOMAIN jobs[Author]
  PROVE  Waits(jobs[Author], jobs[Author][i]) /\ jobs[Author] \in Seq(JobTypes)
<1>1. jobs[Author] \in Seq(JobTypes)
  BY ServersAre DEF PostsInv, QueuesOK, Jobs
<1>2. i \in 1..Len(jobs[Author])
  BY <1>1
<1> QED
  BY <1>1, <1>2 DEF Waits

LEMMA BeginSteps ==
  ASSUME PostsInv, NEW s \in Servers, NEW i \in DOMAIN jobs[s], BeginDeliverPost(s, i)
  PROVE  Begins
<1>1. Author \in Servers /\ Reader \in Servers /\ Author # Reader
      /\ "api" \in Slots /\ "worker" \in Slots /\ "inbox" \in Slots /\ "worker" # "api"
  BY ServersAre
<1>2. /\ s = Author /\ jobs[s][i] = "deliver_post"
      /\ Left(s, "worker") = <<>> /\ Left(s, "worker")' = DeliverPost
      /\ \A x \in Servers, l \in Slots : x # s \/ l # "worker" => run'[x][l] = run[x][l]
      /\ jobs'[s] = Without(jobs[s], i)
      /\ smooth' => smooth /\ i = 1
      /\ UNCHANGED <<post, notice, wire, created, refused>>
  BY BeginDoes
<1>3. Waits(jobs[Author], "deliver_post") /\ jobs[Author] \in Seq(JobTypes)
  BY <1>2, JobWaits
<1>4. smooth' => smooth /\ Takes("deliver_post")
  BY <1>2, <1>3, TakesIs
<1>5. WireKept /\ BoxKept /\ KeptByQueue
  BY <1>1, <1>2 DEF WireKept, BoxKept, KeptByQueue, PostKept, CopyKept, NoticeKept, ApiKept, Api, ApiRead, ApiNew,
     Box, BoxNew, Left
<1> QED
  BY <1>2, <1>3, <1>4, <1>5 DEF Begins, Worker

LEMMA SendSteps ==
  ASSUME PostsInv, NEW i \in DOMAIN jobs[Author], Send(Author, i)
  PROVE  Sends(jobs[Author][i])
<1> PICK x : x = jobs[Author][i]
  OBVIOUS
<1> PICK a : a = Said(Author, x)
  OBVIOUS
<1>0. Author \in Servers
  BY ServersAre
<1>1. /\ x # "deliver_post" /\ (x \in {"Create", "Update"} => post[Author] # NoPost)
      /\ jobs'[Author] = Without(jobs[Author], i) /\ wire'[Author] = wire[Author] \cup {a}
      /\ smooth' => smooth /\ i = 1 /\ wire[Author] = {} /\ Left(Author, "worker") = <<>>
      /\ UNCHANGED <<post, notice, run, created, refused>>
  BY <1>0, SendDoes
<1>2. /\ a.type = x /\ (x \in {"Create", "Update"} => a.text = post[Author].text)
      /\ x = "Create" => a.mentions = post[Author].mentions
  BY <1>0, SaidIs
<1>3. Waits(jobs[Author], x) /\ jobs[Author] \in Seq(JobTypes)
  BY JobWaits
<1>4. smooth' => Takes(x)
  BY <1>1, <1>3, TakesIs
<1>5. WorkerKept /\ BoxKept /\ KeptByQueue
  BY <1>1 DEF WorkerKept, BoxKept, KeptByQueue, PostKept, CopyKept, NoticeKept, ApiKept, Api, ApiRead, ApiNew,
     Box, BoxNew, Worker, WorkerRead, Left
<1>6. smooth' => wire'[Author] = {a}
  BY <1>1
<1>7. smooth' => \E b : /\ wire'[Author] = {b} /\ b.type = x
                        /\ x \in {"Create", "Update"} => b.text = post[Author].text
                        /\ x = "Create" /\ post[Author].mentions => b.mentions
  BY <1>2, <1>6
<1> QED
  BY <1>1, <1>3, <1>4, <1>5, <1>7 DEF Sends, Worker

LEMMA GiveUpSteps ==
  ASSUME PostsInv, NEW i \in DOMAIN jobs[Author], GiveUp(Author, i)
  PROVE  GivesUp(jobs[Author][i])
<1>1. /\ jobs'[Author] = Without(jobs[Author], i)
      /\ smooth' => smooth /\ jobs[Author][i] \in {"deliver_post", "Create", "Update"} /\ post[Author] = NoPost
      /\ UNCHANGED <<post, notice, run, wire, created, refused>>
  BY ServersAre, GiveUpDoes
<1>2. jobs[Author] \in Seq(JobTypes)
  BY JobWaits
<1>3. Drops(jobs[Author][i])
  BY <1>1, <1>2, DropsIs
<1>4. WireKept /\ WorkerKept /\ BoxKept /\ KeptByQueue
  BY <1>1 DEF WireKept, WorkerKept, BoxKept, KeptByQueue, PostKept, CopyKept, NoticeKept, ApiKept,
     Api, ApiRead, ApiNew,
     Box, BoxNew, Worker, WorkerRead, Left
<1> QED
  BY <1>1, <1>3, <1>4 DEF GivesUp

LEMMA ReceiveSteps ==
  ASSUME PostsInv, ListsInv, Single, NEW a \in wire[Author], Receive(Author, a)
  PROVE  Receives(a)
<1>1. Author \in Servers /\ Reader \in Servers /\ Author # Reader /\ Other(Author) = Reader
      /\ "api" \in Slots /\ "worker" \in Slots /\ "inbox" \in Slots
  BY AuthorSlots
<1>2. /\ a.type \in Jobs(Author) \cap Activities
      /\ Box = <<>> /\ Box' = Inbox(Reader)[a.type]
      /\ Box' # <<>> /\ a.type \in {"Create", "Update"} => BoxNew'.text = a.text /\ BoxNew'.mentions = a.mentions
      /\ \A x \in Servers, l \in Slots : x # Reader \/ l # "inbox" => run'[x][l] = run[x][l]
      /\ wire'[Author] = wire[Author] \ {a} /\ jobs'[Author] \in {jobs[Author], <<a.type>> \o jobs[Author]}
      /\ UNCHANGED <<post, notice, created, refused, smooth>>
  BY <1>1, ReceiveDoes DEF Box, BoxNew
<1>3. a.type \in {"Announce", "UndoAnnounce", "Create", "Update", "Delete"}
  <2>1. a.type \in Tidings
    BY DEF ListsInv, TalkOK
  <2> QED
    BY <1>2, <2>1, TidingsAre
<1>4. smooth => wire[Author] = {a} /\ wire'[Author] = {}
  BY <1>1, <1>2 DEF Single
<1>5. JobsKept \/ Repeats(a.type)
  <2>1. jobs[Author] \in Seq(JobTypes) /\ a.type \in JobTypes
    BY <1>1, <1>2 DEF PostsInv, QueuesOK, Jobs
  <2> QED
    BY <1>2, <2>1, RepeatsIs DEF JobsKept
<1>6. /\ a.type = "Create" => Box' = InboxCreate
      /\ a.type = "Update" => Box' = InboxUpdate
      /\ a.type = "Delete" => Box' = InboxDelete
      /\ a.type \notin {"Create", "Update", "Delete"} => Box' \in {Fetch1, Repeat1, <<>>}
  BY <1>2, <1>3, InboxLists
<1>7. a.type \in {"Create", "Update"} => BoxNew'.text = a.text /\ (a.mentions => BoxNew'.mentions)
  BY <1>2, <1>6, FetchListsAre, UpdateListsAre
<1>8. WorkerKept /\ KeptByQueue
  BY <1>1, <1>2 DEF WorkerKept, KeptByQueue, PostKept, CopyKept, NoticeKept, ApiKept, Api, ApiRead, ApiNew,
     Worker, WorkerRead, Left
<1> QED
  BY <1>2, <1>3, <1>4, <1>5, <1>6, <1>7, <1>8 DEF Receives

LEMMA ReaderReceives ==
  ASSUME PostsInv, NEW a \in wire[Reader], Receive(Reader, a)
  PROVE  /\ \A x \in Servers, l \in Slots : x # Author \/ l # "inbox" => run'[x][l] = run[x][l]
         /\ wire'[Author] = wire[Author] /\ jobs'[Author] = jobs[Author]
         /\ UNCHANGED <<post, notice, created, refused, smooth>>
<1>1. Reader \in Servers /\ Other(Reader) = Author
  BY AuthorSlots
<1> PICK t : t = Other(Reader)
  OBVIOUS
<1>2. /\ t \in Servers /\ t # Reader
      /\ \A x \in Servers, l \in Slots : x # t \/ l # "inbox" => run'[x][l] = run[x][l]
      /\ wire'[Reader] = wire[Reader] \ {a} /\ jobs'[Reader] \in {jobs[Reader], <<a.type>> \o jobs[Reader]}
      /\ wire'[t] = wire[t] /\ jobs'[t] = jobs[t]
      /\ UNCHANGED <<post, favourite, reblog, notice, created, refused, smooth>>
  BY <1>1, ReceiveDoes
<1> QED
  BY <1>1, <1>2

\* Whatever the reader does with what it says to the author.
LEMMA ReaderQueueSteps ==
  ASSUME PostsInv,
         \/ \E i \in DOMAIN jobs[Reader] : Send(Reader, i)
         \/ \E a \in wire[Reader] : Receive(Reader, a)
  PROVE  Untouched
<1>1. Author \in Servers /\ Reader \in Servers /\ Author # Reader /\ Other(Reader) = Author
      /\ "api" \in Slots /\ "worker" \in Slots /\ "inbox" \in Slots /\ "inbox" # "api" /\ "inbox" # "worker"
  BY AuthorSlots
<1>2. /\ UNCHANGED <<post, notice, created, refused>> /\ jobs'[Author] = jobs[Author] /\ wire'[Author] = wire[Author]
      /\ smooth' => smooth
      /\ run'[Author]["api"] = run[Author]["api"] /\ run'[Author]["worker"] = run[Author]["worker"]
      /\ run'[Reader]["inbox"] = run[Reader]["inbox"]
  <2>1. CASE \E i \in DOMAIN jobs[Reader] : Send(Reader, i)
    BY <1>1, <2>1, SendDoes
  <2>2. CASE \E a \in wire[Reader] : Receive(Reader, a)
    BY <1>1, <2>2, ReaderReceives
  <2> QED
    BY <2>1, <2>2
<1> QED
  BY <1>2 DEF Untouched, PostKept, CopyKept, NoticeKept, JobsKept, WireKept, ApiKept,
     WorkerKept, BoxKept, PastKept, Api, ApiRead, ApiNew, Worker, WorkerRead, Box, BoxNew, Left

-----------------------------------------------------------------------------
(* The invariant of the copy.                                               *)

CopyInv == OnceInv /\ ResolvedInv /\ MentionInv /\ ThereInv /\ TextInv /\ GoneInv

LEMMA ApiCopies == ASSUME CopyInv, ApiSteps PROVE CopyInv'
BY OnceInApiSteps, ResolvedInApiSteps, MentionInApiSteps, ThereInApiSteps, TextInApiSteps,
   GoneInApiSteps DEF CopyInv

LEMMA WorkerCopies == ASSUME CopyInv, WorkerSteps PROVE CopyInv'
BY OnceInWorkerSteps, ResolvedInWorkerSteps, MentionInWorkerSteps, ThereInWorkerSteps, TextInWorkerSteps,
   GoneInWorkerSteps DEF CopyInv

LEMMA BoxCopies == ASSUME CopyInv, BoxSteps PROVE CopyInv'
BY OnceInBoxSteps, ResolvedInBoxSteps, MentionInBoxSteps, ThereInBoxSteps, TextInBoxSteps,
   GoneInBoxSteps DEF CopyInv

LEMMA QueueCopies == ASSUME CopyInv, QueueSteps PROVE CopyInv'
BY OnceInQueueSteps, ResolvedInQueueSteps, MentionInQueueSteps, ThereInQueueSteps, TextInQueueSteps,
   GoneInQueueSteps DEF CopyInv

LEMMA UntouchedCopies == ASSUME CopyInv, Untouched PROVE CopyInv'
<1> USE DEF Untouched, PostKept, CopyKept, NoticeKept, JobsKept, WireKept, ApiKept, WorkerKept, BoxKept, PastKept
<1>1. OnceInv'
  BY DEF CopyInv, OnceInv, Undelivered
<1>2. ResolvedInv'
  BY DEF CopyInv, ResolvedInv
<1>3. MentionInv'
  BY DEF CopyInv, MentionInv
<1>4. ThereInv'
  BY DEF CopyInv, ThereInv, Undelivered, Tells
<1>5. TextInv'
  BY DEF CopyInv, TextInv, Tells
<1>6. GoneInv'
  BY DEF CopyInv, GoneInv, Tells
<1> QED
  BY <1>1, <1>2, <1>3, <1>4, <1>5, <1>6 DEF CopyInv

\* Out of order everything goes.
LEMMA UnorderedCopies == ASSUME ~smooth' PROVE CopyInv'
BY DEF CopyInv, OnceInv, ResolvedInv, MentionInv, ThereInv, TextInv, GoneInv

LEMMA InitCopies == Init => CopyInv
<1> SUFFICES ASSUME Init PROVE CopyInv
  OBVIOUS
<1>1. Author \in Servers /\ Reader \in Servers /\ "inbox" \in Slots /\ "api" \in Slots /\ "worker" \in Slots
  BY ServersAre
<1>2. /\ Api = <<>> /\ Worker = <<>> /\ Box = <<>> /\ jobs[Author] = <<>> /\ wire[Author] = {}
      /\ created => "mention" \in notice[Reader] /\ post[Author] # NoPost /\ post[Reader] # NoPost
      /\ created => post[Author].text = 0 /\ post[Reader].text = 0
      /\ ~created => post[Author] = NoPost /\ post[Reader] = NoPost
  BY <1>1, InitIs DEF Api, Worker, Box
<1>3. \A x : ~Waits(<<>>, x) /\ ~Tells({}, x)
  BY DEF Waits, Tells
<1>4. First(<<>>)
  BY DEF First
<1>5. OnceInv
  BY <1>2, <1>3, <1>4, PostListsAre DEF OnceInv, Undelivered
<1>6. ResolvedInv
  BY <1>2, <1>3, PostListsAre, DeliverListsAre DEF ResolvedInv
<1>7. MentionInv
  BY <1>2, <1>3, NoteListsAre, NoPostIs DEF MentionInv
<1>8. ThereInv
  BY <1>2, <1>3, NoteListsAre, PostListsAre DEF ThereInv
<1>9. TextInv
  BY <1>2, <1>3, NoteListsAre, PostListsAre DEF TextInv
<1>10. GoneInv
  BY <1>2, <1>3 DEF GoneInv
<1> QED
  BY <1>5, <1>6, <1>7, <1>8, <1>9, <1>10 DEF CopyInv

LEMMA NextCopies ==
  ASSUME PostsInv, ListsInv, Single, CopyInv, Next
  PROVE  CopyInv'
<1>1. PICK s \in Servers :
        \/ \E k \in Slots : Statement(s, k)
        \/ \E op \in Ops : Call(s, op)
        \/ \E i \in DOMAIN jobs[s] : BeginDeliverPost(s, i) \/ Send(s, i) \/ GiveUp(s, i)
        \/ \E a \in wire[s] : Receive(s, a)
  BY DEF Next
<1>2. s \in {Author, Reader} /\ Slots = {"api", "inbox", "worker"}
  BY ServersAre DEF Slots
<1>3. ASSUME NEW k \in Slots, Statement(s, k) PROVE CopyInv'
  <2>1. CASE s = Author /\ k = "api"
    BY <1>3, <2>1, ApiStatementSteps, ApiCopies
  <2>2. CASE s = Author /\ k = "worker"
    BY <1>3, <2>2, WorkerStatementSteps, WorkerCopies
  <2>3. CASE s = Reader /\ k = "inbox"
    BY <1>3, <2>3, BoxStatementSteps, BoxCopies
  <2>4. CASE (s = Author => k = "inbox") /\ (s = Reader => k # "inbox")
    BY <1>3, <2>4, OtherStatementSteps, UntouchedCopies
  <2> QED
    BY <1>2, <2>1, <2>2, <2>3, <2>4, ServersAre
<1>4. ASSUME NEW op \in Ops, Call(s, op) PROVE CopyInv'
  <2>1. CASE s = Author
    <3>1. ApiSteps
      BY <1>4, <2>1, CallSteps DEF ApiSteps
    <3> QED
      BY <3>1, ApiCopies
  <2>2. CASE s = Reader
    BY <1>4, <2>2, ReaderCallSteps, UntouchedCopies
  <2> QED
    BY <1>2, <2>1, <2>2
<1>5. ASSUME NEW i \in DOMAIN jobs[s], BeginDeliverPost(s, i) PROVE CopyInv'
  <2>1. QueueSteps
    BY <1>5, BeginSteps DEF QueueSteps
  <2> QED
    BY <2>1, QueueCopies
<1>6. ASSUME NEW i \in DOMAIN jobs[s], Send(s, i) PROVE CopyInv'
  <2>1. CASE s = Author
    <3>1. Sends(jobs[Author][i])
      BY <1>6, <2>1, SendSteps
    <3>2. QueueSteps
      BY <3>1 DEF QueueSteps
    <3> QED
      BY <3>2, QueueCopies
  <2>2. CASE s = Reader
    BY <1>6, <2>2, ReaderQueueSteps, UntouchedCopies
  <2> QED
    BY <1>2, <2>1, <2>2
<1>7. ASSUME NEW i \in DOMAIN jobs[s], GiveUp(s, i) PROVE CopyInv'
  <2>1. CASE s = Author
    <3>1. GivesUp(jobs[Author][i])
      BY <1>7, <2>1, GiveUpSteps
    <3>2. QueueSteps
      BY <3>1 DEF QueueSteps
    <3> QED
      BY <3>2, QueueCopies
  <2>2. CASE s = Reader
    <3>1. ~smooth'
      BY <1>7, <2>2, GiveUpDoes, ServersAre
    <3> QED
      BY <3>1, UnorderedCopies
  <2> QED
    BY <1>2, <2>1, <2>2
<1>8. ASSUME NEW a \in wire[s], Receive(s, a) PROVE CopyInv'
  <2>1. CASE s = Author
    <3>1. Receives(a)
      BY <1>8, <2>1, ReceiveSteps
    <3>2. QueueSteps
      BY <3>1 DEF QueueSteps
    <3> QED
      BY <3>2, QueueCopies
  <2>2. CASE s = Reader
    BY <1>8, <2>2, ReaderQueueSteps, UntouchedCopies
  <2> QED
    BY <1>2, <2>1, <2>2
<1> QED
  BY <1>1, <1>3, <1>4, <1>5, <1>6, <1>7, <1>8

LEMMA StutterCopies == ASSUME CopyInv, UNCHANGED vars PROVE CopyInv'
<1>1. Untouched
  BY DEF vars, rows, history, Untouched, PostKept, CopyKept, NoticeKept, JobsKept, WireKept, ApiKept,
     WorkerKept, BoxKept, PastKept, Api, ApiRead, ApiNew, Worker, WorkerRead, Box, BoxNew, Left
<1> QED
  BY <1>1, UntouchedCopies

\* Where the copy and its mention are, at any time.
LEMMA CopyInvariant == Spec => []CopyInv
<1>1. CopyInv /\ TalkInv /\ Single /\ PostsInv /\ ListsInv /\ [Next]_vars => CopyInv'
  BY NextCopies, StutterCopies
<1> QED
  BY <1>1, InitCopies, TalkInvariant, ListsInvariant, PostsInvariant, PTL DEF Spec

LEMMA QuietIs ==
  ASSUME Quiet
  PROVE  /\ Api = <<>> /\ Worker = <<>> /\ Box = <<>> /\ wire[Author] = {}
         /\ \A x : ~Waits(jobs[Author], x) /\ ~Tells(wire[Author], x)
<1>1. jobs[Author] = <<>> /\ wire[Author] = {}
  BY ServersAre DEF Quiet
<1>2. Api = <<>> /\ Worker = <<>> /\ Box = <<>>
  BY ServersAre, IdleOK DEF Quiet, Api, Worker, Box, Left
<1>3. \A x : ~Waits(<<>>, x) /\ ~Tells({}, x)
  BY DEF Waits, Tells
<1> QED
  BY <1>1, <1>2, <1>3

\* CopySettles: when the deliveries were in order, and all is quiet, the reader
\* has the post with the author's text, or none if it is gone, unless its
\* deletion was refused.
THEOREM CopiesAreSettled == Spec => []CopySettles
<1>1. CopyInv => CopySettles
  <2> SUFFICES ASSUME CopyInv, smooth, Quiet, created
               PROVE  IF post[Author] = NoPost
                      THEN post[Reader] = NoPost \/ refused
                      ELSE post[Reader] # NoPost /\ post[Reader].text = post[Author].text
    BY DEF CopySettles
  <2>1. CASE post[Author] = NoPost
    BY <2>1, QuietIs, PostListsAre, NoteListsAre DEF CopyInv, GoneInv
  <2>2. CASE post[Author] # NoPost
    <3>1. post[Reader] # NoPost
      BY <2>2, QuietIs, PostListsAre, NoteListsAre DEF CopyInv, ThereInv, Undelivered
    <3>2. post[Reader].text = post[Author].text
      BY <2>2, <3>1, QuietIs, PostListsAre, NoteListsAre DEF CopyInv, TextInv
    <3> QED
      BY <2>2, <3>1, <3>2
  <2> QED
    BY <2>1, <2>2
<1> QED
  BY <1>1, CopyInvariant, PTL

\* MentionIsTold: then who is mentioned in a post that was not edited since has
\* been told.
THEOREM MentionsAreTold == Spec => []MentionIsTold
<1>1. CopyInv => MentionIsTold
  <2> SUFFICES ASSUME CopyInv, smooth, Quiet, post[Author].mentions, post[Author].text = 0
               PROVE  "mention" \in notice[Reader]
    BY DEF MentionIsTold
  <2> QED
    BY QuietIs, NoteListsAre DEF CopyInv, MentionInv
<1> QED
  BY <1>1, CopyInvariant, PTL

=============================================================================
