-------------------------------- MODULE Posts --------------------------------
(***************************************************************************)
(* One post, its copy on the server of a follower, and what is done with   *)
(* both: edits, pins, favourites, reblogs, notifications, deletion.  Both  *)
(* are murlog servers with one persona each; the persona of Author writes  *)
(* the post and the persona of Reader, who follows, is mentioned in its    *)
(* first text.                                                             *)
(*                                                                         *)
(* As in FollowGraph a handler is a list of statements that are atomic one *)
(* by one.  A server answers one API request and one inbox request at a    *)
(* time and its workers execute jobs in any order; the fan-outs of module  *)
(* Fanout, to the one follower there is, are steps here.                   *)
(***************************************************************************)
EXTENDS Naturals, Sequences, FiniteSets

CONSTANTS
  Author, Reader,
  MaxOps,        \* bound on the API requests of both
  MaxEdits,      \* bound on the texts a post goes through
  Ops            \* the API methods used by Author: a subset of Methods

ASSUME ServersDiffer == Author # Reader

ASSUME BoundsAreNumbers == MaxOps \in Nat /\ MaxEdits \in Nat

Servers == {Author, Reader}

Slots == {"api", "inbox", "worker"}

Other(s) == IF s = Author THEN Reader ELSE Author

VARIABLES
  post,        \* the row of table posts: the post of Author, its copy at Reader
  favourite, reblog,  \* the actors in the rows that reference it
  wrapper,     \* the posts that wrap it: those of the persona's own reblog, and
               \* whether one stands for a reblog of the other
  notice,      \* the notifications about the other's doings
  pinned,      \* the persona's pinned_post_id is the post
  postCount,   \* the cached counter of the persona
  run,         \* the requests and the deliver_post job under way
  jobs,        \* the jobs in the queue, oldest first
  wire,        \* the activities on their way from a server
  ops,         \* API requests so far
  created,     \* history: the post has been created
  refused,     \* history: the copy was not deleted, for somebody had favourited
               \* or reblogged it
  smooth       \* history: jobs were delivered one at a time, oldest first,
               \* although some more than once, and none was given up

rows == <<post, favourite, reblog, wrapper, notice, pinned, postCount>>
history == <<ops, created, refused, smooth>>
vars == <<rows, run, jobs, wire, history>>

Texts == 0..MaxEdits

\* mentions: the reader's address was resolved and stored (mentions_json).
Row == [vis : {"public", "followers"}, text : Texts, mentions : BOOLEAN]

NoPost == [vis |-> "none", text |-> 0, mentions |-> FALSE]

Notices == {"favourite", "reblog", "mention"}

\* A wrong variant of PostsUpdate below, which no specification uses: the job
\* is in the queue before the post is changed.
PostsUpdateTooLate == <<"GetPost", "EnqueueUpdatePost", "UpdatePost">>

\* The statements of the API methods, in their order.
PostsCreate == <<"CreatePost", "RefreshPostCount", "EnqueueDeliverPost">>
PostsUpdate == <<"GetPost", "UpdatePost", "EnqueueUpdatePost">>
PostsDelete == <<"GetPost", "UnpinPost", "DeletePost", "RefreshPostCount", "EnqueueDeliverDelete">>
PostsPin == <<"GetPost", "PinPost">>
PostsUnpin == <<"UnpinPost">>
FavouritesCreate == <<"GetPost", "CreateFavourite", "EnqueueSendLike">>
FavouritesDelete == <<"GetPost", "DeleteFavourite", "EnqueueSendUndoLike">>
ReblogsCreate ==
  <<"GetPost", "CreateReblog", "CreateWrapper", "RefreshPostCount", "EnqueueSendAnnounce">>
ReblogsDelete ==
  <<"GetPost", "DeleteReblog", "DeleteReblogPost", "RefreshPostCount", "EnqueueSendUndoAnnounce">>

Methods ==
  [posts_create |-> PostsCreate, posts_update |-> PostsUpdate, posts_delete |-> PostsDelete,
   posts_pin |-> PostsPin, posts_unpin |-> PostsUnpin,
   favourites_create |-> FavouritesCreate, favourites_delete |-> FavouritesDelete,
   reblogs_create |-> ReblogsCreate, reblogs_delete |-> ReblogsDelete]

ASSUME OpsAreMethods == Ops \subseteq DOMAIN Methods

\* The reader leaves the copy to its author.
Interactions == {"favourites_create", "favourites_delete", "reblogs_create", "reblogs_delete"}

\* The statements of the inbox.  An activity about a post that is not there
\* ends in GetPost.  An Announce of a post that is local is a reblog, one of a
\* post that was received becomes a wrapper, and any other post is fetched.
\* The Undo of an Announce looks for a local post only.
InboxLike == <<"GetPost", "CreateFavourite", "Notify">>
InboxUndoLike == <<"GetPost", "DeleteFavourite", "DeleteNotification">>
InboxAnnounce(s) ==
  CASE s = Author -> <<"GetPost", "CreateReblog", "Notify">>
    [] s = Reader /\ post[s] # NoPost -> <<"CreateRemoteWrapper">>
    [] s = Reader /\ post[s] = NoPost -> <<"FetchNote", "StoreNote", "Notify">>
InboxUndoAnnounce(s) ==
  IF s = Author THEN <<"GetPost", "DeleteReblog", "DeleteNotification">> ELSE <<>>
InboxCreate == <<"StoreNote", "Notify">>
InboxUpdate == <<"GetPost", "UpdateNote">>
InboxDelete == <<"GetPost", "DeletePost">>

Inbox(s) ==
  [Like |-> InboxLike, UndoLike |-> InboxUndoLike, Announce |-> InboxAnnounce(s),
   UndoAnnounce |-> InboxUndoAnnounce(s), Create |-> InboxCreate, Update |-> InboxUpdate,
   Delete |-> InboxDelete]

\* handleDeliverPost: the job of the mentioned actor is in the queue before the
\* mention is stored.
DeliverPost == <<"GetPost", "EnqueueMentioned", "UpdatePostMentions", "Fanout">>

Activities == {"Like", "UndoLike", "Announce", "UndoAnnounce", "Create", "Update", "Delete"}

JobTypes == Activities \cup {"deliver_post"}

\* What an activity says of the post.
Activity == [type : Activities, text : Texts, mentions : BOOLEAN]

\* A request: what is left to do, the row it read, what it has to write.
Request(op, todo, new) == [op |-> op, todo |-> todo, read |-> NoPost, new |-> new]

Idle == Request("none", <<>>, NoPost)

TypeOK ==
  /\ post \in [Servers -> Row \cup {NoPost}]
  /\ favourite \in [Servers -> SUBSET Servers] /\ reblog \in [Servers -> SUBSET Servers]
  /\ wrapper \in [Servers -> [local : 0..1, remote : BOOLEAN]]
  /\ notice \in [Servers -> SUBSET Notices]
  /\ pinned \in [Servers -> BOOLEAN] /\ postCount \in [Servers -> 0..2]
  /\ \A s \in Servers, k \in Slots :
       /\ run[s][k].read \in Row \cup {NoPost} /\ run[s][k].new \in Row \cup {NoPost}
  /\ jobs \in [Servers -> Seq(JobTypes)] /\ wire \in [Servers -> SUBSET Activity]
  /\ ops \in 0..MaxOps /\ created \in BOOLEAN /\ refused \in BOOLEAN /\ smooth \in BOOLEAN

\* The posts of the persona, its reblogs among them.
LocalPosts(s) == (IF s = Author /\ post[s] # NoPost THEN 1 ELSE 0) + wrapper[s].local

\* What the post has been through when it is there.
Past == [liked : BOOLEAN, boosted : BOOLEAN, own : BOOLEAN, pinned : BOOLEAN]

\* Nothing is there yet, or the post was delivered, and so was what happened
\* to it since.
Init ==
  /\ created \in BOOLEAN
  /\ \E past \in Past :
       /\ ~created => \A f \in DOMAIN past : ~past[f]
       /\ post = [s \in Servers |->
                    IF created THEN [vis |-> "public", text |-> 0, mentions |-> s = Author] ELSE NoPost]
       /\ favourite = [s \in Servers |-> {a \in {Reader} : past.liked}]
       /\ reblog = [s \in Servers |->
                      {a \in {Reader} : past.boosted} \cup {a \in {Author} : past.own /\ s = Author}]
       /\ wrapper = [s \in Servers |->
                       [local |-> IF s \in reblog[s] THEN 1 ELSE 0, remote |-> past.own /\ s = Reader]]
       /\ notice = [s \in Servers |->
                      IF s = Reader THEN {n \in {"mention"} : created}
                      ELSE {n \in {"favourite"} : past.liked} \cup {n \in {"reblog"} : past.boosted}]
       /\ pinned = [s \in Servers |-> past.pinned /\ s = Author]
  /\ postCount = [s \in Servers |-> LocalPosts(s)]
  /\ run = [s \in Servers |-> [k \in Slots |-> Idle]]
  /\ jobs = [s \in Servers |-> <<>>] /\ wire = [s \in Servers |-> {}]
  /\ ops = 0 /\ refused = FALSE /\ smooth = TRUE

Quiet ==
  \A s \in Servers : jobs[s] = <<>> /\ wire[s] = {} /\ \A k \in Slots : run[s][k] = Idle

-----------------------------------------------------------------------------
(* What is shown to visitors: the post, or its wrapper.                    *)

\* The page of the post; the other server fetches it there as well.
Served(s) == s = Author /\ post[s].vis = "public"

ListPublicLocalPosts(s) ==
  {x \in {"post", "wrapper"} : IF x = "post" THEN Served(s) ELSE wrapper[s].local > 0}

\* The pinned post is put first, found among the others or not.
ListPublicPosts(s) ==
  ListPublicLocalPosts(s) \cup {x \in {"post"} : pinned[s] /\ post[s] # NoPost}

\* A wrapper whose original is gone is passed over.
Outbox(s) == ListPublicLocalPosts(s) \ {x \in {"wrapper"} : post[s] = NoPost}

Featured(s) == {x \in {"post"} : pinned[s] /\ post[s] # NoPost}

\* The page of the post as its own server shows it.
EnrichPostJSON(s) ==
  [favouritesCount |-> Cardinality(favourite[s]), reblogsCount |-> Cardinality(reblog[s]),
   favourited |-> s \in favourite[s], reblogged |-> s \in reblog[s]]

-----------------------------------------------------------------------------
(* Requests and their statements.                                          *)

At(s, k, statement) ==
  run[s][k].todo # <<>> /\ Head(run[s][k].todo) = statement

Return(s, k) == run' = [run EXCEPT ![s][k] = Idle]

GoOnHaving(s, k, read, new) ==
  LET r == run[s][k] IN
  run' = [run EXCEPT ![s][k] =
            IF Len(r.todo) = 1 THEN Idle
            ELSE [r EXCEPT !.todo = Tail(@), !.read = read, !.new = new]]

GoOn(s, k) == GoOnHaving(s, k, run[s][k].read, run[s][k].new)

\* Enqueue, whose error nobody looks at.
Enqueue(s, k, statement, type) ==
  /\ At(s, k, statement)
  /\ jobs' = [jobs EXCEPT ![s] = Append(@, type)]
  /\ GoOn(s, k)
  /\ UNCHANGED <<rows, wire, history>>

\* The activities of favourites and reblogs of the own post do not concern the
\* other, but for the reblog, which goes to the followers.
EnqueueAbout(s, k, statement, type) ==
  IF s = Author
  THEN /\ At(s, k, statement) /\ GoOn(s, k)
       /\ UNCHANGED <<rows, jobs, wire, history>>
  ELSE Enqueue(s, k, statement, type)

\* The actor a request acts for: the persona, or the other in the inbox.
Actor(s, k) == IF k = "inbox" THEN Other(s) ELSE s

(* Wrong variants of statements below, which no specification uses.        *)

\* A post that is deleted stays pinned.
UnpinNothing(s, k) ==
  /\ At(s, k, "UnpinPost")
  /\ GoOn(s, k)
  /\ UNCHANGED <<rows, jobs, wire, history>>

\* An actor may reblog a post twice.
CreateReblogAgain(s, k) ==
  /\ At(s, k, "CreateReblog")
  /\ reblog' = [reblog EXCEPT ![s] = @ \cup {Actor(s, k)}] /\ GoOn(s, k)
  /\ UNCHANGED <<post, favourite, wrapper, notice, pinned, postCount, jobs, wire, history>>

\* The wrapper of a reblog stays on the profile.
DeleteNoReblogPost(s, k) ==
  /\ At(s, k, "DeleteReblogPost")
  /\ GoOn(s, k)
  /\ UNCHANGED <<rows, jobs, wire, history>>

\* The notification stays when its reason is withdrawn.
DeleteNotificationOfMention(s, k) ==
  /\ At(s, k, "DeleteNotification")
  /\ notice' = [notice EXCEPT ![s] = @ \ {"mention"}]
  /\ GoOn(s, k)
  /\ UNCHANGED <<post, favourite, reblog, wrapper, pinned, postCount, jobs, wire, history>>

\* Whoever withdraws a favourite, it is the persona's that goes.
DeleteFavouriteOfPersona(s, k) ==
  /\ At(s, k, "DeleteFavourite")
  /\ favourite' = [favourite EXCEPT ![s] = @ \ {s}]
  /\ GoOn(s, k)
  /\ UNCHANGED <<post, reblog, wrapper, notice, pinned, postCount, jobs, wire, history>>

\* The tags of a note are not looked at.
StoreNoteWithoutTags(s, k) ==
  /\ At(s, k, "StoreNote")
  /\ post' = [post EXCEPT ![s] = IF @ = NoPost THEN [run[s][k].new EXCEPT !.mentions = FALSE] ELSE @]
  /\ Return(s, k)
  /\ UNCHANGED <<favourite, reblog, wrapper, notice, pinned, postCount, jobs, wire, history>>

\* GetPost, GetPostByURI, resolveLocalPost.  Only a public post can be pinned.
GetPost(s, k) ==
  /\ At(s, k, "GetPost")
  /\ IF post[s] = NoPost \/ (run[s][k].op = "posts_pin" /\ post[s].vis # "public")
     THEN Return(s, k)
     ELSE GoOnHaving(s, k, post[s], run[s][k].new)
  /\ UNCHANGED <<rows, jobs, wire, history>>

CreatePost(s, k) ==
  /\ At(s, k, "CreatePost")
  /\ post' = [post EXCEPT ![s] = run[s][k].new]
  /\ created' = TRUE
  /\ GoOn(s, k)
  /\ UNCHANGED <<favourite, reblog, wrapper, notice, pinned, postCount, jobs, wire, ops, refused, smooth>>

\* All columns but the new text and visibility are written as they were read.
UpdatePost(s, k) ==
  /\ At(s, k, "UpdatePost")
  /\ post' = [post EXCEPT ![s] = IF @ = NoPost THEN @
                                 ELSE [run[s][k].new EXCEPT !.mentions = run[s][k].read.mentions]]
  /\ GoOn(s, k)
  /\ UNCHANGED <<favourite, reblog, wrapper, notice, pinned, postCount, jobs, wire, history>>

\* Foreign keys: a post that somebody favourited or reblogged is not deleted,
\* and the request ends there.
DeletePost(s, k) ==
  /\ At(s, k, "DeletePost")
  /\ IF favourite[s] \cup reblog[s] = {}
     THEN post' = [post EXCEPT ![s] = NoPost] /\ GoOn(s, k) /\ UNCHANGED refused
     ELSE Return(s, k) /\ refused' = (refused \/ k = "inbox") /\ UNCHANGED post
  /\ UNCHANGED <<favourite, reblog, wrapper, notice, pinned, postCount, jobs, wire, ops, created, smooth>>

PinPost(s, k) ==
  /\ At(s, k, "PinPost")
  /\ pinned' = [pinned EXCEPT ![s] = TRUE]
  /\ GoOn(s, k)
  /\ UNCHANGED <<post, favourite, reblog, wrapper, notice, postCount, jobs, wire, history>>

UnpinPost(s, k) ==
  /\ At(s, k, "UnpinPost")
  /\ pinned' = [pinned EXCEPT ![s] = FALSE]
  /\ GoOn(s, k)
  /\ UNCHANGED <<post, favourite, reblog, wrapper, notice, postCount, jobs, wire, history>>

RefreshPostCount(s, k) ==
  /\ At(s, k, "RefreshPostCount")
  /\ postCount' = [postCount EXCEPT ![s] = LocalPosts(s)]
  /\ GoOn(s, k)
  /\ UNCHANGED <<post, favourite, reblog, wrapper, notice, pinned, jobs, wire, history>>

\* UNIQUE(post_id, actor_uri), and a reference to a post that is there.  The
\* API answers with a conflict; the inbox does not look at the error.
CreateFavourite(s, k) ==
  /\ At(s, k, "CreateFavourite")
  /\ IF post[s] # NoPost /\ Actor(s, k) \notin favourite[s]
     THEN favourite' = [favourite EXCEPT ![s] = @ \cup {Actor(s, k)}] /\ GoOn(s, k)
     ELSE (IF k = "api" THEN Return(s, k) ELSE GoOn(s, k)) /\ UNCHANGED favourite
  /\ UNCHANGED <<post, reblog, wrapper, notice, pinned, postCount, jobs, wire, history>>

DeleteFavourite(s, k) ==
  /\ At(s, k, "DeleteFavourite")
  /\ favourite' = [favourite EXCEPT ![s] = @ \ {Actor(s, k)}]
  /\ GoOn(s, k)
  /\ UNCHANGED <<post, reblog, wrapper, notice, pinned, postCount, jobs, wire, history>>

CreateReblog(s, k) ==
  /\ At(s, k, "CreateReblog")
  /\ IF post[s] # NoPost /\ Actor(s, k) \notin reblog[s]
     THEN reblog' = [reblog EXCEPT ![s] = @ \cup {Actor(s, k)}] /\ GoOn(s, k)
     ELSE (IF k = "api" THEN Return(s, k) ELSE GoOn(s, k)) /\ UNCHANGED reblog
  /\ UNCHANGED <<post, favourite, wrapper, notice, pinned, postCount, jobs, wire, history>>

DeleteReblog(s, k) ==
  /\ At(s, k, "DeleteReblog")
  /\ reblog' = [reblog EXCEPT ![s] = @ \ {Actor(s, k)}]
  /\ GoOn(s, k)
  /\ UNCHANGED <<post, favourite, wrapper, notice, pinned, postCount, jobs, wire, history>>

CreateWrapper(s, k) ==
  /\ At(s, k, "CreateWrapper")
  /\ wrapper' = [wrapper EXCEPT ![s].local = @ + 1]
  /\ GoOn(s, k)
  /\ UNCHANGED <<post, favourite, reblog, notice, pinned, postCount, jobs, wire, history>>

\* No constraint keeps a repeated Announce from another wrapper.
CreateRemoteWrapper(s, k) ==
  /\ At(s, k, "CreateRemoteWrapper")
  /\ wrapper' = [wrapper EXCEPT ![s].remote = TRUE]
  /\ GoOn(s, k)
  /\ UNCHANGED <<post, favourite, reblog, notice, pinned, postCount, jobs, wire, history>>

\* Every wrapper of the post, those of others included.
DeleteReblogPost(s, k) ==
  /\ At(s, k, "DeleteReblogPost")
  /\ wrapper' = [wrapper EXCEPT ![s] = [local |-> 0, remote |-> FALSE]]
  /\ GoOn(s, k)
  /\ UNCHANGED <<post, favourite, reblog, notice, pinned, postCount, jobs, wire, history>>

NoticeOf(op) ==
  CASE op \in {"Like", "UndoLike"} -> "favourite"
    [] op \in {"Announce", "UndoAnnounce"} -> "reblog"
    [] OTHER -> "mention"

\* The end of Like and Announce, and of a note: for who is mentioned in it.
\* Nothing references the post here.
Notify(s, k) ==
  LET r == run[s][k]
      told == IF s = Author THEN {NoticeOf(r.op)} ELSE {x \in {"mention"} : r.new.mentions} IN
  /\ At(s, k, "Notify")
  /\ notice' = [notice EXCEPT ![s] = @ \cup told]
  /\ GoOn(s, k)
  /\ UNCHANGED <<post, favourite, reblog, wrapper, pinned, postCount, jobs, wire, history>>

DeleteNotification(s, k) ==
  /\ At(s, k, "DeleteNotification")
  /\ notice' = [notice EXCEPT ![s] = @ \ {NoticeOf(run[s][k].op)}]
  /\ GoOn(s, k)
  /\ UNCHANGED <<post, favourite, reblog, wrapper, pinned, postCount, jobs, wire, history>>

\* The Note of an Announce, read where it is served, or not at all.
FetchNote(s, k) ==
  /\ At(s, k, "FetchNote")
  /\ \/ Served(Other(s)) /\ GoOnHaving(s, k, NoPost, post[Other(s)])
     \/ Return(s, k)
  /\ UNCHANGED <<rows, jobs, wire, history>>

\* storeRemoteNote, once for a URI.
StoreNote(s, k) ==
  /\ At(s, k, "StoreNote")
  /\ IF post[s] = NoPost
     THEN post' = [post EXCEPT ![s] = [run[s][k].new EXCEPT !.mentions = FALSE]] /\ GoOn(s, k)
     ELSE Return(s, k) /\ UNCHANGED post
  /\ UNCHANGED <<favourite, reblog, wrapper, notice, pinned, postCount, jobs, wire, history>>

\* handleInboxUpdateNote: the text only.
UpdateNote(s, k) ==
  /\ At(s, k, "UpdateNote")
  /\ post' = [post EXCEPT ![s] = IF @ = NoPost THEN @ ELSE [@ EXCEPT !.text = run[s][k].new.text]]
  /\ GoOn(s, k)
  /\ UNCHANGED <<favourite, reblog, wrapper, notice, pinned, postCount, jobs, wire, history>>

\* The address in the first text is resolved or not; no other text has one.
EnqueueMentioned(s, k) ==
  \/ /\ run[s][k].read.text = 0
     /\ Enqueue(s, k, "EnqueueMentioned", "Create")
  \/ /\ At(s, k, "EnqueueMentioned")
     /\ run' = [run EXCEPT ![s][k].todo = <<"Fanout">>]
     /\ UNCHANGED <<rows, jobs, wire, history>>

UpdatePostMentions(s, k) ==
  /\ At(s, k, "UpdatePostMentions")
  /\ post' = [post EXCEPT ![s] = IF @ = NoPost THEN @ ELSE [@ EXCEPT !.mentions = TRUE]]
  /\ GoOnHaving(s, k, [run[s][k].read EXCEPT !.mentions = TRUE], NoPost)
  /\ UNCHANGED <<favourite, reblog, wrapper, notice, pinned, postCount, jobs, wire, history>>

\* Who was mentioned is left out.
Fanout(s, k) ==
  IF run[s][k].read.mentions
  THEN /\ At(s, k, "Fanout") /\ Return(s, k)
       /\ UNCHANGED <<rows, jobs, wire, history>>
  ELSE Enqueue(s, k, "Fanout", "Create")

Enqueues(s, k) ==
  \/ Enqueue(s, k, "EnqueueDeliverPost", "deliver_post")
  \/ Enqueue(s, k, "EnqueueUpdatePost", "Update")
  \/ Enqueue(s, k, "EnqueueDeliverDelete", "Delete")
  \/ EnqueueAbout(s, k, "EnqueueSendLike", "Like")
  \/ EnqueueAbout(s, k, "EnqueueSendUndoLike", "UndoLike")
  \/ Enqueue(s, k, "EnqueueSendAnnounce", "Announce")
  \/ Enqueue(s, k, "EnqueueSendUndoAnnounce", "UndoAnnounce")

Statement(s, k) ==
  \/ GetPost(s, k) \/ CreatePost(s, k) \/ UpdatePost(s, k) \/ DeletePost(s, k)
  \/ PinPost(s, k) \/ UnpinPost(s, k) \/ RefreshPostCount(s, k)
  \/ CreateFavourite(s, k) \/ DeleteFavourite(s, k)
  \/ CreateReblog(s, k) \/ DeleteReblog(s, k)
  \/ CreateWrapper(s, k) \/ CreateRemoteWrapper(s, k) \/ DeleteReblogPost(s, k)
  \/ Notify(s, k) \/ DeleteNotification(s, k)
  \/ FetchNote(s, k) \/ StoreNote(s, k) \/ UpdateNote(s, k)
  \/ EnqueueMentioned(s, k) \/ UpdatePostMentions(s, k) \/ Fanout(s, k)
  \/ Enqueues(s, k)

-----------------------------------------------------------------------------
(* API requests, jobs and the inbox.                                       *)

\* A request about a post the administrator sees, or the one that creates it.
Call(s, op) ==
  /\ ops < MaxOps
  /\ run[s]["api"] = Idle
  /\ s = Author \/ op \in Interactions
  /\ IF op = "posts_create" THEN ~created ELSE post[s] # NoPost
  /\ op = "posts_update" => post[s].text < MaxEdits
  /\ \E vis \in {"public", "followers"} :
       /\ op \notin {"posts_create", "posts_update"} => vis = "public"
       /\ run' = [run EXCEPT ![s]["api"] =
                    Request(op, Methods[op],
                            CASE op = "posts_create" -> [vis |-> vis, text |-> 0, mentions |-> FALSE]
                              [] op = "posts_update" -> [vis |-> vis, text |-> post[s].text + 1, mentions |-> FALSE]
                              [] OTHER -> NoPost)]
  /\ ops' = ops + 1
  /\ UNCHANGED <<rows, jobs, wire, created, refused, smooth>>

Without(js, i) == SubSeq(js, 1, i - 1) \o SubSeq(js, i + 1, Len(js))

InOrder(s, i) == i = 1 /\ wire[s] = {} /\ run[s]["worker"] = Idle

BeginDeliverPost(s, i) ==
  /\ jobs[s][i] = "deliver_post"
  /\ run[s]["worker"] = Idle
  /\ run' = [run EXCEPT ![s]["worker"] = Request("deliver_post", DeliverPost, NoPost)]
  /\ jobs' = [jobs EXCEPT ![s] = Without(@, i)]
  /\ smooth' = (smooth /\ InOrder(s, i))
  /\ UNCHANGED <<rows, wire, ops, created, refused>>

\* A worker executes job i up to its delivery.  A Create or an Update says what
\* is in the table then, and fails when there is nothing.
Send(s, i) ==
  LET type == jobs[s][i] IN
  /\ type # "deliver_post"
  /\ type \in {"Create", "Update"} => post[s] # NoPost
  /\ wire' = [wire EXCEPT ![s] = @ \cup
                {[type |-> type,
                  text |-> IF type \in {"Create", "Update"} THEN post[s].text ELSE 0,
                  mentions |-> type = "Create" /\ post[s].mentions]}]
  /\ jobs' = [jobs EXCEPT ![s] = Without(@, i)]
  /\ smooth' = (smooth /\ InOrder(s, i))
  /\ UNCHANGED <<rows, run, ops, created, refused>>

\* A job has used up its attempts; one about a post that is gone must.
GiveUp(s, i) ==
  /\ jobs' = [jobs EXCEPT ![s] = Without(@, i)]
  /\ smooth' = (smooth /\ jobs[s][i] \in {"deliver_post", "Create", "Update"} /\ post[s] = NoPost)
  /\ UNCHANGED <<rows, run, wire, ops, created, refused>>

\* The activity arrives; when the answer is lost it is sent again.
Receive(s, a) ==
  LET t == Other(s)
      todo == Inbox(t)[a.type] IN
  /\ run[t]["inbox"] = Idle
  /\ run' = [run EXCEPT ![t]["inbox"] =
               IF todo = <<>> THEN Idle
               ELSE Request(a.type, todo, IF a.type \in {"Create", "Update"}
                                          THEN [vis |-> "public", text |-> a.text, mentions |-> a.mentions]
                                          ELSE NoPost)]
  /\ wire' = [wire EXCEPT ![s] = @ \ {a}]
  /\ jobs' \in {jobs, [jobs EXCEPT ![s] = <<a.type>> \o @]}
  /\ UNCHANGED <<rows, history>>

Next ==
  \E s \in Servers :
    \/ \E k \in Slots : Statement(s, k)
    \/ \E op \in Ops : Call(s, op)
    \/ \E i \in DOMAIN jobs[s] : BeginDeliverPost(s, i) \/ Send(s, i) \/ GiveUp(s, i)
    \/ \E a \in wire[s] : Receive(s, a)

Spec == Init /\ [][Next]_vars

-----------------------------------------------------------------------------
(* Properties.                                                             *)

\* When no request of the administrator is at work, the counter of posts is
\* right, and the persona's reblog has its one wrapper, whose original is there.
OwnPostsSettle ==
  \A s \in Servers : run[s]["api"] = Idle =>
    /\ postCount[s] = LocalPosts(s)
    /\ wrapper[s].local = IF s \in reblog[s] THEN 1 ELSE 0
    /\ Outbox(s) = ListPublicLocalPosts(s)

\* What the profile and the featured collection show can be opened, but for a
\* pinned post that was edited since it was public; and what is pinned is there.
PinnedIsServed ==
  \A s \in Servers :
    /\ "post" \in Featured(s) \cup ListPublicPosts(s) => Served(s) \/ post[s].text > 0
    /\ pinned[s] => post[s] # NoPost

\* A notification of a favourite or a reblog has its reason when the inbox
\* is at rest, unless the post has gone meanwhile.
NoticesAreFounded ==
  run[Author]["inbox"] = Idle /\ post[Author] # NoPost =>
    /\ "favourite" \in notice[Author] => Reader \in favourite[Author]
    /\ "reblog" \in notice[Author] => Reader \in reblog[Author]

\* Deliveries in order, repeated or not, whatever the requests they overlap
\* with: once all is quiet the reader has what the author has.  Of a post that
\* is gone a copy is left only if its deletion was refused.
CopySettles ==
  smooth /\ Quiet /\ created =>
    IF post[Author] = NoPost
    THEN post[Reader] = NoPost \/ refused
    ELSE post[Reader] # NoPost /\ post[Reader].text = post[Author].text

\* Likewise the author's page counts who says on a page of theirs that they
\* favourited or reblogged it.
InteractionsSettle ==
  smooth /\ Quiet /\ post[Author] # NoPost =>
    LET page == [s \in Servers |-> EnrichPostJSON(s)] IN
    /\ page[Author].favouritesCount = Cardinality({s \in Servers : page[s].favourited})
    /\ page[Author].reblogsCount = Cardinality({s \in Servers : page[s].reblogged})

\* And whose mention was resolved is told of it, if the post was not edited
\* while it was delivered.
MentionIsTold ==
  smooth /\ Quiet /\ post[Author].mentions /\ post[Author].text = 0
    => "mention" \in notice[Reader]

\* posts.delete deletes.
DeleteDeletes ==
  [][\A s \in Servers :
       At(s, "api", "DeletePost") /\ run'[s]["api"] # run[s]["api"] => post'[s] = NoPost]_vars

=============================================================================
