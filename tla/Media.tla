-------------------------------- MODULE Media --------------------------------
(***************************************************************************)
(* Uploaded images: their files in the media store and their rows in the   *)
(* table attachments, which no transaction spans.  As in FollowGraph a     *)
(* handler is a list of statements that are atomic one by one; any process *)
(* of the server may be anywhere in its list, and may be killed there.     *)
(***************************************************************************)
EXTENDS Naturals, Sequences, FiniteSets

CONSTANTS
  Attachments,   \* uploads for posts
  Images,        \* uploads for the profile, prefix avatars or headers
  PostIds, Procs,
  MaxFaults,     \* bound on kills and on errors of store and database
  None

ASSUME UploadsAreDistinct == Attachments \cap Images = {} /\ None \notin Attachments \cup Images

\* The column post_id tells a post from no post.
ASSUME PostsAreIds == PostIds \cap {"none", "young", "old"} = {}

\* MaxFaults is a number.
ASSUME FaultsAreCounted == MaxFaults \in Nat

Files == Attachments \cup Images

VARIABLES
  file,          \* the files of the media store
  row,           \* table attachments: "none", unattached ("young", "old"), or the post
  posts,         \* the posts that are there
  avatar,        \* avatar_path of the persona
  fresh,         \* the uploads to come; every one gets a name of its own
  known,         \* the uploads whose answer the administrator has got
  run,           \* what each process is at
  faults,
  late,          \* history: attached more than an hour after the upload
  removed,       \* history: media.delete was called for it
  leaked         \* history: files whose row is lost, or was never written, to a
                 \* fault or with the post

data == <<file, row, posts, avatar, fresh, known>>
history == <<late, removed, leaked>>
vars == <<data, run, faults, history>>

\* The statements of the handlers, in their order.
MediaUpload == <<"Save", "CreateAttachment">>
MediaDelete == <<"GetAttachment", "DeleteFile", "DeleteAttachment">>
PostsCreate == <<"CreatePost", "AttachToPost">>
PostsUpdate == <<"GetPost", "AttachToPost">>
PostsDelete == <<"DeletePost">>
PersonasUpdate == <<"UpdatePersona">>
CleanOrphanAttachments == <<"ListOrphanAttachments">>
CleanOne == <<"DeleteFile", "DeleteAttachment">>

\* A process: what is left to do, the file it is about, the files to go through
\* or to attach, and the post.
Request(todo, f, fs, p) == [todo |-> todo, file |-> f, files |-> fs, post |-> p]

Idle == Request(<<>>, None, {}, None)

Loose == {"young", "old"}

TypeOK ==
  /\ file \subseteq Files /\ row \in [Files -> {"none"} \cup Loose \cup PostIds]
  /\ posts \subseteq PostIds
  /\ avatar \in Images \cup {None} /\ fresh \subseteq Files /\ known \subseteq Files
  /\ faults \in 0..MaxFaults
  /\ late \subseteq Attachments /\ removed \subseteq Attachments /\ leaked \subseteq Files
  /\ \A q \in Procs :
       /\ run[q].todo # <<>> /\ Head(run[q].todo) \in {"Save", "DeleteFile", "DeleteAttachment"}
            => run[q].file \in Files
       /\ run[q].files \subseteq Files

Init ==
  /\ file = {} /\ row = [f \in Files |-> "none"]
  /\ posts = {} /\ avatar = None /\ fresh = Files /\ known = {}
  /\ run = [q \in Procs |-> Idle] /\ faults = 0
  /\ late = {} /\ removed = {} /\ leaked = {}

-----------------------------------------------------------------------------

At(q, statement) == run[q].todo # <<>> /\ Head(run[q].todo) = statement

Return(q) == run' = [run EXCEPT ![q] = Idle]

\* What is left of a request after its next statement.
Rest(r) == IF Len(r.todo) = 1 THEN Idle ELSE Request(Tail(r.todo), r.file, r.files, r.post)

GoOn(q) == run' = [run EXCEPT ![q] = Rest(@)]

\* A wrong variant of CleanNext, which no specification uses: one round too many.
CleanNextTooFar(q, fs) ==
  IF fs = {} THEN run' = [run EXCEPT ![q] = Request(CleanOne, None, {}, None)]
  ELSE \E f \in fs : run' = [run EXCEPT ![q] = Request(CleanOne, f, fs \ {f}, None)]

\* The next round of a clean-up, or its end.
CleanNext(q, fs) ==
  IF fs = {} THEN Return(q)
  ELSE \E f \in fs : run' = [run EXCEPT ![q] = Request(CleanOne, f, fs \ {f}, None)]

Fault == faults < MaxFaults /\ faults' = faults + 1

(* Wrong variants of statements below, which no specification uses.        *)

\* The file stays when its row cannot be written.
CreateAttachmentOrLeave(q) ==
  LET f == run[q].file IN
  /\ At(q, "CreateAttachment") /\ Return(q)
  /\ \/ row' = [row EXCEPT ![f] = "young"] /\ known' = known \cup {f} /\ UNCHANGED faults
     \/ Fault /\ UNCHANGED <<row, known>>
  /\ UNCHANGED <<file, posts, avatar, fresh, history>>

\* Every upload that is not attached is an orphan, however young.
ListUnattached(q) ==
  /\ At(q, "ListOrphanAttachments") /\ CleanNext(q, {f \in Files : row[f] \in Loose})
  /\ UNCHANGED <<data, faults, history>>

\* Uploads of the last hour instead of those before.
ListYoung(q) ==
  /\ At(q, "ListOrphanAttachments") /\ CleanNext(q, {f \in Files : row[f] = "young"})
  /\ UNCHANGED <<data, faults, history>>

\* Save takes its own remains away when it fails.
Save(q) ==
  /\ At(q, "Save")
  /\ \/ file' = file \cup {run[q].file} /\ GoOn(q) /\ UNCHANGED faults
     \/ Fault /\ Return(q) /\ UNCHANGED file
  /\ UNCHANGED <<row, posts, avatar, fresh, known, history>>

CreateAttachment(q) ==
  LET f == run[q].file IN
  /\ At(q, "CreateAttachment")
  /\ Return(q)
  /\ \/ /\ row' = [row EXCEPT ![f] = "young"] /\ known' = known \cup {f}
        /\ UNCHANGED <<file, faults>>
     \/ Fault /\ file' = file \ {f} /\ UNCHANGED <<row, known>>
  /\ UNCHANGED <<posts, avatar, fresh, history>>

GetAttachment(q) ==
  /\ At(q, "GetAttachment")
  /\ IF row[run[q].file] = "none" THEN Return(q) ELSE GoOn(q)
  /\ UNCHANGED <<data, faults, history>>

\* Nobody looks at an error of media.Delete: the row goes all the same.
DeleteFile(q) ==
  LET f == run[q].file IN
  /\ At(q, "DeleteFile")
  /\ GoOn(q)
  /\ \/ file' = file \ {f} /\ UNCHANGED <<faults, leaked>>
     \/ Fault /\ leaked' = leaked \cup {f} /\ UNCHANGED file
  /\ UNCHANGED <<row, posts, avatar, fresh, known, late, removed>>

\* The end of media.delete, or of a round of the clean-up, which ignores an
\* error.  Whether the row is attached by now is not asked.
DeleteAttachment(q) ==
  LET f == run[q].file IN
  /\ At(q, "DeleteAttachment")
  /\ CleanNext(q, run[q].files)
  /\ \/ row' = [row EXCEPT ![f] = "none"] /\ UNCHANGED faults
     \/ Fault /\ UNCHANGED row
  /\ UNCHANGED <<file, posts, avatar, fresh, known, history>>

CreatePost(q) ==
  /\ At(q, "CreatePost") /\ GoOn(q)
  /\ posts' = posts \cup {run[q].post}
  /\ UNCHANGED <<file, row, avatar, fresh, known, faults, history>>

GetPost(q) ==
  /\ At(q, "GetPost")
  /\ IF run[q].post \in posts THEN GoOn(q) ELSE Return(q)
  /\ UNCHANGED <<data, faults, history>>

\* Only what is not attached yet, and to a post that is there.
AttachToPost(q) ==
  LET r == run[q]
      new == {f \in r.files : row[f] \in Loose /\ r.post \in posts} IN
  /\ At(q, "AttachToPost") /\ Return(q)
  /\ row' = [f \in Files |-> IF f \in new THEN r.post ELSE row[f]]
  /\ late' = late \cup {f \in new : row[f] = "old"}
  /\ UNCHANGED <<file, posts, avatar, fresh, known, faults, removed, leaked>>

\* ON DELETE CASCADE: the rows go, the files stay.
DeletePost(q) ==
  LET p == run[q].post
      gone == {f \in Files : row[f] = p} IN
  /\ At(q, "DeletePost") /\ Return(q)
  /\ posts' = posts \ {p}
  /\ row' = [f \in Files |-> IF f \in gone THEN "none" ELSE row[f]]
  /\ leaked' = leaked \cup gone
  /\ UNCHANGED <<file, avatar, fresh, known, faults, late, removed>>

\* The path is not looked up, and its row stays unattached.
UpdatePersona(q) ==
  /\ At(q, "UpdatePersona") /\ Return(q)
  /\ avatar' = run[q].file
  /\ UNCHANGED <<file, row, posts, fresh, known, faults, history>>

ListOrphanAttachments(q) ==
  /\ At(q, "ListOrphanAttachments") /\ CleanNext(q, {f \in Files : row[f] = "old"})
  /\ UNCHANGED <<data, faults, history>>

Statement(q) ==
  \/ Save(q) \/ CreateAttachment(q) \/ GetAttachment(q) \/ DeleteFile(q) \/ DeleteAttachment(q)
  \/ CreatePost(q) \/ GetPost(q) \/ AttachToPost(q) \/ DeletePost(q)
  \/ UpdatePersona(q) \/ ListOrphanAttachments(q)

-----------------------------------------------------------------------------
(* Requests.                                                               *)

Begin(q, request) ==
  /\ run[q] = Idle
  /\ run' = [run EXCEPT ![q] = request]
  /\ UNCHANGED <<data, faults, late, leaked>>

Upload(q, f) ==
  /\ f \in fresh /\ fresh' = fresh \ {f}
  /\ run[q] = Idle /\ run' = [run EXCEPT ![q] = Request(MediaUpload, f, {}, None)]
  /\ UNCHANGED <<file, row, posts, avatar, known, faults, history>>

\* The editor of posts deletes what it uploaded itself.
CallDelete(q, f) ==
  f \in known \cap Attachments /\ Begin(q, Request(MediaDelete, f, {}, None)) /\ removed' = removed \cup {f}

\* No other request is about a post that is not there yet.  (The name of a post
\* that is gone is used again, for there is nothing left of it.)
CallCreate(q, p, fs) ==
  /\ p \notin posts /\ \A other \in Procs : run[other].post # p
  /\ Begin(q, Request(PostsCreate, None, fs, p)) /\ UNCHANGED removed

CallUpdate(q, p, fs) ==
  p \in posts /\ Begin(q, Request(PostsUpdate, None, fs, p)) /\ UNCHANGED removed

CallDeletePost(q, p) ==
  p \in posts /\ Begin(q, Request(PostsDelete, None, {}, p)) /\ UNCHANGED removed

CallPersonasUpdate(q, f) ==
  Begin(q, Request(PersonasUpdate, f, {}, None)) /\ UNCHANGED removed

WorkerTick(q) ==
  Begin(q, Request(CleanOrphanAttachments, None, {}, None)) /\ UNCHANGED removed

HourPasses(f) ==
  /\ row[f] = "young"
  /\ row' = [row EXCEPT ![f] = "old"]
  /\ UNCHANGED <<file, posts, avatar, fresh, known, run, faults, history>>

\* A CGI process is killed, or the machine stops.
Kill(q) ==
  /\ run[q] # Idle /\ Fault /\ Return(q)
  /\ leaked' = leaked \cup {f \in {run[q].file} : At(q, "CreateAttachment")}
  /\ UNCHANGED <<data, late, removed>>

Calls(q) ==
  \/ \E f \in Files : Upload(q, f) \/ CallDelete(q, f)
  \/ \E p \in PostIds :
       \/ \E fs \in SUBSET (known \cap Attachments) :
            CallCreate(q, p, fs) \/ (fs # {} /\ CallUpdate(q, p, fs))
       \/ CallDeletePost(q, p)
  \/ \E f \in known \cap Images : CallPersonasUpdate(q, f)
  \/ WorkerTick(q)

Next ==
  \/ \E q \in Procs : Statement(q) \/ Calls(q) \/ Kill(q)
  \/ \E f \in Files : HourPasses(f)

\* A handler that has begun goes on.
Spec == Init /\ [][Next]_vars /\ \A q \in Procs : WF_vars(Statement(q))

-----------------------------------------------------------------------------
(* Properties.                                                             *)

\* An attachment of a post has its file, and its post, unless it was attached
\* when it was an orphan already or somebody had it deleted.
AttachedIsServed ==
  \A f \in Files : row[f] \in PostIds =>
    /\ row[f] \in posts
    /\ f \in file \cup late \cup removed

\* Errors and interleavings leave no file behind that nothing refers to, but
\* for an upload killed half-way, an error of the store, and deleted posts.
FilesAreAccounted ==
  \A f \in file :
    row[f] # "none" \/ f \in leaked \/ \E q \in Procs : At(q, "CreateAttachment") /\ run[q].file = f

\* As long as clean-ups keep coming, an orphan is attached late or goes, and
\* its file with it.
OrphansGo ==
  (\A q \in Procs : []<><<WorkerTick(q)>>_vars) =>
    \A f \in Files : row[f] = "old" ~> row[f] \in PostIds \/ (row[f] = "none" /\ f \notin file \ leaked)

\* The picture of the profile is there until it is deleted.
AvatarIsServed == avatar # None => avatar \in file \cup removed

=============================================================================
