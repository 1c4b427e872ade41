----------------------------- MODULE MediaProofs -----------------------------
(***************************************************************************)
(* Proofs about module Media, for any number of uploads, posts, processes  *)
(* and faults.                                                             *)
(***************************************************************************)
EXTENDS Media, TLAPS

\* What a process may have left to do, beside the lists of Media.
Uploaded == <<"CreateAttachment">>
FileGone == <<"DeleteAttachment">>
PostThere == <<"AttachToPost">>

Todos ==
  {<<>>, MediaUpload, Uploaded, MediaDelete, CleanOne, FileGone, PostsCreate, PostsUpdate,
   PostThere, PostsDelete, PersonasUpdate, CleanOrphanAttachments}

Requests ==
  [todo : Todos, file : Files \cup {None}, files : SUBSET Files, post : PostIds \cup {None}]

Uploading(r) == r.todo \in {MediaUpload, Uploaded}
Removing(r) == r.todo \in {MediaDelete, CleanOne, FileGone}
Attaching(r) == r.todo \in {PostsCreate, PostsUpdate, PostThere}

\* The files a request has taken for orphans, or deletes when asked to.
Chosen(r) == IF Removing(r) THEN {r.file} \cup r.files ELSE {}

\* A request has what its statements need.
Prepared(r) ==
  /\ r \in Requests
  /\ Uploading(r) \/ Removing(r) => r.file \in Files
  /\ r.todo = PersonasUpdate => r.file \in Images
  /\ Attaching(r) => r.files \subseteq Attachments
  /\ Attaching(r) \/ r.todo = PostsDelete => r.post \in PostIds

\* An upload is new to everybody but the request that stores it.
New(f) == row[f] = "none" /\ f \notin known

UploadIsNew(r) ==
  Uploading(r) => r.file \notin fresh /\ New(r.file) /\ (r.todo = Uploaded => r.file \in file)

\* What was chosen is an orphan, which nobody attaches in time, or its deletion
\* was asked for.
ChosenIsOrphan(r) ==
  \A f \in Chosen(r) :
    /\ f \notin fresh
    /\ row[f] = "young" => f \in removed
    /\ row[f] \in PostIds => f \in late \cup removed

\* A row is deleted after its file.
FileGoesFirst(r) == r.todo = FileGone => r.file \notin file \ leaked

RequestOK(r) == Prepared(r) /\ UploadIsNew(r) /\ ChosenIsOrphan(r) /\ FileGoesFirst(r)

\* No two requests store one upload, and none has chosen what another stores.
UploadsAreApart ==
  \A p, q \in Procs : Uploading(run[p]) =>
    /\ Uploading(run[q]) /\ run[q].file = run[p].file => p = q
    /\ run[p].file \notin Chosen(run[q])

DataOK ==
  /\ file \subseteq Files /\ row \in [Files -> {"none"} \cup Loose \cup PostIds]
  /\ posts \subseteq PostIds
  /\ avatar \in Images \cup {None} /\ fresh \subseteq Files /\ known \subseteq Files
  /\ faults \in 0..MaxFaults
  /\ late \subseteq Attachments /\ removed \subseteq Attachments /\ leaked \subseteq Files

FreshIsNew == \A f \in fresh : New(f) /\ f \notin file

YoungIsThere == \A f \in Files : row[f] = "young" => f \in file \cup removed

Accounted ==
  \A f \in file :
    row[f] # "none" \/ f \in leaked \/ \E q \in Procs : run[q].todo = Uploaded /\ run[q].file = f

MediaInv ==
  /\ run \in [Procs -> Requests] /\ \A q \in Procs : RequestOK(run[q])
  /\ UploadsAreApart /\ DataOK /\ FreshIsNew /\ YoungIsThere /\ AttachedIsServed /\ Accounted

-----------------------------------------------------------------------------
(* The lists.                                                              *)

\* Each begins with another statement.
LEMMA Heads ==
  /\ Head(MediaUpload) = "Save" /\ Head(Uploaded) = "CreateAttachment"
  /\ Head(MediaDelete) = "GetAttachment" /\ Head(CleanOne) = "DeleteFile"
  /\ Head(FileGone) = "DeleteAttachment" /\ Head(PostsCreate) = "CreatePost"
  /\ Head(PostsUpdate) = "GetPost" /\ Head(PostThere) = "AttachToPost"
  /\ Head(PostsDelete) = "DeletePost" /\ Head(PersonasUpdate) = "UpdatePersona"
  /\ Head(CleanOrphanAttachments) = "ListOrphanAttachments"
BY DEF MediaUpload, Uploaded, MediaDelete, CleanOne, FileGone, PostsCreate, PostsUpdate,
       PostThere, PostsDelete, PersonasUpdate, CleanOrphanAttachments

LEMMA NoneIsEmpty ==
  <<>> \notin {MediaUpload, Uploaded, MediaDelete, CleanOne, FileGone, PostsCreate, PostsUpdate,
              PostThere, PostsDelete, PersonasUpdate, CleanOrphanAttachments}
BY DEF MediaUpload, Uploaded, MediaDelete, CleanOne, FileGone, PostsCreate, PostsUpdate,
       PostThere, PostsDelete, PersonasUpdate, CleanOrphanAttachments

LEMMA Rests ==
  /\ Len(MediaUpload) # 1 /\ Tail(MediaUpload) = Uploaded
  /\ Len(MediaDelete) # 1 /\ Tail(MediaDelete) = CleanOne
  /\ Len(CleanOne) # 1 /\ Tail(CleanOne) = FileGone
  /\ Len(PostsCreate) # 1 /\ Tail(PostsCreate) = PostThere
  /\ Len(PostsUpdate) # 1 /\ Tail(PostsUpdate) = PostThere
BY DEF MediaUpload, Uploaded, MediaDelete, CleanOne, FileGone, PostsCreate, PostsUpdate,
       PostThere

\* So the statement a process is at tells its list.
LEMMA Positions ==
  ASSUME NEW q \in Procs, run[q].todo \in Todos
  PROVE  /\ At(q, "Save") <=> run[q].todo = MediaUpload
         /\ At(q, "CreateAttachment") <=> run[q].todo = Uploaded
         /\ At(q, "GetAttachment") <=> run[q].todo = MediaDelete
         /\ At(q, "DeleteFile") <=> run[q].todo = CleanOne
         /\ At(q, "DeleteAttachment") <=> run[q].todo = FileGone
         /\ At(q, "CreatePost") <=> run[q].todo = PostsCreate
         /\ At(q, "GetPost") <=> run[q].todo = PostsUpdate
         /\ At(q, "AttachToPost") <=> run[q].todo = PostThere
         /\ At(q, "DeletePost") <=> run[q].todo = PostsDelete
         /\ At(q, "UpdatePersona") <=> run[q].todo = PersonasUpdate
         /\ At(q, "ListOrphanAttachments") <=> run[q].todo = CleanOrphanAttachments
BY Heads, NoneIsEmpty DEF At, Todos

\* The lists differ.
LEMMA Kinds ==
  ASSUME NEW r
  PROVE  /\ r.todo = MediaUpload => Uploading(r) /\ ~Removing(r) /\ ~Attaching(r)
         /\ r.todo = Uploaded => Uploading(r) /\ ~Removing(r) /\ ~Attaching(r) /\ r.todo # MediaUpload
         /\ r.todo = MediaDelete => Removing(r) /\ ~Uploading(r) /\ ~Attaching(r) /\ r.todo # FileGone
         /\ r.todo = CleanOne => Removing(r) /\ ~Uploading(r) /\ ~Attaching(r) /\ r.todo # FileGone
         /\ r.todo = FileGone => Removing(r) /\ ~Uploading(r) /\ ~Attaching(r)
         /\ r.todo = PostsCreate => Attaching(r) /\ ~Uploading(r) /\ ~Removing(r)
         /\ r.todo = PostsUpdate => Attaching(r) /\ ~Uploading(r) /\ ~Removing(r)
         /\ r.todo = PostThere => Attaching(r) /\ ~Uploading(r) /\ ~Removing(r)
         /\ r.todo = PostsDelete => ~Attaching(r) /\ ~Uploading(r) /\ ~Removing(r)
         /\ r.todo = PersonasUpdate => ~Attaching(r) /\ ~Uploading(r) /\ ~Removing(r)
         /\ r.todo = CleanOrphanAttachments => ~Attaching(r) /\ ~Uploading(r) /\ ~Removing(r)
         /\ r.todo = <<>> => ~Attaching(r) /\ ~Uploading(r) /\ ~Removing(r)
         /\ Uploading(r) \/ Removing(r) \/ Attaching(r) => r.todo \notin {<<>>, PersonasUpdate, PostsDelete}
         /\ Uploading(r) \/ Attaching(r) => r.todo # FileGone
BY Heads, NoneIsEmpty DEF Uploading, Removing, Attaching

LEMMA RestOfList ==
  ASSUME NEW r \in Requests, NEW rest \in Todos, Len(r.todo) # 1, Tail(r.todo) = rest
  PROVE  Rest(r) = [todo |-> rest, file |-> r.file, files |-> r.files, post |-> r.post]
BY DEF Rest, Request, Requests

\* A request that goes on has the rest of its list left to do.
LEMMA RestOfRequest ==
  ASSUME NEW r \in Requests
  PROVE  /\ r.todo = MediaUpload => Rest(r) = Request(Uploaded, r.file, r.files, r.post)
         /\ r.todo = MediaDelete => Rest(r) = Request(CleanOne, r.file, r.files, r.post)
         /\ r.todo = CleanOne => Rest(r) = Request(FileGone, r.file, r.files, r.post)
         /\ r.todo \in {PostsCreate, PostsUpdate} => Rest(r) = Request(PostThere, r.file, r.files, r.post)
<1>1. {Uploaded, CleanOne, FileGone, PostThere} \subseteq Todos
  BY DEF Todos
<1> QED
  BY <1>1, Rests, RestOfList DEF Request

LEMMA IdleOK ==
  /\ Idle \in Requests /\ Idle.todo = <<>> /\ ~Uploading(Idle) /\ Chosen(Idle) = {}
  /\ RequestOK(Idle) /\ RequestOK(Idle)'
<1>1. Idle \in Requests /\ Idle.todo = <<>>
  BY DEF Idle, Request, Requests, Todos
<1>2. ~Uploading(Idle) /\ ~Removing(Idle) /\ ~Attaching(Idle)
      /\ Idle.todo \notin {FileGone, PersonasUpdate, PostsDelete}
  BY <1>1, Kinds, NoneIsEmpty
<1> QED
  BY <1>1, <1>2 DEF Chosen, RequestOK, Prepared, UploadIsNew, ChosenIsOrphan, FileGoesFirst

-----------------------------------------------------------------------------
(* What one request does leaves the others as they are.                    *)

Becomes(q, s) == s \in Requests /\ run' = [run EXCEPT ![q] = s]

LEMMA Others ==
  ASSUME MediaInv, NEW q \in Procs, NEW s, Becomes(q, s)
  PROVE  /\ run' \in [Procs -> Requests] /\ run'[q] = s
         /\ \A p \in Procs \ {q} : run'[p] = run[p]
BY DEF MediaInv, Becomes

LEMMA ApartKept ==
  ASSUME MediaInv, NEW q \in Procs, NEW s, Becomes(q, s),
         Uploading(s) => Uploading(run[q]) /\ s.file = run[q].file,
         \A p \in Procs : Uploading(run[p]) => run[p].file \notin Chosen(s)
  PROVE  UploadsAreApart'
<1> USE Others DEF MediaInv, UploadsAreApart
<1>1. ASSUME NEW p \in Procs, NEW o \in Procs, Uploading(run'[p]), Uploading(run'[o]),
             run'[o].file = run'[p].file
      PROVE  p = o
  BY <1>1
<1>2. ASSUME NEW p \in Procs, NEW o \in Procs, Uploading(run'[p]) PROVE run'[p].file \notin Chosen(run'[o])
  BY <1>2
<1> QED
  BY <1>1, <1>2

\* A step that touches no upload, no row and no file.
LEMMA OtherSteps ==
  ASSUME MediaInv, NEW q \in Procs, NEW s, Becomes(q, s), RequestOK(s)', ~Uploading(s),
         \A p \in Procs : Uploading(run[p]) => run[p].file \notin Chosen(s),
         run[q].todo = Uploaded => run[q].file \in leaked',
         UNCHANGED <<file, row, fresh, known, late>>,
         posts \subseteq posts', removed \subseteq removed', leaked \subseteq leaked', DataOK'
  PROVE  MediaInv'
<1> USE DEF MediaInv
<1>1. ASSUME NEW p \in Procs \ {q} PROVE RequestOK(run[p])'
  <2>1. run'[p] = run[p] /\ RequestOK(run[p])
    BY Others
  <2> QED
    BY <2>1 DEF RequestOK, Prepared, UploadIsNew, New, ChosenIsOrphan, FileGoesFirst
<1>2. RequestOK(run[q])'
  BY Others DEF RequestOK, Prepared, UploadIsNew, New, ChosenIsOrphan, FileGoesFirst
<1>3. UploadsAreApart'
  BY ApartKept
<1>4. FreshIsNew' /\ YoungIsThere' /\ AttachedIsServed'
  BY DEF FreshIsNew, New, YoungIsThere, AttachedIsServed
<1>5. Accounted'
  <2> SUFFICES ASSUME NEW f \in file, row[f] = "none", f \notin leaked',
                      NEW p \in Procs, run[p].todo = Uploaded, run[p].file = f
               PROVE  run'[p].todo = Uploaded /\ run'[p].file = f
    BY DEF Accounted
  <2> QED
    BY Others
<1> QED
  BY <1>1, <1>2, <1>3, <1>4, <1>5, Others

\* A round of a clean-up is one of the files that were chosen.
LEMMA CleanRound ==
  ASSUME MediaInv, NEW q \in Procs, NEW fs \in SUBSET Files, CleanNext(q, fs)
  PROVE  \E s : /\ Becomes(q, s) /\ Prepared(s) /\ Chosen(s) \subseteq fs
                /\ ~Uploading(s) /\ s.todo # FileGone
<1>1. CASE fs = {}
  BY <1>1, IdleOK, NoneIsEmpty DEF CleanNext, Return, Becomes, RequestOK, FileGone
<1>2. CASE fs # {}
  <2>1. PICK f \in fs : run' = [run EXCEPT ![q] = Request(CleanOne, f, fs \ {f}, None)]
    BY <1>2 DEF CleanNext
  <2> DEFINE s == Request(CleanOne, f, fs \ {f}, None)
  <2>2. s.todo = CleanOne /\ s.file = f /\ s.files = fs \ {f} /\ s \in Requests
    BY DEF Request, Requests, Todos
  <2> HIDE DEF s
  <2>3. Prepared(s) /\ Chosen(s) \subseteq fs /\ ~Uploading(s) /\ s.todo # FileGone
    BY <2>2, Kinds DEF Prepared, Chosen
  <2> QED
    BY <2>1, <2>2, <2>3 DEF Becomes, s
<1> QED
  BY <1>1, <1>2

LEMMA FaultCounted == ASSUME DataOK, Fault PROVE faults' \in 0..MaxFaults
BY FaultsAreCounted DEF DataOK, Fault

\* A statement that fails, and a process that is killed, change nothing else.
LEMMA Failing ==
  ASSUME MediaInv, NEW q \in Procs, Return(q), Fault,
         run[q].todo = Uploaded => run[q].file \in leaked', leaked \subseteq leaked',
         leaked' \subseteq Files, UNCHANGED <<data, late, removed>>
  PROVE  MediaInv'
<1>1. DataOK'
  BY FaultCounted DEF MediaInv, DataOK, data
<1> QED
  BY <1>1, OtherSteps, IdleOK DEF Becomes, Return, data

-----------------------------------------------------------------------------
(* The statements.                                                         *)

LEMMA SaveStep == ASSUME MediaInv, NEW q \in Procs, Save(q) PROVE MediaInv'
<1> USE DEF MediaInv
<1> DEFINE f == run[q].file
<1>1. run[q].todo = MediaUpload /\ RequestOK(run[q])
  BY Positions DEF Save, Requests
<1>2. Uploading(run[q]) /\ f \in Files /\ f \notin fresh /\ New(f)
  BY <1>1, Kinds DEF RequestOK, Prepared, UploadIsNew
<1>3. CASE file' = file \cup {f} /\ GoOn(q) /\ UNCHANGED faults
  <2> DEFINE s == Request(Uploaded, f, run[q].files, run[q].post)
  <2>1. s \in Requests /\ s.todo = Uploaded /\ s.file = f
    BY DEF Request, Requests, Todos
  <2>2. Becomes(q, s)
    BY <1>1, <1>3, <2>1, RestOfRequest DEF GoOn, Becomes
  <2> HIDE DEF s
  <2>3. Uploading(s) /\ ~Removing(s) /\ ~Attaching(s) /\ Chosen(s) = {}
        /\ s.todo \notin {FileGone, PersonasUpdate, PostsDelete}
    BY <2>1, Kinds DEF Chosen
  <2>4. UNCHANGED <<row, posts, avatar, fresh, known, history>>
    BY DEF Save
  <2>5. RequestOK(run[q])'
    BY <1>2, <1>3, <2>1, <2>2, <2>3, <2>4, Others
       DEF RequestOK, Prepared, UploadIsNew, New, ChosenIsOrphan, FileGoesFirst
  <2>6. ASSUME NEW p \in Procs \ {q} PROVE RequestOK(run[p])'
    <3>1. run'[p] = run[p] /\ RequestOK(run[p]) /\ f \notin Chosen(run[p])
      BY <1>2, <2>2, Others DEF UploadsAreApart
    <3>2. run[p].todo = FileGone => run[p].file \in Chosen(run[p])
      BY Kinds DEF Chosen
    <3> QED
      BY <1>3, <2>4, <3>1, <3>2
         DEF RequestOK, Prepared, UploadIsNew, New, ChosenIsOrphan, FileGoesFirst, history
  <2>7. UploadsAreApart'
    BY <1>2, <2>1, <2>2, <2>3, ApartKept
  <2>8. DataOK' /\ FreshIsNew' /\ YoungIsThere' /\ AttachedIsServed'
    BY <1>2, <1>3, <2>4 DEF DataOK, FreshIsNew, New, YoungIsThere, AttachedIsServed, history
  <2>9. Accounted'
    BY <1>3, <2>1, <2>2, <2>4, Others, <1>1, Kinds DEF Accounted, history
  <2> QED
    BY <2>2, <2>5, <2>6, <2>7, <2>8, <2>9, Others
<1>4. CASE Fault /\ Return(q) /\ UNCHANGED file
  BY <1>1, <1>4, Failing, Kinds DEF Save, data, history, DataOK
<1> QED
  BY <1>3, <1>4 DEF Save

LEMMA CreateAttachmentStep ==
  ASSUME MediaInv, NEW q \in Procs, CreateAttachment(q) PROVE MediaInv'
<1> USE DEF MediaInv
<1> DEFINE f == run[q].file
<1>1. run[q].todo = Uploaded /\ RequestOK(run[q])
  BY Positions DEF CreateAttachment, Requests
<1>2. Uploading(run[q]) /\ f \in Files /\ f \notin fresh /\ New(f) /\ f \in file
  BY <1>1, Kinds DEF RequestOK, Prepared, UploadIsNew
<1>3. Becomes(q, Idle)
  BY IdleOK DEF CreateAttachment, Return, Becomes
<1>4. UNCHANGED <<posts, avatar, fresh, late, removed, leaked>>
  BY DEF CreateAttachment, history
<1>5. \/ /\ row' = [row EXCEPT ![f] = "young"] /\ known' = known \cup {f}
         /\ UNCHANGED <<file, faults>>
      \/ Fault /\ file' = file \ {f} /\ UNCHANGED <<row, known>>
  BY DEF CreateAttachment
<1>6. row' \in [Files -> {"none"} \cup Loose \cup PostIds] /\ (\A g \in Files \ {f} : row'[g] = row[g])
      /\ row'[f] \in {"none", "young"}
  BY <1>2, <1>5 DEF DataOK, New, Loose
<1>7. ASSUME NEW p \in Procs \ {q} PROVE RequestOK(run[p])'
  <2>1. run'[p] = run[p] /\ RequestOK(run[p]) /\ f \notin Chosen(run[p])
        /\ (Uploading(run[p]) => run[p].file # f)
    BY <1>2, <1>3, Others DEF UploadsAreApart
  <2>2. Prepared(run[p])
    BY <2>1 DEF RequestOK
  <2>3. Chosen(run[p]) \subseteq Files
    BY <2>2 DEF Chosen, Prepared, Requests
  <2> QED
    BY <1>4, <1>5, <1>6, <2>1, <2>2, <2>3, Kinds
       DEF RequestOK, Prepared, UploadIsNew, New, ChosenIsOrphan, FileGoesFirst
<1>8. RequestOK(run[q])'
  BY <1>3, Others, IdleOK DEF RequestOK, Prepared, UploadIsNew, ChosenIsOrphan, FileGoesFirst
<1>9. UploadsAreApart'
  BY <1>3, IdleOK, ApartKept
<1>10. DataOK'
  BY <1>2, <1>4, <1>5, <1>6, FaultCounted DEF DataOK
<1>11. FreshIsNew' /\ YoungIsThere' /\ AttachedIsServed'
  BY <1>2, <1>4, <1>5, <1>6, PostsAreIds DEF FreshIsNew, New, YoungIsThere, AttachedIsServed, DataOK
<1>12. Accounted'
  BY <1>2, <1>3, <1>4, <1>5, <1>6, Others DEF Accounted, DataOK
<1> QED
  BY <1>3, <1>7, <1>8, <1>9, <1>10, <1>11, <1>12, Others

LEMMA DeleteFileStep ==
  ASSUME MediaInv, NEW q \in Procs, DeleteFile(q) PROVE MediaInv'
<1> USE DEF MediaInv
<1> DEFINE f == run[q].file
           s == Request(FileGone, f, run[q].files, run[q].post)
<1>1. run[q].todo = CleanOne /\ RequestOK(run[q])
  BY Positions DEF DeleteFile, Requests
<1>2. Removing(run[q]) /\ f \in Files /\ f \in Chosen(run[q])
  BY <1>1, Kinds DEF RequestOK, Prepared, Chosen
<1>3. f \notin fresh /\ (row[f] = "young" => f \in removed)
      /\ (row[f] \in PostIds => f \in late \cup removed)
  BY <1>1, <1>2 DEF RequestOK, ChosenIsOrphan
<1>4. s \in Requests /\ s.todo = FileGone /\ s.file = f /\ s.files = run[q].files
  BY <1>2 DEF Request, Requests, Todos
<1>5. Becomes(q, s)
  BY <1>1, <1>4, RestOfRequest DEF DeleteFile, GoOn, Becomes
<1> HIDE DEF s
<1>6. ~Uploading(s) /\ Removing(s) /\ ~Attaching(s) /\ s.todo \notin {PersonasUpdate, PostsDelete}
      /\ Chosen(s) = Chosen(run[q])
  BY <1>2, <1>4, Kinds DEF Chosen
<1>7. UNCHANGED <<row, posts, avatar, fresh, known, late, removed>>
  BY DEF DeleteFile
<1>8. \/ file' = file \ {f} /\ UNCHANGED <<faults, leaked>>
      \/ Fault /\ leaked' = leaked \cup {f} /\ UNCHANGED file
  BY DEF DeleteFile
<1>9. RequestOK(run[q])'
  <2>1. run'[q] = s
    BY <1>5, Others
  <2> QED
    BY <1>1, <1>2, <1>4, <1>6, <1>7, <1>8, <2>1
       DEF RequestOK, Prepared, UploadIsNew, ChosenIsOrphan, FileGoesFirst
<1>10. ASSUME NEW p \in Procs \ {q} PROVE RequestOK(run[p])'
  <2>1. run'[p] = run[p] /\ RequestOK(run[p]) /\ (Uploading(run[p]) => run[p].file # f)
    BY <1>2, <1>5, Others DEF UploadsAreApart
  <2> QED
    BY <1>7, <1>8, <2>1
       DEF RequestOK, Prepared, UploadIsNew, New, ChosenIsOrphan, FileGoesFirst
<1>11. UploadsAreApart'
  BY <1>5, <1>6, ApartKept DEF UploadsAreApart
<1>12. DataOK'
  BY <1>2, <1>7, <1>8, FaultCounted DEF DataOK
<1>13. FreshIsNew' /\ YoungIsThere' /\ AttachedIsServed'
  BY <1>3, <1>7, <1>8 DEF FreshIsNew, New, YoungIsThere, AttachedIsServed
<1>14. Accounted'
  <2> SUFFICES ASSUME NEW g \in file', row[g] = "none", g \notin leaked'
               PROVE  \E p \in Procs : run'[p].todo = Uploaded /\ run'[p].file = g
    BY <1>7 DEF Accounted
  <2>1. PICK p \in Procs : run[p].todo = Uploaded /\ run[p].file = g
    BY <1>8 DEF Accounted
  <2>2. p # q
    BY <1>2, <2>1, Kinds
  <2> QED
    BY <1>5, <2>1, <2>2, Others
<1> QED
  BY <1>5, <1>9, <1>10, <1>11, <1>12, <1>13, <1>14, Others

LEMMA DeleteAttachmentStep ==
  ASSUME MediaInv, NEW q \in Procs, DeleteAttachment(q) PROVE MediaInv'
<1> USE DEF MediaInv
<1> DEFINE f == run[q].file
<1>1. run[q].todo = FileGone /\ RequestOK(run[q])
  BY Positions DEF DeleteAttachment, Requests
<1>2. Removing(run[q]) /\ f \in Files /\ f \in Chosen(run[q]) /\ f \notin file \ leaked
      /\ run[q].files \subseteq Chosen(run[q]) /\ run[q].files \in SUBSET Files
  BY <1>1, Kinds DEF RequestOK, Prepared, Chosen, Requests, FileGoesFirst
<1>3. PICK s : /\ Becomes(q, s) /\ Prepared(s) /\ Chosen(s) \subseteq run[q].files
               /\ ~Uploading(s) /\ s.todo # FileGone
  BY <1>2, CleanRound DEF DeleteAttachment
<1>4. UNCHANGED <<file, posts, avatar, fresh, known, late, removed, leaked>>
  BY DEF DeleteAttachment, history
<1>5. \/ row' = [row EXCEPT ![f] = "none"] /\ UNCHANGED faults
      \/ Fault /\ UNCHANGED row
  BY DEF DeleteAttachment
<1>6. row' \in [Files -> {"none"} \cup Loose \cup PostIds] /\ (\A g \in Files \ {f} : row'[g] = row[g])
      /\ row'[f] \in {"none", row[f]}
  BY <1>2, <1>5 DEF DataOK
<1>7. \A g \in Files : (row'[g] = "young" => row[g] = "young") /\ (row'[g] \in PostIds => row[g] \in PostIds)
                       /\ (row[g] = "none" => row'[g] = "none")
  BY <1>6, PostsAreIds
<1>8. RequestOK(run[q])'
  <2>1. run'[q] = s
    BY <1>3, Others
  <2>2. \A g \in Chosen(s) : g \in Files /\ g \notin fresh /\ (row[g] = "young" => g \in removed)
                             /\ (row[g] \in PostIds => g \in late \cup removed)
    BY <1>1, <1>2, <1>3 DEF RequestOK, ChosenIsOrphan
  <2> QED
    BY <1>3, <1>4, <1>7, <2>1, <2>2
       DEF RequestOK, Prepared, UploadIsNew, ChosenIsOrphan, FileGoesFirst
<1>9. ASSUME NEW p \in Procs \ {q} PROVE RequestOK(run[p])'
  <2>1. run'[p] = run[p] /\ RequestOK(run[p])
    BY <1>3, Others
  <2>2. Chosen(run[p]) \subseteq Files
    BY <2>1 DEF RequestOK, Prepared, Chosen, Requests
  <2> QED
    BY <1>4, <1>7, <2>1, <2>2
       DEF RequestOK, Prepared, UploadIsNew, New, ChosenIsOrphan, FileGoesFirst
<1>10. UploadsAreApart'
  BY <1>2, <1>3, ApartKept DEF UploadsAreApart
<1>11. DataOK'
  BY <1>4, <1>5, <1>6, FaultCounted DEF DataOK
<1>12. FreshIsNew' /\ YoungIsThere' /\ AttachedIsServed'
  BY <1>4, <1>6, <1>7, PostsAreIds DEF FreshIsNew, New, YoungIsThere, AttachedIsServed, DataOK
<1>13. Accounted'
  <2> SUFFICES ASSUME NEW g \in file', row'[g] = "none", g \notin leaked'
               PROVE  \E p \in Procs : run'[p].todo = Uploaded /\ run'[p].file = g
    BY DEF Accounted
  <2>1. g \in Files /\ g # f /\ row[g] = "none"
    BY <1>2, <1>4, <1>6 DEF DataOK
  <2>2. PICK p \in Procs : run[p].todo = Uploaded /\ run[p].file = g
    BY <1>4, <2>1 DEF Accounted
  <2>3. p # q
    BY <1>2, <2>2, Kinds
  <2> QED
    BY <1>3, <2>2, <2>3, Others
<1> QED
  BY <1>3, <1>8, <1>9, <1>10, <1>11, <1>12, <1>13, Others

LEMMA AttachToPostStep ==
  ASSUME MediaInv, NEW q \in Procs, AttachToPost(q) PROVE MediaInv'
<1> USE DEF MediaInv
<1> DEFINE r == run[q]
           new == {f \in r.files : row[f] \in Loose /\ r.post \in posts}
<1>1. r.todo = PostThere /\ RequestOK(r)
  BY Positions DEF AttachToPost, Requests
<1>2. Attaching(r) /\ r.files \subseteq Attachments /\ r.post \in PostIds
  BY <1>1, Kinds DEF RequestOK, Prepared
<1>3. Becomes(q, Idle)
  BY IdleOK DEF AttachToPost, Return, Becomes
<1>4. /\ row' = [f \in Files |-> IF f \in new THEN r.post ELSE row[f]]
      /\ late' = late \cup {f \in new : row[f] = "old"}
      /\ UNCHANGED <<file, posts, avatar, fresh, known, faults, removed, leaked>>
  BY DEF AttachToPost
<1>5. new \subseteq Attachments /\ \A f \in new : row[f] \in {"young", "old"} /\ r.post \in posts
  BY <1>2 DEF Loose
<1> HIDE DEF new
<1>6. \A f \in Files : (f \in new /\ row'[f] = r.post) \/ (f \notin new /\ row'[f] = row[f])
  BY <1>4
<1>7. ASSUME NEW p \in Procs \ {q} PROVE RequestOK(run[p])'
  <2>1. run'[p] = run[p] /\ RequestOK(run[p])
    BY <1>3, Others
  <2>2. Chosen(run[p]) \subseteq Files /\ Prepared(run[p])
    BY <2>1 DEF RequestOK, Prepared, Chosen, Requests
  <2>3. UploadIsNew(run[p])'
    BY <1>4, <1>5, <1>6, <2>1, <2>2 DEF RequestOK, UploadIsNew, New, Prepared
  <2>4. ChosenIsOrphan(run[p])'
    BY <1>2, <1>4, <1>5, <1>6, <2>1, <2>2, PostsAreIds DEF RequestOK, ChosenIsOrphan
  <2> QED
    BY <1>4, <2>1, <2>3, <2>4 DEF RequestOK, Prepared, FileGoesFirst
<1>8. RequestOK(run[q])'
  BY <1>3, Others, IdleOK DEF RequestOK, Prepared, UploadIsNew, ChosenIsOrphan, FileGoesFirst
<1>9. UploadsAreApart'
  BY <1>3, IdleOK, ApartKept
<1>10. DataOK'
  BY <1>2, <1>4, <1>5, <1>6 DEF DataOK
<1>11. FreshIsNew' /\ YoungIsThere'
  BY <1>2, <1>4, <1>5, <1>6, PostsAreIds DEF FreshIsNew, New, YoungIsThere, DataOK
<1>12. AttachedIsServed'
  BY <1>4, <1>5, <1>6 DEF AttachedIsServed, YoungIsThere
<1>13. Accounted'
  <2> SUFFICES ASSUME NEW g \in file', row'[g] = "none", g \notin leaked'
               PROVE  \E p \in Procs : run'[p].todo = Uploaded /\ run'[p].file = g
    BY DEF Accounted
  <2>1. g \in Files /\ row[g] = "none" /\ g \in file /\ g \notin leaked
    BY <1>2, <1>4, <1>6, PostsAreIds DEF DataOK
  <2>2. PICK p \in Procs : run[p].todo = Uploaded /\ run[p].file = g
    BY <2>1 DEF Accounted
  <2>3. p # q
    BY <1>2, <2>2, Kinds
  <2> QED
    BY <1>3, <2>2, <2>3, Others
<1> QED
  BY <1>3, <1>7, <1>8, <1>9, <1>10, <1>11, <1>12, <1>13, Others

LEMMA DeletePostStep ==
  ASSUME MediaInv, NEW q \in Procs, DeletePost(q) PROVE MediaInv'
<1> USE DEF MediaInv
<1> DEFINE p0 == run[q].post
           gone == {f \in Files : row[f] = p0}
<1>1. run[q].todo = PostsDelete /\ RequestOK(run[q])
  BY Positions DEF DeletePost, Requests
<1>2. p0 \in PostIds
  BY <1>1 DEF RequestOK, Prepared
<1>3. Becomes(q, Idle)
  BY IdleOK DEF DeletePost, Return, Becomes
<1>4. /\ posts' = posts \ {p0} /\ leaked' = leaked \cup gone
      /\ row' = [f \in Files |-> IF f \in gone THEN "none" ELSE row[f]]
      /\ UNCHANGED <<file, avatar, fresh, known, faults, late, removed>>
  BY DEF DeletePost
<1>5. \A f \in Files : \/ f \in gone /\ row[f] = p0 /\ row'[f] = "none"
                       \/ f \notin gone /\ row[f] # p0 /\ row'[f] = row[f]
  BY <1>4
<1> HIDE DEF gone
<1>6. gone \subseteq Files
  BY DEF gone
<1>7. ASSUME NEW p \in Procs \ {q} PROVE RequestOK(run[p])'
  <2>1. run'[p] = run[p] /\ RequestOK(run[p])
    BY <1>3, Others
  <2>2. Chosen(run[p]) \subseteq Files /\ Prepared(run[p])
    BY <2>1 DEF RequestOK, Prepared, Chosen, Requests
  <2>3. UploadIsNew(run[p])'
    BY <1>4, <1>5, <2>1, <2>2 DEF RequestOK, UploadIsNew, New, Prepared
  <2>4. ChosenIsOrphan(run[p])'
    BY <1>4, <1>5, <2>1, <2>2, PostsAreIds DEF RequestOK, ChosenIsOrphan
  <2> QED
    BY <1>4, <2>1, <2>3, <2>4 DEF RequestOK, Prepared, FileGoesFirst
<1>8. RequestOK(run[q])'
  BY <1>3, Others, IdleOK DEF RequestOK, Prepared, UploadIsNew, ChosenIsOrphan, FileGoesFirst
<1>9. UploadsAreApart'
  BY <1>3, IdleOK, ApartKept
<1>10. DataOK'
  BY <1>2, <1>4, <1>5, <1>6 DEF DataOK
<1>11. FreshIsNew' /\ YoungIsThere' /\ AttachedIsServed'
  BY <1>2, <1>4, <1>5, PostsAreIds DEF FreshIsNew, New, YoungIsThere, AttachedIsServed, DataOK
<1>12. Accounted'
  <2> SUFFICES ASSUME NEW g \in file', row'[g] = "none", g \notin leaked'
               PROVE  \E p \in Procs : run'[p].todo = Uploaded /\ run'[p].file = g
    BY DEF Accounted
  <2>1. g \in Files /\ row[g] = "none" /\ g \in file /\ g \notin leaked
    BY <1>4, <1>5 DEF DataOK
  <2>2. PICK p \in Procs : run[p].todo = Uploaded /\ run[p].file = g
    BY <2>1 DEF Accounted
  <2>3. p # q
    BY <1>1, <2>2, Kinds
  <2> QED
    BY <1>3, <2>2, <2>3, Others
<1> QED
  BY <1>3, <1>7, <1>8, <1>9, <1>10, <1>11, <1>12, Others

\* The statements that touch no upload, row or file.
LEMMA OtherStatements ==
  ASSUME MediaInv, NEW q \in Procs,
         GetAttachment(q) \/ CreatePost(q) \/ GetPost(q) \/ UpdatePersona(q) \/ ListOrphanAttachments(q)
  PROVE  MediaInv'
<1> USE DEF MediaInv, data, history
<1> DEFINE r == run[q]
<1>1. RequestOK(r) /\ r.todo \in Todos
  BY DEF Requests
<1>2. CASE GetAttachment(q)
  <2>1. r.todo = MediaDelete /\ Removing(r) /\ r.file \in Files
    BY <1>1, <1>2, Positions, Kinds DEF GetAttachment, RequestOK, Prepared
  <2> PICK s : s = Request(CleanOne, r.file, r.files, r.post)
    OBVIOUS
  <2>2. s \in Requests /\ s.todo = CleanOne /\ s.file = r.file /\ s.files = r.files
    BY <1>1 DEF Request, Requests, Todos, RequestOK, Prepared
  <2>3. Becomes(q, s) \/ Becomes(q, Idle)
    BY <1>1, <1>2, <2>1, <2>2, RestOfRequest, IdleOK
       DEF GetAttachment, GoOn, Return, Becomes, RequestOK, Prepared
  <2>4. Removing(s) /\ ~Uploading(s) /\ ~Attaching(s) /\ Chosen(s) = Chosen(r)
        /\ s.todo \notin {FileGone, PersonasUpdate, PostsDelete}
    BY <2>1, <2>2, Kinds DEF Chosen
  <2>5. UNCHANGED <<file, row, posts, avatar, fresh, known, faults, late, removed, leaked>>
    BY <1>2 DEF GetAttachment
  <2>6. DataOK' /\ r.todo # Uploaded
    BY <2>1, <2>5, Kinds DEF DataOK
  <2>7. RequestOK(s)'
    <3>1. Prepared(s)' /\ UploadIsNew(s)' /\ FileGoesFirst(s)'
      BY <2>1, <2>2, <2>4 DEF Prepared, UploadIsNew, FileGoesFirst
    <3>2. \A f \in Chosen(s) : /\ f \notin fresh /\ (row[f] = "young" => f \in removed)
                              /\ (row[f] \in PostIds => f \in late \cup removed)
      BY <1>1, <2>4 DEF RequestOK, ChosenIsOrphan
    <3> QED
      BY <2>5, <3>1, <3>2 DEF RequestOK, ChosenIsOrphan
  <2>8. CASE Becomes(q, s)
    <3>1. \A p \in Procs : Uploading(run[p]) => run[p].file \notin Chosen(s)
      BY <2>4 DEF UploadsAreApart
    <3> QED
      BY <2>4, <2>5, <2>6, <2>7, <2>8, <3>1, OtherSteps
  <2>9. CASE Becomes(q, Idle)
    BY <2>5, <2>6, <2>9, IdleOK, OtherSteps
  <2> QED
    BY <2>3, <2>8, <2>9
<1>3. CASE CreatePost(q) \/ GetPost(q)
  <2>1. r.todo \in {PostsCreate, PostsUpdate} /\ Attaching(r) /\ r.post \in PostIds
        /\ r.files \subseteq Attachments
    BY <1>1, <1>3, Positions, Kinds DEF CreatePost, GetPost, RequestOK, Prepared
  <2> PICK s : s = Request(PostThere, r.file, r.files, r.post)
    OBVIOUS
  <2>2. s \in Requests /\ s.todo = PostThere /\ s.files = r.files /\ s.post = r.post
    BY <1>1 DEF Request, Requests, Todos, RequestOK, Prepared
  <2>3. Becomes(q, s) \/ Becomes(q, Idle)
    BY <1>1, <1>3, <2>1, <2>2, RestOfRequest, IdleOK
       DEF CreatePost, GetPost, GoOn, Return, Becomes, RequestOK, Prepared
  <2>4. Attaching(s) /\ ~Uploading(s) /\ ~Removing(s) /\ Chosen(s) = {}
        /\ s.todo \notin {FileGone, PersonasUpdate}
    BY <2>1, <2>2, Kinds DEF Chosen
  <2>5. RequestOK(s)'
    BY <2>1, <2>2, <2>4 DEF RequestOK, Prepared, UploadIsNew, ChosenIsOrphan, FileGoesFirst
  <2>6. DataOK' /\ UNCHANGED <<file, row, fresh, known, late, removed, leaked>>
        /\ posts \subseteq posts' /\ r.todo # Uploaded
    BY <1>3, <2>1, Kinds DEF CreatePost, GetPost, DataOK
  <2>7. CASE Becomes(q, s)
    BY <2>4, <2>5, <2>6, <2>7, OtherSteps
  <2>8. CASE Becomes(q, Idle)
    BY <2>6, <2>8, IdleOK, OtherSteps
  <2> QED
    BY <2>3, <2>7, <2>8
<1>4. CASE UpdatePersona(q)
  <2>1. r.todo = PersonasUpdate /\ r.file \in Images
    BY <1>1, <1>4, Positions DEF UpdatePersona, RequestOK, Prepared
  <2>2. Becomes(q, Idle) /\ UNCHANGED <<file, row, posts, fresh, known, faults, history>>
    BY <1>4, IdleOK DEF UpdatePersona, Return, Becomes
  <2>3. DataOK' /\ r.todo # Uploaded
    BY <1>4, <2>1, <2>2, Kinds DEF UpdatePersona, DataOK
  <2> QED
    BY <2>2, <2>3, IdleOK, OtherSteps
<1>5. CASE ListOrphanAttachments(q)
  <2> DEFINE old == {f \in Files : row[f] = "old"}
  <2>1. r.todo = CleanOrphanAttachments /\ r.todo # Uploaded
    BY <1>1, <1>5, Positions, Kinds DEF ListOrphanAttachments
  <2>2. PICK s : /\ Becomes(q, s) /\ Prepared(s) /\ Chosen(s) \subseteq old
                 /\ ~Uploading(s) /\ s.todo # FileGone
    BY <1>5, CleanRound DEF ListOrphanAttachments
  <2>3. UNCHANGED <<data, faults, history>>
    BY <1>5 DEF ListOrphanAttachments
  <2>4. \A f \in old : f \notin fresh /\ row[f] \notin {"young", "none"} \cup PostIds
    BY PostsAreIds DEF FreshIsNew, New
  <2>5. RequestOK(s)'
    BY <2>2, <2>3, <2>4 DEF RequestOK, Prepared, UploadIsNew, ChosenIsOrphan, FileGoesFirst
  <2>6. \A p \in Procs : Uploading(run[p]) => run[p].file \notin Chosen(s)
    BY <2>2, <2>4 DEF RequestOK, UploadIsNew, New
  <2>7. DataOK'
    BY <2>3 DEF DataOK
  <2> QED
    BY <2>1, <2>2, <2>3, <2>5, <2>6, <2>7, OtherSteps
<1> QED
  BY <1>2, <1>3, <1>4, <1>5

LEMMA StatementStep == ASSUME MediaInv, NEW q \in Procs, Statement(q) PROVE MediaInv'
BY SaveStep, CreateAttachmentStep, DeleteFileStep, DeleteAttachmentStep, AttachToPostStep,
   DeletePostStep, OtherStatements DEF Statement

-----------------------------------------------------------------------------
(* Requests, and what happens to them.                                     *)

LEMMA UploadStep ==
  ASSUME MediaInv, NEW q \in Procs, NEW f \in Files, Upload(q, f) PROVE MediaInv'
<1> USE DEF MediaInv
<1> PICK s : s = Request(MediaUpload, f, {}, None)
  OBVIOUS
<1>1. s \in Requests /\ s.todo = MediaUpload /\ s.file = f /\ s.files = {}
  BY DEF Request, Requests, Todos
<1>2. Uploading(s) /\ ~Removing(s) /\ ~Attaching(s) /\ Chosen(s) = {}
      /\ s.todo \notin {FileGone, PersonasUpdate, PostsDelete, Uploaded}
  BY <1>1, Kinds DEF Chosen
<1>3. f \in fresh /\ fresh' = fresh \ {f} /\ New(f) /\ Becomes(q, s) /\ run[q] = Idle
  BY <1>1 DEF Upload, FreshIsNew, Becomes
<1>4. UNCHANGED <<file, row, posts, avatar, known, faults, late, removed, leaked>>
  BY DEF Upload, history
<1>5. RequestOK(s)'
  <2>1. Prepared(s)' /\ FileGoesFirst(s)' /\ ChosenIsOrphan(s)'
    BY <1>1, <1>2 DEF Prepared, FileGoesFirst, ChosenIsOrphan
  <2> QED
    BY <1>1, <1>2, <1>3, <1>4, <2>1 DEF RequestOK, UploadIsNew, New
<1>6. ASSUME NEW p \in Procs \ {q} PROVE RequestOK(run[p])'
  <2>1. run'[p] = run[p] /\ RequestOK(run[p])
    BY <1>3, Others
  <2> QED
    BY <1>3, <1>4, <2>1
       DEF RequestOK, Prepared, UploadIsNew, New, ChosenIsOrphan, FileGoesFirst
<1>7. RequestOK(run[q])'
  <2>1. run'[q] = s
    BY <1>3, Others
  <2> QED
    BY <1>5, <2>1 DEF RequestOK, Prepared, UploadIsNew, New, ChosenIsOrphan, FileGoesFirst
<1>8. UploadsAreApart'
  <2>1. ASSUME NEW p \in Procs PROVE f \notin Chosen(run[p]) /\ (Uploading(run[p]) => run[p].file # f)
    BY <1>3 DEF RequestOK, UploadIsNew, ChosenIsOrphan
  <2>2. ASSUME NEW p \in Procs, NEW o \in Procs, Uploading(run'[p]), Uploading(run'[o]),
               run'[o].file = run'[p].file
        PROVE  p = o
    BY <1>1, <1>3, <2>1, <2>2, Others DEF UploadsAreApart
  <2>3. ASSUME NEW p \in Procs, NEW o \in Procs, Uploading(run'[p])
        PROVE  run'[p].file \notin Chosen(run'[o])
    BY <1>1, <1>2, <1>3, <2>1, <2>3, Others DEF UploadsAreApart
  <2> QED
    BY <2>2, <2>3 DEF UploadsAreApart
<1>9. DataOK' /\ FreshIsNew' /\ YoungIsThere' /\ AttachedIsServed'
  BY <1>3, <1>4 DEF DataOK, FreshIsNew, New, YoungIsThere, AttachedIsServed
<1>10. Accounted'
  <2>1. run[q].todo # Uploaded
    BY <1>3, IdleOK, Kinds
  <2> QED
    BY <1>3, <1>4, <2>1, Others DEF Accounted
<1> QED
  BY <1>3, <1>6, <1>7, <1>8, <1>9, <1>10, Others

\* A request that has chosen no file yet can always begin.
LEMMA BeginStep ==
  ASSUME MediaInv, NEW q \in Procs, NEW s, s \in Requests, Begin(q, s), UNCHANGED removed,
         s.todo = PersonasUpdate => s.file \in Images,
         s.todo \in {PostsCreate, PostsUpdate} => s.files \subseteq Attachments,
         s.todo \in {PostsCreate, PostsUpdate, PostsDelete} => s.post \in PostIds,
         s.todo \in {PostsCreate, PostsUpdate, PostsDelete, PersonasUpdate, CleanOrphanAttachments}
  PROVE  MediaInv'
<1> USE DEF MediaInv
<1>1. ~Uploading(s) /\ ~Removing(s) /\ Chosen(s) = {} /\ s.todo \notin {FileGone, PostThere}
      /\ (Attaching(s) <=> s.todo \in {PostsCreate, PostsUpdate})
  BY Kinds, NoneIsEmpty, Heads DEF Chosen, Attaching
<1>2. UNCHANGED <<file, row, posts, avatar, fresh, known, faults, late, removed, leaked>>
      /\ Becomes(q, s) /\ run[q] = Idle
  BY DEF Begin, Becomes, data
<1>3. RequestOK(s)'
  BY <1>1 DEF RequestOK, Prepared, UploadIsNew, ChosenIsOrphan, FileGoesFirst
<1>4. DataOK'
  BY <1>2 DEF DataOK
<1>5. run[q].todo # Uploaded
  BY <1>2, IdleOK, Kinds
<1> QED
  BY <1>1, <1>2, <1>3, <1>4, <1>5, OtherSteps

LEMMA CallDeleteStep ==
  ASSUME MediaInv, NEW q \in Procs, NEW f \in Files, CallDelete(q, f) PROVE MediaInv'
<1> USE DEF MediaInv
<1> PICK s : s = Request(MediaDelete, f, {}, None)
  OBVIOUS
<1>1. s \in Requests /\ s.todo = MediaDelete /\ s.file = f /\ s.files = {}
  BY DEF Request, Requests, Todos
<1>2. ~Uploading(s) /\ Removing(s) /\ ~Attaching(s) /\ Chosen(s) = {f}
      /\ s.todo \notin {FileGone, PersonasUpdate, PostsDelete}
  BY <1>1, Kinds DEF Chosen
<1>3. f \in known /\ f \in Attachments /\ removed' = removed \cup {f} /\ Becomes(q, s) /\ run[q] = Idle
  BY <1>1 DEF CallDelete, Begin, Becomes
<1>4. UNCHANGED <<file, row, posts, avatar, fresh, known, faults, late, leaked>>
  BY DEF CallDelete, Begin, data
<1>5. f \notin fresh
  BY <1>3 DEF FreshIsNew, New
<1>6. RequestOK(s)'
  <2>1. Prepared(s)' /\ UploadIsNew(s)' /\ FileGoesFirst(s)'
    BY <1>1, <1>2 DEF Prepared, UploadIsNew, FileGoesFirst
  <2> QED
    BY <1>2, <1>3, <1>4, <1>5, <2>1 DEF RequestOK, ChosenIsOrphan
<1>7. DataOK'
  BY <1>3, <1>4 DEF DataOK
<1>8. run[q].todo # Uploaded
  BY <1>3, IdleOK, Kinds
<1>9. \A p \in Procs : Uploading(run[p]) => run[p].file \notin Chosen(s)
  BY <1>2, <1>3 DEF RequestOK, UploadIsNew, New
<1> QED
  BY <1>2, <1>3, <1>4, <1>6, <1>7, <1>8, <1>9, OtherSteps

LEMMA CallStep == ASSUME MediaInv, NEW q \in Procs, Calls(q) PROVE MediaInv'
<1>0. None \in Files \cup {None} /\ None \in PostIds \cup {None}
  OBVIOUS
<1>1. CASE \E f \in Files : Upload(q, f) \/ CallDelete(q, f)
  BY <1>1, UploadStep, CallDeleteStep
<1>2. ASSUME NEW p \in PostIds, NEW fs \in SUBSET (known \cap Attachments),
             CallCreate(q, p, fs) \/ CallUpdate(q, p, fs)
      PROVE  MediaInv'
  <2>1. PICK list \in {PostsCreate, PostsUpdate} : Begin(q, Request(list, None, fs, p)) /\ UNCHANGED removed
    BY <1>2 DEF CallCreate, CallUpdate
  <2> PICK s : s = Request(list, None, fs, p)
    OBVIOUS
  <2>2. s \in Requests /\ s.todo = list /\ s.files \subseteq Attachments /\ s.post \in PostIds
    BY DEF Request, Requests, Todos, Files
  <2>3. s.todo # PersonasUpdate
    BY <2>2, Heads
  <2> QED
    BY <2>1, <2>2, <2>3, BeginStep
<1>3. ASSUME NEW p \in PostIds, CallDeletePost(q, p) PROVE MediaInv'
  <2> PICK s : s = Request(PostsDelete, None, {}, p)
    OBVIOUS
  <2>1. s \in Requests /\ s.todo = PostsDelete /\ s.files = {} /\ s.post = p
    BY DEF Request, Requests, Todos
  <2>2. s.todo # PersonasUpdate
    BY <2>1, Heads
  <2> QED
    BY <1>3, <2>1, <2>2, BeginStep DEF CallDeletePost
<1>4. ASSUME NEW f \in known \cap Images, CallPersonasUpdate(q, f) PROVE MediaInv'
  <2> PICK s : s = Request(PersonasUpdate, f, {}, None)
    OBVIOUS
  <2>1. s \in Requests /\ s.todo = PersonasUpdate /\ s.file = f /\ s.files = {}
    BY DEF Request, Requests, Todos, Files
  <2>2. s.todo \notin {PostsCreate, PostsUpdate, PostsDelete}
    BY <2>1, Heads
  <2> QED
    BY <1>4, <2>1, <2>2, BeginStep DEF CallPersonasUpdate
<1>5. CASE WorkerTick(q)
  <2> PICK s : s = Request(CleanOrphanAttachments, None, {}, None)
    OBVIOUS
  <2>1. s \in Requests /\ s.todo = CleanOrphanAttachments /\ s.files = {}
    BY DEF Request, Requests, Todos
  <2>2. s.todo \notin {PostsCreate, PostsUpdate, PostsDelete, PersonasUpdate}
    BY <2>1, Heads
  <2> QED
    BY <1>5, <2>1, <2>2, BeginStep DEF WorkerTick
<1> QED
  BY <1>1, <1>2, <1>3, <1>4, <1>5 DEF Calls

LEMMA HourStep == ASSUME MediaInv, NEW f \in Files, HourPasses(f) PROVE MediaInv'
<1> USE DEF MediaInv
<1>1. UNCHANGED <<file, posts, avatar, fresh, known, run, faults, late, removed, leaked>>
  BY DEF HourPasses, history
<1>2. row' \in [Files -> {"none"} \cup Loose \cup PostIds] /\ row[f] = "young" /\ row'[f] = "old"
      /\ \A g \in Files \ {f} : row'[g] = row[g]
  BY DEF HourPasses, DataOK, Loose
<1>3. \A g \in Files : /\ row'[g] = "young" => row[g] = "young"
                       /\ row'[g] \in PostIds => row[g] \in PostIds /\ row'[g] = row[g]
                       /\ row'[g] = "none" <=> row[g] = "none"
  BY <1>2, PostsAreIds
<1>4. ASSUME NEW p \in Procs PROVE RequestOK(run[p])'
  <2>1. RequestOK(run[p]) /\ Chosen(run[p]) \subseteq Files
    BY DEF RequestOK, Prepared, Chosen, Requests
  <2> QED
    BY <1>1, <1>3, <2>1
       DEF RequestOK, Prepared, UploadIsNew, New, ChosenIsOrphan, FileGoesFirst, Chosen
<1>5. UploadsAreApart'
  BY <1>1 DEF UploadsAreApart, Chosen
<1>6. DataOK'
  BY <1>1, <1>2 DEF DataOK
<1>7. FreshIsNew' /\ YoungIsThere' /\ AttachedIsServed'
  BY <1>1, <1>2, <1>3 DEF FreshIsNew, New, YoungIsThere, AttachedIsServed, DataOK
<1>8. Accounted'
  BY <1>1, <1>3 DEF Accounted, DataOK
<1> QED
  BY <1>1, <1>4, <1>5, <1>6, <1>7, <1>8

LEMMA KillStep == ASSUME MediaInv, NEW q \in Procs, Kill(q) PROVE MediaInv'
<1>1. run[q].todo \in Todos /\ Prepared(run[q]) /\ leaked \subseteq Files
  BY DEF MediaInv, RequestOK, Requests, DataOK
<1>2. At(q, "CreateAttachment") <=> run[q].todo = Uploaded
  BY <1>1, Positions
<1>3. run[q].todo = Uploaded => run[q].file \in Files
  BY <1>1, Kinds DEF Prepared
<1> QED
  BY <1>1, <1>2, <1>3, Failing DEF Kill

LEMMA StutterStep == ASSUME MediaInv, UNCHANGED vars PROVE MediaInv'
<1> USE DEF MediaInv
<1>1. UNCHANGED <<run, file, row, posts, avatar, fresh, known, faults, late, removed, leaked>>
  BY DEF vars, data, history
<1>2. ASSUME NEW p \in Procs PROVE RequestOK(run[p])'
  <2>1. RequestOK(run[p])
    OBVIOUS
  <2> QED
    BY <1>1, <2>1
       DEF RequestOK, Prepared, UploadIsNew, New, ChosenIsOrphan, FileGoesFirst
<1> QED
  BY <1>1, <1>2
     DEF UploadsAreApart, DataOK, FreshIsNew, New, YoungIsThere, AttachedIsServed, Accounted

LEMMA MediaInvInit == Init => MediaInv
<1> SUFFICES ASSUME Init PROVE MediaInv
  OBVIOUS
<1>1. \A q \in Procs : run[q] = Idle
  BY DEF Init
<1>2. run \in [Procs -> Requests] /\ (\A q \in Procs : RequestOK(run[q])) /\ UploadsAreApart
  BY <1>1, IdleOK DEF Init, UploadsAreApart
<1>3. DataOK
  BY FaultsAreCounted DEF Init, DataOK
<1>4. FreshIsNew /\ YoungIsThere /\ AttachedIsServed /\ Accounted
  BY PostsAreIds DEF Init, FreshIsNew, New, YoungIsThere, AttachedIsServed, Accounted
<1> QED
  BY <1>2, <1>3, <1>4 DEF MediaInv

LEMMA MediaInvStep == MediaInv /\ [Next]_vars => MediaInv'
BY StatementStep, CallStep, KillStep, HourStep, StutterStep DEF Next

LEMMA MediaInvInvariant == Spec => []MediaInv
BY MediaInvInit, MediaInvStep, PTL DEF Spec

-----------------------------------------------------------------------------
(* What the runs check.                                                    *)

\* Every variable keeps its type, and a request that stores or deletes has its upload.
THEOREM MediaTypes == Spec => []TypeOK
<1>1. ASSUME MediaInv PROVE TypeOK
  <2>1. ASSUME NEW q \in Procs
        PROVE  /\ At(q, "Save") \/ At(q, "DeleteFile") \/ At(q, "DeleteAttachment") => run[q].file \in Files
               /\ run[q].files \subseteq Files
    BY <1>1, Positions, Kinds DEF MediaInv, RequestOK, Prepared, Requests
  <2> QED
    BY <1>1, <2>1 DEF MediaInv, DataOK, TypeOK, At
<1> QED
  BY <1>1, MediaInvInvariant, PTL

\* An attachment of a post has its row, its post and its file, whatever uploads,
\* deletions, clean-ups and kills overlap, unless it was an orphan already when it was
\* attached or media.delete was called for it.
THEOREM AttachmentsAreServed == Spec => []AttachedIsServed
<1>1. MediaInv => AttachedIsServed
  BY DEF MediaInv
<1> QED
  BY <1>1, MediaInvInvariant, PTL

\* A file of the media store that no row is about is one whose row was lost to a fault
\* or with its post, or one an upload is about to write the row of (handleMediaUpload,
\* cleanOrphanAttachments).
THEOREM FilesAreKnown == Spec => []FilesAreAccounted
<1>1. MediaInv => FilesAreAccounted
  BY Positions DEF MediaInv, Requests, Accounted, FilesAreAccounted
<1> QED
  BY <1>1, MediaInvInvariant, PTL

=============================================================================
