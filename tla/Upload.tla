------------------------------- MODULE Upload -------------------------------
(***************************************************************************)
(* UploadsService, FilesService and CloudinaryService: files that live in  *)
(* two places, a blob in the media store and a File row in the database,   *)
(* with no transaction over both.  Each `await` is a step of the request   *)
(* that runs it.  An upload gets a new blob, and a blob has at most one    *)
(* File row ever, so both go by one number.  Buffers, folders, urls and    *)
(* the display order are left out.                                         *)
(***************************************************************************)
EXTENDS Integers

CONSTANTS
  Users,     \* accounts
  Profiled,  \* those that have a profile
  Targets,   \* listings and reviews
  ownerOf,   \* the owner of a listing, the author of a review
  Avatar,    \* the target that is the user's own profile
  Requests,  \* handler invocations that may be in flight together
  MaxFiles,  \* files a bulk upload may carry
  MaxBlobs,  \* bound: blobs ever stored
  Faults,    \* what may go wrong, of "store", "database", "crash", "account"
  Null       \* a missing value

Blobs == 1 .. MaxBlobs

\* A blob's resource type in the store, which looks at the content, against
\* the one that resolveResourceType makes of the type the client announced.
Kinds == {"announced", "other"}

VARIABLES
  users,    \* User rows
  targets,  \* Listing and Review rows
  store,    \* the media store: the kind of each blob, or Null
  files,    \* File by its blob: its user, or Null
  links,    \* ListingFile and ReviewFile rows
  avatar,   \* Profile.avatarFileId, of the users that have a profile
  nextBlob, \* the next blob
  requests, \* the state of each request in flight, or Null
  hit       \* history: blobs that a fault befell

rows == <<users, targets, files, links, avatar>>
vars == <<rows, store, nextBlob, requests, hit>>

\* What an upload waits for: the media store, the insert of the row, the
\* lookup of the target, the attachment, the clean-up of the file that could
\* not be attached, the clean-up of the others of the same bulk.
Steps == {"send", "row", "look", "link", "clean", "undo"}

\* Deletion of a file: its lookup, the row's deletion, the blob's.
EraseSteps == {"find", "row", "blob"}

Nothing == [b \in Blobs |-> Null]

Request ==
  [op : {"upload"}, step : Steps, user : Users,
   target : Targets \cup {Avatar, Null},
   left : 1 .. MaxFiles,              \* files to upload, this one included
   blob : Blobs \cup {Null},          \* the one under way
   done : SUBSET Blobs,               \* uploadedIds
   erasing : [Blobs -> EraseSteps \cup {Null}]]
  \cup
  [op : {"delete"}, user : Users, erasing : [Blobs -> EraseSteps \cup {Null}]]

ASSUME UploadAssumption ==
  /\ Profiled \subseteq Users
  /\ ownerOf \in [Targets -> Users]
  /\ Avatar \notin Targets
  /\ MaxFiles \in Nat \ {0} /\ MaxBlobs \in Nat
  /\ Faults \subseteq {"store", "database", "crash", "account"}
  /\ Null \notin Users \cup Targets \cup {Avatar} \cup Kinds \cup EraseSteps
  /\ Null \notin Int
  /\ Null \notin Request

Init ==
  /\ users = Users
  /\ targets = Targets
  /\ store = Nothing
  /\ files = Nothing
  /\ links = {}
  /\ avatar = [u \in Profiled |-> Null]
  /\ nextBlob = 1
  /\ requests = [r \in Requests |-> Null]
  /\ hit = {}

-----------------------------------------------------------------------------

Uploading(r, step) ==
  /\ requests[r] # Null
  /\ requests[r].op = "upload"
  /\ requests[r].step = step

Become(r, q) == requests' = [requests EXCEPT ![r] = q]

Idle(q) == q.erasing = Nothing

\* deleteForUser is about to run for each of the files in B.
Erasing(B) == [b \in Blobs |-> IF b \in B THEN "find" ELSE Null]

\* The tables without the files in B: attachments cascade, avatars are nulled.
WithoutFiles(B) ==
  /\ files' = [b \in Blobs |-> IF b \in B THEN Null ELSE files[b]]
  /\ links' = {l \in links : l.file \notin B}
  /\ avatar' = [u \in Profiled |-> IF avatar[u] \in B THEN Null ELSE avatar[u]]

-----------------------------------------------------------------------------
(* upload and uploadBulk; an upload of one file is a bulk of one, since it *)
(* has nothing else to undo when it fails.                                 *)

BeginUpload(r) ==
  \E u \in users, t \in Targets \cup {Avatar, Null}, n \in 1 .. MaxFiles :
    /\ requests[r] = Null
    /\ Become(r, [op |-> "upload", step |-> "send", user |-> u, target |-> t,
                  left |-> n, blob |-> Null, done |-> {}, erasing |-> Nothing])
    /\ UNCHANGED <<rows, store, nextBlob, hit>>

\* uploadedIds once this file is through.
Uploaded(q) == q.done \cup {q.blob}

\* MUTANT: the loop runs past the last file.
PastTheLast(q) ==
  IF q.left = 0 THEN Null
  ELSE [q EXCEPT !.step = "send", !.left = @ - 1, !.blob = Null,
                 !.done = Uploaded(q)]

\* The file is through: the next one, or the answer.
Through(q) ==
  IF q.left = 1 THEN Null
  ELSE [q EXCEPT !.step = "send", !.left = @ - 1, !.blob = Null,
                 !.done = Uploaded(q)]

\* MUTANT: the files before this one are kept.
KeepsTheOthers(q) == Null

\* upload has thrown: uploadBulk deletes the files before this one.
Undo(q) ==
  IF q.done = {} THEN Null
  ELSE [q EXCEPT !.step = "undo", !.erasing = Erasing(q.done)]

\* attachToTarget has thrown: upload deletes the file.
Clean(q) == [q EXCEPT !.step = "clean", !.erasing = Erasing({q.blob})]

\* validateFileSize, on each file in its turn.
RefuseSize(r) ==
  /\ Uploading(r, "send")
  /\ Become(r, Undo(requests[r]))
  /\ UNCHANGED <<rows, store, nextBlob, hit>>

Send(r) ==
  /\ Uploading(r, "send")
  /\ nextBlob \in Blobs
  /\ \E kind \in Kinds : store' = [store EXCEPT ![nextBlob] = kind]
  /\ Become(r, [requests[r] EXCEPT !.step = "row", !.blob = nextBlob])
  /\ nextBlob' = nextBlob + 1
  /\ UNCHANGED <<rows, hit>>

\* The media store fails, or stores the blob and its answer is lost.
SendFails(r) ==
  /\ "store" \in Faults
  /\ Uploading(r, "send")
  /\ \/ UNCHANGED <<store, nextBlob, hit>>
     \/ /\ nextBlob \in Blobs
        /\ \E kind \in Kinds : store' = [store EXCEPT ![nextBlob] = kind]
        /\ nextBlob' = nextBlob + 1
        /\ hit' = hit \cup {nextBlob}
  /\ Become(r, Undo(requests[r]))
  /\ UNCHANGED rows

\* attachToTarget does nothing without a target, and looks up a listing or a
\* review before it writes.
AfterRow(q) ==
  IF q.target = Null THEN Through(q)
  ELSE [q EXCEPT !.step = IF q.target = Avatar THEN "link" ELSE "look"]

InsertRow(r) ==
  LET q == requests[r]
  IN  /\ Uploading(r, "row")
      /\ q.user \in users
      /\ files' = [files EXCEPT ![q.blob] = q.user]
      /\ Become(r, AfterRow(q))
      /\ UNCHANGED <<users, targets, links, avatar, store, nextBlob, hit>>

\* The insert is outside of upload's try: nothing deletes the blob.
InsertRowFails(r) ==
  LET q == requests[r]
  IN  /\ Uploading(r, "row")
      /\ q.user \notin users \/ "database" \in Faults
      /\ hit' = hit \cup {q.blob}
      /\ Become(r, Undo(q))
      /\ UNCHANGED <<rows, store, nextBlob>>

\* MUTANT: the target is looked up by its id alone.
FindsAnyTarget(q) == q.target \in targets

\* findFirstOrThrow({ where: { id, ownerId } }), or authorId.
FindsTarget(q) == q.target \in targets /\ ownerOf[q.target] = q.user

Look(r) ==
  LET q == requests[r]
  IN  /\ Uploading(r, "look")
      /\ FindsTarget(q)
      /\ Become(r, [q EXCEPT !.step = "link"])
      /\ UNCHANGED <<rows, store, nextBlob, hit>>

\* The profile exists; the foreign keys hold.
Linkable(q) ==
  /\ files[q.blob] # Null
  /\ IF q.target = Avatar THEN q.user \in users \cap Profiled
                          ELSE q.target \in targets

Link(r) ==
  LET q == requests[r]
  IN  /\ Uploading(r, "link")
      /\ Linkable(q)
      /\ IF q.target = Avatar
         THEN /\ avatar' = [avatar EXCEPT ![q.user] = q.blob]
              /\ UNCHANGED links
         ELSE /\ links' = links \cup {[file |-> q.blob, target |-> q.target]}
              /\ UNCHANGED avatar
      /\ Become(r, Through(q))
      /\ UNCHANGED <<users, targets, files, store, nextBlob, hit>>

AttachFails(r) ==
  LET q == requests[r]
  IN  /\ \/ Uploading(r, "look") /\ ~FindsTarget(q)
         \/ Uploading(r, "link") /\ ~Linkable(q)
         \/ "database" \in Faults /\ (Uploading(r, "look") \/ Uploading(r, "link"))
      /\ Become(r, Clean(q))
      /\ UNCHANGED <<rows, store, nextBlob, hit>>

-----------------------------------------------------------------------------
(* deleteForUser, run by delete, by deleteBulk for one file after the      *)
(* other, by upload's clean-up, and by uploadBulk's for all at once.       *)

BeginDelete(r) ==
  \E u \in users, B \in (SUBSET Blobs) \ {{}} :
    /\ requests[r] = Null
    /\ B \subseteq 1 .. nextBlob - 1
    /\ Become(r, [op |-> "delete", user |-> u, erasing |-> Erasing(B)])
    /\ UNCHANGED <<rows, store, nextBlob, hit>>

\* The deletion of b is at this step, and it is its turn.
Erases(r, b, step) ==
  LET q == requests[r]
  IN  /\ q # Null
      /\ q.erasing[b] = step
      /\ q.op = "delete" =>
           \A c \in Blobs \ {b} : q.erasing[c] \in {"find", Null}

\* MUTANT: a deletion that fails is never settled.
SettledOnlyIfOk(q, b, ok) ==
  LET p == [q EXCEPT !.erasing[b] = Null]
  IN  IF ~ok THEN q ELSE IF Idle(p) THEN Null ELSE p

\* The deletion of b has ended.  deleteBulk stops at the first that fails;
\* after the clean-up of its file an upload throws; allSettled waits for all.
Settled(q, b, ok) ==
  LET p == [q EXCEPT !.erasing[b] = Null]
  IN  IF q.op = "delete" THEN IF ok /\ ~Idle(p) THEN p ELSE Null
      ELSE IF q.step = "clean" THEN Undo(p)
      ELSE IF Idle(p) THEN Null ELSE p

\* MUTANT: the blob goes first.
BlobFirst == [find |-> "blob", blob |-> "row", row |-> Null]

\* MUTANT: the row alone is deleted.
RowOnly == [find |-> "row", row |-> Null, blob |-> Null]

\* The awaits of deleteForUser, in their order.
Following == [find |-> "row", row |-> "blob", blob |-> Null]

\* The step of b's deletion has succeeded.
Advance(r, b) ==
  LET q == requests[r]
      next == Following[q.erasing[b]]
  IN  Become(r, IF next = Null THEN Settled(q, b, TRUE)
                ELSE [q EXCEPT !.erasing[b] = next])

\* findOneForUser: by id and user.
FindFile(r, b) ==
  /\ Erases(r, b, "find")
  /\ files[b] = requests[r].user
  /\ Advance(r, b)
  /\ UNCHANGED <<rows, store, nextBlob, hit>>

DeleteRow(r, b) ==
  /\ Erases(r, b, "row")
  /\ files[b] # Null
  /\ WithoutFiles({b})
  /\ Advance(r, b)
  /\ UNCHANGED <<users, targets, store, nextBlob, hit>>

\* The row is not there, or not there any more.
NoRow(r, b) ==
  /\ \/ Erases(r, b, "find") /\ files[b] # requests[r].user
     \/ Erases(r, b, "row") /\ files[b] = Null
  /\ Become(r, Settled(requests[r], b, FALSE))
  /\ UNCHANGED <<rows, store, nextBlob, hit>>

RowFails(r, b) ==
  /\ "database" \in Faults
  /\ Erases(r, b, "find") \/ Erases(r, b, "row")
  /\ hit' = hit \cup {b}
  /\ Become(r, Settled(requests[r], b, FALSE))
  /\ UNCHANGED <<rows, store, nextBlob>>

\* CloudinaryService.delete: "ok", or "not found", which it takes for "ok".
\* A blob of another kind than the one asked for is not found, and stays.
DeleteBlob(r, b) ==
  /\ Erases(r, b, "blob")
  /\ IF store[b] = "other"
     THEN hit' = hit \cup {b} /\ UNCHANGED store
     ELSE store' = [store EXCEPT ![b] = Null] /\ UNCHANGED hit
  /\ Advance(r, b)
  /\ UNCHANGED <<rows, nextBlob>>

\* The media store fails, or does it and its answer is lost.
BlobFails(r, b) ==
  /\ "store" \in Faults
  /\ Erases(r, b, "blob")
  /\ store' \in {store, [store EXCEPT ![b] = Null]}
  /\ hit' = hit \cup {b}
  /\ Become(r, Settled(requests[r], b, FALSE))
  /\ UNCHANGED <<rows, nextBlob>>

-----------------------------------------------------------------------------
(* What happens around the requests.                                       *)

\* What a request has in hand: its blobs, and the files it is deleting.
InHand(q) ==
  {b \in Blobs : \/ q.erasing[b] # Null
                 \/ q.op = "upload" /\ b \in q.done \cup {q.blob}}

Crash ==
  /\ "crash" \in Faults
  /\ \E r \in Requests : requests[r] # Null
  /\ hit' = hit \cup UNION {InHand(requests[r]) :
                              r \in {s \in Requests : requests[s] # Null}}
  /\ requests' = [r \in Requests |-> Null]
  /\ UNCHANGED <<rows, store, nextBlob>>

\* A listing or a review is deleted by its owner; its attachments cascade.
RemoveTarget(t) ==
  /\ t \in targets
  /\ targets' = targets \ {t}
  /\ links' = {l \in links : l.target # t}
  /\ UNCHANGED <<users, files, avatar, store, nextBlob, requests, hit>>

\* UsersService.remove: the user's files, profile, listings and reviews
\* cascade, and nobody tells the media store.
RemoveUser(u) ==
  LET gone == {b \in Blobs : files[b] = u}
  IN  /\ "account" \in Faults
      /\ u \in users
      /\ users' = users \ {u}
      /\ targets' = {t \in targets : ownerOf[t] # u}
      /\ files' = [b \in Blobs |-> IF b \in gone THEN Null ELSE files[b]]
      /\ links' = {l \in links : l.file \notin gone /\ ownerOf[l.target] # u}
      /\ avatar' = [v \in Profiled |->
                     IF v = u \/ avatar[v] \in gone THEN Null ELSE avatar[v]]
      /\ hit' = hit \cup gone
      /\ UNCHANGED <<store, nextBlob, requests>>

\* The steps a request in flight takes, each when its await settles.
RequestStep(r) ==
  \/ RefuseSize(r) \/ Send(r) \/ SendFails(r)
  \/ InsertRow(r) \/ InsertRowFails(r)
  \/ Look(r) \/ Link(r) \/ AttachFails(r)
  \/ \E b \in Blobs :
       \/ FindFile(r, b) \/ DeleteRow(r, b) \/ NoRow(r, b) \/ RowFails(r, b)
       \/ DeleteBlob(r, b) \/ BlobFails(r, b)

Next ==
  \/ \E r \in Requests : BeginUpload(r) \/ BeginDelete(r) \/ RequestStep(r)
  \/ \E t \in Targets : RemoveTarget(t)
  \/ \E u \in Users : RemoveUser(u)
  \/ Crash

Spec == Init /\ [][Next]_vars

\* Every await settles: the clients of the database and of the media store
\* answer or time out.
FairSpec == Spec /\ \A r \in Requests : WF_vars(RequestStep(r))

-----------------------------------------------------------------------------
(* What the component promises.                                            *)

TypeOK ==
  /\ users \subseteq Users /\ targets \subseteq Targets
  /\ store \in [Blobs -> Kinds \cup {Null}]
  /\ files \in [Blobs -> Users \cup {Null}]
  /\ links \subseteq [file : Blobs, target : Targets]
  /\ avatar \in [Profiled -> Blobs \cup {Null}]
  /\ nextBlob \in 1 .. MaxBlobs + 1
  /\ requests \in [Requests -> Request \cup {Null}]
  /\ hit \subseteq Blobs

\* A File row never names a blob that is gone: it is inserted after the blob
\* is stored and deleted before it, by whatever requests at once.
RowsHaveBlobs == \A b \in Blobs : files[b] # Null => store[b] # Null

\* The media store keeps nothing that nobody can delete any more: a blob has
\* a row, or a request has it in hand, unless a fault befell it.
NoOrphans ==
  \A b \in Blobs : store[b] # Null =>
    \/ files[b] # Null
    \/ b \in hit
    \/ \E r \in Requests : requests[r] # Null /\ b \in InHand(requests[r])

\* A file is attached to what its own user owns, as it is when the
\* attachment is there, although the lookup is a statement of its own.
AttachedToOwn ==
  /\ \A l \in links : /\ files[l.file] = ownerOf[l.target]
                      /\ l.file \in Blobs /\ l.target \in targets
  /\ \A u \in Profiled : avatar[u] # Null => files[avatar[u]] = u

Fails(r) ==
  /\ requests[r] # Null /\ requests'[r] = Null
  /\ requests[r].op = "upload"
  /\ requests[r].step \in {"send", "clean", "undo"}

\* uploadBulk is all or nothing: when an upload has failed, none of its files
\* is left in the tables or in the media store, unless a fault befell the file
\* or another request is just deleting it.
AllOrNothing ==
  [][\A r \in Requests : Fails(r) =>
       \A b \in (requests[r].done \cup {requests[r].blob}) \ {Null} :
         \/ b \in hit'
         \/ /\ files'[b] = Null
            /\ \/ store'[b] = Null
               \/ \E s \in Requests \ {r} :
                    requests'[s] # Null /\ requests'[s].erasing[b] = "blob"]_vars

\* README: failed attachment triggers cleanup (uploaded file gets deleted).
\* After the clean-up the blob is not in the media store, or another request
\* is deleting it.
FailedAttachmentIsCleaned ==
  [][\A r \in Requests : Uploading(r, "clean") /\ ~Uploading(r, "clean")' =>
       \/ store'[requests[r].blob] = Null
       \/ \E s \in Requests \ {r} : /\ requests[s] # Null
                                    /\ requests[s].erasing[requests[r].blob] # Null]_vars

\* Every request gets its answer.
RequestsEnd == \A r \in Requests : requests[r] # Null ~> requests[r] = Null

=============================================================================
