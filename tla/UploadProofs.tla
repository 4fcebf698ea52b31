---------------------------- MODULE UploadProofs ----------------------------
(***************************************************************************)
(* Theorems about Upload, for all accounts, targets, requests and faults,  *)
(* and any number of blobs and of files in a bulk: type correctness, no    *)
(* row without its blob, no blob that nobody can delete any more, no file  *)
(* on what its user does not own, and bulk uploads that leave nothing      *)
(* behind when they fail.                                                  *)
(***************************************************************************)
EXTENDS Upload, TLAPS

-----------------------------------------------------------------------------
(* What a step makes of the request that takes it.                         *)

\* The blobs an upload has stored: they are its own.
Carried(q) == IF q.op = "upload" THEN (q.done \cup {q.blob}) \ {Null} ELSE {}

\* What the handler knows at each of its steps.
Sound(q) ==
  q.op = "upload" =>
    /\ q.step = "send" => q.blob = Null
    /\ q.step \in {"row", "look", "link", "clean"} => q.blob # Null
    /\ q.blob \notin q.done
    /\ q.step \notin {"clean", "undo"} => q.erasing = Nothing
    /\ q.step = "clean" => \A c \in Blobs : q.erasing[c] # Null => c = q.blob
    /\ q.step = "look" => q.target \in Targets
    /\ q.step = "link" => \/ q.target = Avatar
                          \/ q.target \in Targets /\ ownerOf[q.target] = q.user

\* Whatever q becomes, it stays what it is and gets no blob.
Follows(q, s) ==
  s # Null =>
    /\ s \in Request /\ Sound(s)
    /\ s.op = q.op /\ s.user = q.user
    /\ Carried(s) \subseteq Carried(q)
    /\ s.op = "upload" => s.step # "row"

\* Whatever q becomes, no deletion but that of b goes on or is forgotten.
LeavesOthers(q, s, b) ==
  \A c \in Blobs \ {b} :
    /\ s # Null => \/ s.erasing[c] \in {q.erasing[c], Null}
                   \/ s.erasing[c] = "find" /\ c \in Carried(q)
    /\ q.erasing[c] = "blob" => s # Null /\ s.erasing[c] = "blob"

\* The clean-up of the upload is over for c.
Over(q, c) ==
  /\ q.op = "upload" /\ q.step = "undo"
  /\ c \in Carried(q) /\ q.erasing[c] = Null

Failing(q) == q.op = "upload" /\ q.step \in {"send", "clean", "undo"}

\* If the upload fails, or cleans up, it has not forgotten a file but b.
ForgetsNone(q, s, b) ==
  \A c \in Blobs \ {b} :
    \/ s = Null /\ Failing(q) /\ c \in Carried(q)
    \/ s # Null /\ Over(s, c)
    => Over(q, c)

\* All of the above.
Tidy(q, s, b) == Follows(q, s) /\ LeavesOthers(q, s, b) /\ ForgetsNone(q, s, b)

LEMMA NullIsNone ==
  /\ Null \notin Blobs /\ Null \notin Request
  /\ Null \notin EraseSteps /\ Null \notin Kinds
  /\ Blobs \subseteq Nat
BY UploadAssumption DEF Blobs

LEMMA ErasingType ==
  ASSUME NEW B
  PROVE  Erasing(B) \in [Blobs -> EraseSteps \cup {Null}]
BY DEF Erasing, EraseSteps

\* Undo of an upload whose file, if it has one, is not to be deleted.
LEMMA UndoTidy ==
  ASSUME NEW q \in Request, q.op = "upload", q.blob \notin q.done,
         q.step # "undo", NEW b, q.blob \in {b, Null},
         \A c \in Blobs \ {b} : q.erasing[c] = Null
  PROVE  Tidy(q, Undo(q), b) /\ (Undo(q) # Null /\ b \in Blobs => Undo(q).erasing[b] \in {"find", Null})
<1> USE NullIsNone
<1>1. CASE q.done = {}
  BY <1>1 DEF Undo, Tidy, Follows, LeavesOthers, ForgetsNone, Carried, Failing, Over, EraseSteps
<1>2. CASE q.done # {}
  <2> DEFINE s == [q EXCEPT !.step = "undo", !.erasing = Erasing(q.done)]
  <2>1. Undo(q) = s
    BY <1>2 DEF Undo
  <2>2. /\ s \in Request /\ s.op = "upload" /\ s.user = q.user /\ s.step = "undo"
        /\ s.done = q.done /\ s.blob = q.blob /\ s.erasing = Erasing(q.done)
    BY ErasingType DEF Request, Steps
  <2> HIDE DEF s
  <2>3. Follows(q, s)
    BY <2>2 DEF Follows, Sound, Carried
  <2>4. LeavesOthers(q, s, b) /\ (b \in Blobs => s.erasing[b] \in {"find", Null})
    BY <2>2, NullIsNone DEF LeavesOthers, Erasing, EraseSteps, Carried
  <2>5. ForgetsNone(q, s, b)
    BY <2>2 DEF ForgetsNone, Over, Carried, Erasing, EraseSteps
  <2> QED
    BY <2>1, <2>3, <2>4, <2>5 DEF Tidy
<1> QED
  BY <1>1, <1>2

\* The file is through.
LEMMA ThroughTidy ==
  ASSUME NEW q \in Request, Sound(q), q.op = "upload",
         q.step \in {"row", "link"}, NEW b
  PROVE  Tidy(q, Through(q), b)
<1> USE NullIsNone DEF EraseSteps
<1>1. CASE q.left = 1
  BY <1>1 DEF Through, Tidy, Follows, LeavesOthers, ForgetsNone, Carried, Failing, Sound, Nothing
<1>2. CASE q.left # 1
  <2> DEFINE s == [q EXCEPT !.step = "send", !.left = @ - 1, !.blob = Null,
                            !.done = Uploaded(q)]
  <2>1. Through(q) = s
    BY <1>2 DEF Through
  <2>2. q.left - 1 \in 1 .. MaxFiles /\ Uploaded(q) \subseteq Blobs
    BY <1>2, UploadAssumption DEF Request, Uploaded, Sound
  <2>3. /\ s \in Request /\ s.op = "upload" /\ s.user = q.user /\ s.step = "send"
        /\ s.done = Uploaded(q) /\ s.blob = Null /\ s.erasing = q.erasing
    BY <2>2 DEF Request, Steps
  <2> HIDE DEF s
  <2>4. Follows(q, s)
    BY <2>2, <2>3 DEF Follows, Sound, Carried, Uploaded
  <2>5. LeavesOthers(q, s, b) /\ ForgetsNone(q, s, b)
    BY <2>3 DEF LeavesOthers, ForgetsNone, Over, Sound, Nothing
  <2> QED
    BY <2>1, <2>4, <2>5 DEF Tidy
<1> QED
  BY <1>1, <1>2

\* An upload that goes on to look up or to write its attachment.
LEMMA GoOnTidy ==
  ASSUME NEW q \in Request, Sound(q), q.op = "upload",
         q.step \in {"row", "look"}, NEW b, NEW step \in {"look", "link"},
         step = "look" => q.target \in Targets,
         step = "link" => \/ q.target = Avatar
                          \/ q.target \in Targets /\ ownerOf[q.target] = q.user
  PROVE  Tidy(q, [q EXCEPT !.step = step], b)
<1> DEFINE s == [q EXCEPT !.step = step]
<1>1. /\ s \in Request /\ s.op = "upload" /\ s.user = q.user /\ s.step = step
      /\ s.done = q.done /\ s.blob = q.blob /\ s.erasing = q.erasing
      /\ s.target = q.target
  BY DEF Request, Steps
<1> HIDE DEF s
<1>2. Follows(q, s)
  BY <1>1 DEF Follows, Sound, Carried
<1>3. s # Null
  BY <1>1, NullIsNone
<1>4. LeavesOthers(q, s, b) /\ ForgetsNone(q, s, b)
  BY <1>1, <1>3, NullIsNone DEF LeavesOthers, ForgetsNone, Over, Sound, Nothing, EraseSteps
<1> QED
  BY <1>2, <1>4 DEF Tidy, s

\* The file could not be attached.
LEMMA CleanTidy ==
  ASSUME NEW q \in Request, Sound(q), q.op = "upload",
         q.step \in {"look", "link"}, NEW b
  PROVE  Tidy(q, Clean(q), b)
<1> DEFINE s == [q EXCEPT !.step = "clean", !.erasing = Erasing({q.blob})]
<1>1. /\ s \in Request /\ s.op = "upload" /\ s.user = q.user /\ s.step = "clean"
      /\ s.done = q.done /\ s.blob = q.blob /\ s.erasing = Erasing({q.blob})
  BY ErasingType DEF Request, Steps
<1>2. Clean(q) = s
  BY DEF Clean
<1> HIDE DEF s
<1>3. Follows(q, s)
  BY <1>1 DEF Follows, Sound, Carried, Erasing
<1>4. LeavesOthers(q, s, b) /\ ForgetsNone(q, s, b)
  BY <1>1, NullIsNone
     DEF LeavesOthers, ForgetsNone, Over, Sound, Nothing, EraseSteps, Erasing,
         Carried
<1> QED
  BY <1>2, <1>3, <1>4 DEF Tidy

\* The guard of a deletion's step, without its request.
Turn(q, b) ==
  /\ q.erasing[b] # Null
  /\ q.op = "delete" => \A c \in Blobs \ {b} : q.erasing[c] \in {"find", Null}

\* The deletion of b has ended, or has gone on to its next step.
LEMMA ErasingTidy ==
  ASSUME NEW q \in Request, Sound(q), NEW b \in Blobs, Turn(q, b),
         NEW step \in EraseSteps \cup {Null}
  PROVE  /\ [q EXCEPT !.erasing[b] = step] \in Request
         /\ Tidy(q, [q EXCEPT !.erasing[b] = step], b)
         /\ [q EXCEPT !.erasing[b] = step].erasing = [q.erasing EXCEPT ![b] = step]
<1> DEFINE s == [q EXCEPT !.erasing[b] = step]
<1>0. [q.erasing EXCEPT ![b] = step] \in [Blobs -> EraseSteps \cup {Null}]
  BY DEF Request
<1>1. CASE q.op = "upload"
  <2>1. /\ s \in Request /\ s.op = "upload" /\ s.user = q.user /\ s.step = q.step
        /\ s.done = q.done /\ s.blob = q.blob
        /\ s.erasing = [q.erasing EXCEPT ![b] = step]
        /\ s.target = q.target
    BY <1>0, <1>1 DEF Request
  <2> HIDE DEF s
  <2>a. q.erasing # Nothing /\ q.step \in {"clean", "undo"}
    BY <1>1 DEF Turn, Nothing, Sound
  <2>b. \A c \in Blobs \ {b} : s.erasing[c] = q.erasing[c]
    BY <2>1 DEF Request
  <2>2. Follows(q, s)
    BY <1>1, <2>1, <2>a, <2>b DEF Follows, Sound, Carried, Turn
  <2>3. LeavesOthers(q, s, b) /\ ForgetsNone(q, s, b)
    BY <1>1, <2>1, <2>b, NullIsNone DEF LeavesOthers, ForgetsNone, Over, Carried
  <2> QED
    BY <2>1, <2>2, <2>3 DEF Tidy, s
<1>2. CASE q.op = "delete"
  <2>1. /\ s \in Request /\ s.op = "delete" /\ s.user = q.user
        /\ s.erasing = [q.erasing EXCEPT ![b] = step]
    BY <1>0, <1>2 DEF Request
  <2> HIDE DEF s
  <2>b. \A c \in Blobs \ {b} : s.erasing[c] = q.erasing[c]
    BY <2>1 DEF Request
  <2>2. Follows(q, s)
    BY <1>2, <2>1 DEF Follows, Sound, Carried
  <2>3. LeavesOthers(q, s, b) /\ ForgetsNone(q, s, b)
    BY <1>2, <2>1, <2>b, NullIsNone DEF LeavesOthers, ForgetsNone, Over, Carried
  <2> QED
    BY <2>1, <2>2, <2>3 DEF Tidy, s
<1> QED
  BY <1>1, <1>2 DEF Request

LEMMA SettledTidy ==
  ASSUME NEW q \in Request, Sound(q), NEW b \in Blobs, Turn(q, b),
         NEW ok \in BOOLEAN
  PROVE  /\ Tidy(q, Settled(q, b, ok), b)
         /\ Settled(q, b, ok) # Null =>
              Settled(q, b, ok).erasing[b] \in {"find", Null}
<1> DEFINE p == [q EXCEPT !.erasing[b] = Null]
<1>1. p \in Request /\ Tidy(q, p, b) /\ p.erasing = [q.erasing EXCEPT ![b] = Null]
  BY ErasingTidy
<1>2. p # Null /\ p.erasing[b] = Null
  BY <1>1, NullIsNone DEF Request
<1>s. /\ p.op = q.op
      /\ q.op = "upload" =>
           p.step = q.step /\ p.blob = q.blob /\ p.done = q.done
  BY <1>1 DEF Request
<1>3. CASE q.op = "delete"
  <2>1. Settled(q, b, ok) \in {p, Null}
    BY <1>3 DEF Settled
  <2>2. Tidy(q, Null, b)
    BY <1>3, NullIsNone
       DEF Tidy, Follows, LeavesOthers, ForgetsNone, Failing, Turn, EraseSteps
  <2> QED
    BY <1>1, <1>2, <2>1, <2>2
<1>4. CASE q.op = "upload" /\ q.step = "clean"
  <2>1. Settled(q, b, ok) = Undo(p)
    BY <1>4 DEF Settled
  <2>2. q.blob = b /\ b \notin q.done /\ \A c \in Blobs \ {b} : q.erasing[c] = Null
    BY <1>4 DEF Sound, Turn
  <2>3. \A c \in Blobs \ {b} : p.erasing[c] = Null
    BY <1>1, <2>2 DEF Request
  <2> HIDE DEF p
  <2>4. /\ Tidy(p, Undo(p), b)
        /\ Undo(p) # Null => Undo(p).erasing[b] \in {"find", Null}
    <3>1. /\ p \in Request /\ p.op = "upload" /\ p.blob \notin p.done
          /\ p.step # "undo" /\ p.blob \in {b, Null}
      BY <1>1, <1>s, <1>4, <2>2
    <3> QED
      BY <3>1, <2>3, UndoTidy
  <2>5. Follows(q, Undo(p))
    BY <1>1, <1>2, <2>4 DEF Tidy, Follows
  <2>6. LeavesOthers(q, Undo(p), b)
    BY <1>s, <1>4, <2>2, <2>3, <2>4, NullIsNone
       DEF Tidy, LeavesOthers, EraseSteps, Carried
  <2>7. ForgetsNone(q, Undo(p), b)
    BY <2>4, <1>s, <1>4, <2>2
       DEF Tidy, ForgetsNone, Failing, Over, Carried
  <2> QED
    BY <2>1, <2>4, <2>5, <2>6, <2>7 DEF Tidy
<1>5. CASE q.op = "upload" /\ q.step # "clean"
  <2>1. Settled(q, b, ok) = IF Idle(p) THEN Null ELSE p
    BY <1>5 DEF Settled
  <2>2. CASE ~Idle(p)
    BY <1>1, <1>2, <2>1, <2>2
  <2>3. CASE Idle(p)
    <3>1. \A c \in Blobs \ {b} : q.erasing[c] = Null
      <4>1. p.erasing = Nothing
        BY <2>3 DEF Idle
      <4>2. q.erasing \in [Blobs -> EraseSteps \cup {Null}]
        BY DEF Request
      <4> QED
        BY <1>1, <4>1, <4>2 DEF Nothing
    <3>2. q.step = "undo"
      BY <1>5 DEF Sound, Turn, Nothing
    <3>3. Tidy(q, Null, b)
      BY <3>1, <3>2, <1>5, NullIsNone
         DEF Tidy, Follows, LeavesOthers, ForgetsNone, Over, EraseSteps
    <3> QED
      BY <2>1, <2>3, <3>3
  <2> QED
    BY <2>2, <2>3
<1> QED
  BY <1>3, <1>4, <1>5 DEF Request

-----------------------------------------------------------------------------
(* The inductive invariant.                                                *)

InFlight == {r \in Requests : requests[r] # Null}

AllSound == \A r \in InFlight : Sound(requests[r])

\* A blob that anybody knows of has been given out.
Numbered ==
  /\ \A b \in Blobs : store[b] # Null \/ files[b] # Null => b < nextBlob
  /\ \A r \in InFlight, b \in Blobs :
       b \in Carried(requests[r]) \/ requests[r].erasing[b] # Null => b < nextBlob

\* A blob is carried by one upload.
OneUpload ==
  \A r, s \in InFlight :
    r # s => Carried(requests[r]) \cap Carried(requests[s]) = {}

\* An upload's files are its user's.
OwnFiles ==
  \A r \in InFlight : \A b \in Carried(requests[r]) :
    files[b] \in {requests[r].user, Null}

\* Until the row is inserted there is none, and nobody deletes the blob.
InsertsFirst ==
  \A r \in Requests : Uploading(r, "row") =>
    LET b == requests[r].blob
    IN  /\ files[b] = Null /\ store[b] # Null
        /\ \A s \in InFlight : requests[s].erasing[b] \in {"find", Null}

\* When the blob is to be deleted, the row is gone.
RowsGoFirst ==
  \A r \in InFlight, b \in Blobs :
    requests[r].erasing[b] = "blob" => files[b] = Null

\* A blob without a row is about to get one, or about to go.
NoBlobForgotten ==
  \A b \in Blobs : store[b] # Null =>
    \/ files[b] # Null
    \/ b \in hit
    \/ \E r \in Requests : Uploading(r, "row") /\ requests[r].blob = b
    \/ \E r \in InFlight : requests[r].erasing[b] = "blob"

\* What the clean-up of a bulk has settled is gone.
CleanUps ==
  \A r \in InFlight, c \in Blobs :
    Over(requests[r], c) => files[c] = Null \/ c \in hit

IInv ==
  /\ TypeOK /\ AllSound /\ Numbered /\ OneUpload /\ OwnFiles
  /\ InsertsFirst /\ RowsGoFirst /\ RowsHaveBlobs /\ NoBlobForgotten
  /\ AttachedToOwn /\ CleanUps

-----------------------------------------------------------------------------
(* The steps, by what they do to the request r, now s, and to the stores.  *)

\* The request comes into being.
Begins(r, s) ==
  /\ requests[r] = Null
  /\ Become(r, s)
  /\ s \in Request /\ Sound(s) /\ Carried(s) = {}
  /\ \A b \in Blobs : /\ s.erasing[b] \in {"find", Null}
                      /\ s.erasing[b] # Null => b < nextBlob
                      /\ ~Over(s, b)
  /\ UNCHANGED <<rows, store, nextBlob, hit>>

\* It goes on and writes nothing; with b it is done, if b is a blob.
Quiet(r, s, b) ==
  /\ Become(r, s)
  /\ Tidy(requests[r], s, b)
  /\ UNCHANGED <<rows, store, nextBlob>>
  /\ hit \subseteq hit' /\ hit' \subseteq Blobs
  /\ Uploading(r, "row") => requests[r].blob \in hit'
  /\ b \in Blobs =>
       /\ s # Null => s.erasing[b] \in {"find", Null}
       /\ b \in Carried(requests[r]) \/ requests[r].erasing[b] # Null
       /\ requests[r].erasing[b] # "blob"
       /\ b \in hit' \/ files[b] = Null \/ files[b] # requests[r].user

\* It stores a blob and does not know it.
LosesBlob(r, s, kind) ==
  /\ Become(r, s)
  /\ Tidy(requests[r], s, Null)
  /\ ~Uploading(r, "row")
  /\ nextBlob \in Blobs /\ kind \in Kinds
  /\ store' = [store EXCEPT ![nextBlob] = kind]
  /\ nextBlob' = nextBlob + 1
  /\ hit' = hit \cup {nextBlob}
  /\ UNCHANGED rows

\* It deletes blob b, or fails to.
EndsBlob(r, s, b) ==
  /\ Become(r, s)
  /\ Tidy(requests[r], s, b)
  /\ b \in Blobs
  /\ requests[r].erasing[b] = "blob"
  /\ s # Null => s.erasing[b] \in {"find", Null}
  /\ store' \in {store, [store EXCEPT ![b] = Null]}
  /\ hit \subseteq hit' /\ hit' \subseteq Blobs
  /\ store'[b] = Null \/ b \in hit'
  /\ UNCHANGED <<rows, nextBlob>>

\* It goes on once a row is written.
Writes(r, s) ==
  /\ Become(r, s)
  /\ Tidy(requests[r], s, Null)
  /\ InsertRow(r) \/ Link(r)

\* Deletion of b goes on to the next step.
Goes(r, s, b) ==
  /\ Become(r, s)
  /\ Follows(requests[r], s) /\ LeavesOthers(requests[r], s, b)
  /\ s # Null /\ b \in Blobs
  /\ requests[r].op = "upload" => requests[r].step # "row"
  /\ s.erasing[b] = Following[requests[r].erasing[b]]
  /\ \A c \in Blobs : Over(s, c) => Over(requests[r], c)
  /\ FindFile(r, b) \/ DeleteRow(r, b)

LEMMA BeginKinds ==
  ASSUME IInv, NEW r \in Requests, BeginUpload(r) \/ BeginDelete(r)
  PROVE  \E s : Begins(r, s)
<1> USE DEF IInv, TypeOK
<1>1. CASE BeginUpload(r)
  <2>1. PICK u \in users, t \in Targets \cup {Avatar, Null}, n \in 1 .. MaxFiles :
          /\ requests[r] = Null
          /\ Become(r, [op |-> "upload", step |-> "send", user |-> u,
                        target |-> t, left |-> n, blob |-> Null, done |-> {},
                        erasing |-> Nothing])
          /\ UNCHANGED <<rows, store, nextBlob, hit>>
    BY <1>1 DEF BeginUpload
  <2> DEFINE s == [op |-> "upload", step |-> "send", user |-> u, target |-> t,
                   left |-> n, blob |-> Null, done |-> {}, erasing |-> Nothing]
  <2>2. s \in Request
    BY DEF Request, Steps, Nothing
  <2>3. Begins(r, s)
    BY <2>1, <2>2, NullIsNone DEF Begins, Sound, Carried, Nothing, Over
  <2> QED
    BY <2>3
<1>2. CASE BeginDelete(r)
  <2>1. PICK u \in users, B \in (SUBSET Blobs) \ {{}} :
          /\ requests[r] = Null
          /\ B \subseteq 1 .. nextBlob - 1
          /\ Become(r, [op |-> "delete", user |-> u, erasing |-> Erasing(B)])
          /\ UNCHANGED <<rows, store, nextBlob, hit>>
    BY <1>2 DEF BeginDelete
  <2> DEFINE s == [op |-> "delete", user |-> u, erasing |-> Erasing(B)]
  <2>2. s \in Request
    BY ErasingType DEF Request
  <2>3. \A b \in Blobs : s.erasing[b] \in {"find", Null}
                         /\ (s.erasing[b] # Null => b < nextBlob)
    BY <2>1, NullIsNone DEF Erasing
  <2>4. Begins(r, s)
    BY <2>1, <2>2, <2>3 DEF Begins, Sound, Carried, Over
  <2> QED
    BY <2>4
<1> QED
  BY <1>1, <1>2

\* The step of an upload that is not deleting anything.
LEMMA UploadKinds ==
  ASSUME IInv, NEW r \in Requests,
         \/ RefuseSize(r) \/ SendFails(r) \/ InsertRow(r) \/ InsertRowFails(r)
         \/ Look(r) \/ Link(r) \/ AttachFails(r)
  PROVE  \/ \E s, b : Quiet(r, s, b)
         \/ \E s, kind : LosesBlob(r, s, kind)
         \/ \E s : Writes(r, s)
<1> DEFINE q == requests[r]
<1> USE NullIsNone
<1>1. /\ q # Null /\ q \in Request /\ q.op = "upload" /\ Sound(q)
      /\ q.blob \notin q.done /\ hit \subseteq Blobs
  BY DEF IInv, TypeOK, AllSound, InFlight, Sound, RefuseSize, SendFails,
         InsertRow, InsertRowFails, Look, Link, AttachFails, Uploading
<1>2. ASSUME Uploading(r, "send")
      PROVE  Tidy(q, Undo(q), Null)
  <2>1. /\ q.step # "undo" /\ q.blob = Null
        /\ \A c \in Blobs \ {Null} : q.erasing[c] = Null
    BY <1>1, <1>2 DEF Uploading, Sound, Nothing
  <2> QED
    BY <1>1, <2>1, UndoTidy
<1>3. CASE RefuseSize(r)
  <2>1. Quiet(r, Undo(q), Null)
    BY <1>1, <1>2, <1>3 DEF RefuseSize, Quiet, Uploading
  <2> QED
    BY <2>1
<1>4. CASE SendFails(r)
  <2>1. CASE UNCHANGED <<store, nextBlob, hit>>
    <3>1. Quiet(r, Undo(q), Null)
      BY <1>1, <1>2, <1>4, <2>1 DEF SendFails, Quiet, Uploading
    <3> QED
      BY <3>1
  <2>2. CASE /\ nextBlob \in Blobs
             /\ \E kind \in Kinds : store' = [store EXCEPT ![nextBlob] = kind]
             /\ nextBlob' = nextBlob + 1
             /\ hit' = hit \cup {nextBlob}
    <3>1. PICK kind \in Kinds : store' = [store EXCEPT ![nextBlob] = kind]
      BY <2>2
    <3>2. LosesBlob(r, Undo(q), kind)
      BY <1>1, <1>2, <1>4, <2>2, <3>1 DEF SendFails, LosesBlob, Uploading
    <3> QED
      BY <3>2
  <2> QED
    BY <1>4, <2>1, <2>2 DEF SendFails
<1>5. CASE InsertRow(r)
  <2>1. Tidy(q, AfterRow(q), Null)
    <3>1. CASE q.target = Null
      BY <1>1, <1>5, <3>1, ThroughTidy DEF AfterRow, InsertRow, Uploading
    <3>2. CASE q.target = Avatar
      <4>1. Tidy(q, [q EXCEPT !.step = "link"], Null)
        BY <1>1, <1>5, <3>2, GoOnTidy DEF InsertRow, Uploading
      <4> QED
        BY <3>2, <4>1, UploadAssumption DEF AfterRow
    <3>3. CASE q.target \notin {Avatar, Null}
      <4>1. q.target \in Targets
        BY <1>1, <3>3 DEF Request
      <4>2. Tidy(q, [q EXCEPT !.step = "look"], Null)
        BY <1>1, <1>5, <4>1, GoOnTidy DEF InsertRow, Uploading
      <4> QED
        BY <3>3, <4>2 DEF AfterRow
    <3> QED
      BY <3>1, <3>2, <3>3
  <2>2. Writes(r, AfterRow(q))
    BY <1>5, <2>1 DEF Writes, InsertRow
  <2> QED
    BY <2>2
<1>6. CASE InsertRowFails(r)
  <2>1. q.step = "row" /\ q.blob \in Blobs /\ q.erasing = Nothing
    BY <1>1, <1>6 DEF InsertRowFails, Uploading, Sound, Request
  <2>2. \A c \in Blobs \ {q.blob} : q.erasing[c] = Null
    BY <2>1 DEF Nothing
  <2>3. /\ Tidy(q, Undo(q), q.blob)
        /\ Undo(q) # Null /\ q.blob \in Blobs =>
             Undo(q).erasing[q.blob] \in {"find", Null}
    <3>1. q.blob \in {q.blob, Null} /\ q.step # "undo"
      BY <2>1
    <3> QED
      BY <1>1, <2>2, <3>1, UndoTidy
  <2>4. q.erasing[q.blob] # "blob"
    BY <2>1 DEF Nothing, EraseSteps
  <2>5. Quiet(r, Undo(q), q.blob)
    BY <1>1, <1>6, <2>1, <2>3, <2>4 DEF InsertRowFails, Quiet, Carried
  <2> QED
    BY <2>5
<1>7. CASE Look(r)
  <2>1. Tidy(q, [q EXCEPT !.step = "link"], Null)
    <3>1. q.step = "look" /\ q.target \in Targets /\ ownerOf[q.target] = q.user
      BY <1>1, <1>7 DEF Look, FindsTarget, Uploading, Sound
    <3> QED
      BY <1>1, <3>1, GoOnTidy
  <2>2. Quiet(r, [q EXCEPT !.step = "link"], Null)
    BY <1>1, <1>7, <2>1 DEF Look, Quiet, Uploading
  <2> QED
    BY <2>2
<1>8. CASE Link(r)
  <2>1. Tidy(q, Through(q), Null)
    BY <1>1, <1>8, ThroughTidy DEF Link, Uploading
  <2>2. Writes(r, Through(q))
    BY <1>8, <2>1 DEF Writes, Link
  <2> QED
    BY <2>2
<1>9. CASE AttachFails(r)
  <2>1. q.step \in {"look", "link"}
    BY <1>9 DEF AttachFails, Uploading
  <2>2. Tidy(q, Clean(q), Null)
    BY <1>1, <2>1, CleanTidy
  <2>3. Quiet(r, Clean(q), Null)
    BY <1>1, <1>9, <2>1, <2>2 DEF AttachFails, Quiet, Uploading
  <2> QED
    BY <2>3
<1> QED
  BY <1>3, <1>4, <1>5, <1>6, <1>7, <1>8, <1>9

\* The step of a deletion.
LEMMA DeletionKinds ==
  ASSUME IInv, NEW r \in Requests, NEW b \in Blobs,
         \/ FindFile(r, b) \/ DeleteRow(r, b) \/ NoRow(r, b)
         \/ RowFails(r, b) \/ DeleteBlob(r, b) \/ BlobFails(r, b)
  PROVE  \/ \E s : Quiet(r, s, b)
         \/ \E s : Goes(r, s, b)
         \/ \E s : EndsBlob(r, s, b)
<1> DEFINE q == requests[r]
<1> USE NullIsNone
<1>a. \E step \in EraseSteps : Erases(r, b, step)
  BY DEF FindFile, DeleteRow, NoRow, RowFails, DeleteBlob, BlobFails, EraseSteps
<1>1. q # Null /\ q \in Request /\ Sound(q) /\ Turn(q, b)
  BY <1>a DEF IInv, TypeOK, AllSound, InFlight, Erases, Turn
<1>2. ASSUME NEW ok \in BOOLEAN
      PROVE  /\ Tidy(q, Settled(q, b, ok), b)
             /\ Settled(q, b, ok) # Null =>
                  Settled(q, b, ok).erasing[b] \in {"find", Null}
  BY <1>1, SettledTidy
<1>3. q.op = "upload" => q.step # "row"
  BY <1>1 DEF Sound, Turn, Nothing
<1>4. hit \subseteq Blobs
  BY DEF IInv, TypeOK
<1>5. CASE FindFile(r, b) \/ DeleteRow(r, b)
  <2> DEFINE step == Following[q.erasing[b]]
             s == [q EXCEPT !.erasing[b] = step]
  <2>1. step \in {"row", "blob"} /\ step \in EraseSteps
    BY <1>5 DEF FindFile, DeleteRow, Erases, Following, EraseSteps
  <2>2. Become(r, s)
    BY <1>5, <2>1 DEF FindFile, DeleteRow, Advance, EraseSteps
  <2>3. s \in Request /\ Tidy(q, s, b) /\ s.erasing = [q.erasing EXCEPT ![b] = step]
    BY <1>1, <2>1, ErasingTidy
  <2> HIDE DEF s
  <2>4. s # Null /\ s.erasing[b] = step
    BY <1>1, <2>3 DEF Request
  <2>5. \A c \in Blobs : Over(s, c) => Over(q, c)
    BY <2>1, <2>3, <2>4 DEF Tidy, ForgetsNone, Over
  <2>6. Goes(r, s, b)
    BY <1>3, <1>5, <2>2, <2>3, <2>4, <2>5 DEF Goes, Tidy
  <2> QED
    BY <2>6
<1>6. CASE NoRow(r, b)
  <2>1. Quiet(r, Settled(q, b, FALSE), b)
    BY <1>1, <1>2, <1>3, <1>4, <1>6 DEF NoRow, Quiet, Erases, Uploading, EraseSteps
  <2> QED
    BY <2>1
<1>7. CASE RowFails(r, b)
  <2>1. Quiet(r, Settled(q, b, FALSE), b)
    BY <1>1, <1>2, <1>3, <1>4, <1>7 DEF RowFails, Quiet, Erases, Uploading, EraseSteps
  <2> QED
    BY <2>1
<1>b. q.erasing[b] = "blob" => Following[q.erasing[b]] = Null
  BY DEF Following
<1>c. store \in [Blobs -> Kinds \cup {Null}]
  BY DEF IInv, TypeOK
<1>8. CASE DeleteBlob(r, b)
  <2>1. Become(r, Settled(q, b, TRUE))
    BY <1>8, <1>b DEF DeleteBlob, Advance, Erases
  <2>2. EndsBlob(r, Settled(q, b, TRUE), b)
    BY <1>1, <1>2, <1>4, <1>8, <1>c, <2>1 DEF DeleteBlob, EndsBlob, Erases
  <2> QED
    BY <2>2
<1>9. CASE BlobFails(r, b)
  <2>1. EndsBlob(r, Settled(q, b, FALSE), b)
    BY <1>1, <1>2, <1>4, <1>9 DEF BlobFails, EndsBlob, Erases
  <2> QED
    BY <2>1
<1> QED
  BY <1>5, <1>6, <1>7, <1>8, <1>9

-----------------------------------------------------------------------------
(* Each kind of step keeps the invariant.                                  *)

\* What holds of the requests when r goes on and gets no blob.
Onward(r, s) ==
  /\ requests' \in [Requests -> Request \cup {Null}]
  /\ requests'[r] = s
  /\ \A t \in Requests \ {r} : requests'[t] = requests[t]
  /\ \A t \in InFlight' :
       /\ t \in InFlight
       /\ requests'[t].user = requests[t].user
       /\ Carried(requests'[t]) \subseteq Carried(requests[t])
  /\ \A t \in Requests :
       requests'[t] # Null /\ requests'[t].op = "upload" /\ requests'[t].step = "row"
         => t # r /\ Uploading(t, "row")

LEMMA FollowsOnward ==
  ASSUME IInv, NEW r \in InFlight, NEW s, Become(r, s), Follows(requests[r], s)
  PROVE  Onward(r, s) /\ AllSound' /\ OneUpload'
<1>1. /\ r \in Requests /\ requests[r] # Null
      /\ requests \in [Requests -> Request \cup {Null}]
      /\ requests' = [requests EXCEPT ![r] = s]
  BY DEF InFlight, IInv, TypeOK, Become
<1>2. /\ requests' \in [Requests -> Request \cup {Null}]
      /\ requests'[r] = s
      /\ \A t \in Requests \ {r} : requests'[t] = requests[t]
  BY <1>1 DEF Follows
<1>3. \A t \in InFlight' :
        /\ t \in InFlight
        /\ requests'[t].user = requests[t].user
        /\ Carried(requests'[t]) \subseteq Carried(requests[t])
  BY <1>1, <1>2 DEF Follows, InFlight
<1>4. ASSUME NEW t \in Requests, requests'[t] # Null,
             requests'[t].op = "upload", requests'[t].step = "row"
      PROVE  t # r /\ Uploading(t, "row")
  BY <1>2, <1>4 DEF Follows, Uploading
<1>5. AllSound'
  <2> SUFFICES ASSUME NEW t \in InFlight' PROVE Sound(requests'[t])
    BY DEF AllSound
  <2> QED
    BY <1>2 DEF Follows, InFlight, IInv, AllSound
<1>6. OneUpload'
  <2> SUFFICES ASSUME NEW t \in InFlight', NEW u \in InFlight', t # u
               PROVE  Carried(requests'[t]) \cap Carried(requests'[u]) = {}
    BY DEF OneUpload
  <2>1. Carried(requests[t]) \cap Carried(requests[u]) = {}
    BY <1>3 DEF IInv, OneUpload
  <2> QED
    BY <1>3, <2>1
<1> QED
  BY <1>2, <1>3, <1>4, <1>5, <1>6 DEF Onward

\* What holds of the deletions when r leaves all but that of b alone.
Steady(r, b) ==
  /\ \A t \in InFlight', c \in Blobs : t # r \/ c # b =>
       /\ requests'[t].erasing[c] \in {requests[t].erasing[c], "find", Null}
       /\ requests'[t].erasing[c] # Null =>
            requests[t].erasing[c] # Null \/ c \in Carried(requests[t])
  /\ \A t \in InFlight, c \in Blobs :
       (t # r \/ c # b) /\ requests[t].erasing[c] = "blob" =>
         t \in InFlight' /\ requests'[t].erasing[c] = "blob"

LEMMA SteadyDeletions ==
  ASSUME IInv, NEW r \in InFlight, NEW s, NEW b, Become(r, s),
         Follows(requests[r], s), LeavesOthers(requests[r], s, b)
  PROVE  Steady(r, b)
<1>1. Onward(r, s)
  BY FollowsOnward
<1>2. ASSUME NEW t \in InFlight', NEW c \in Blobs, t # r \/ c # b
      PROVE  /\ requests'[t].erasing[c] \in {requests[t].erasing[c], "find", Null}
             /\ requests'[t].erasing[c] # Null =>
                  requests[t].erasing[c] # Null \/ c \in Carried(requests[t])
  <2>1. CASE t = r
    BY <1>1, <1>2, <2>1 DEF Onward, LeavesOthers, InFlight
  <2>2. CASE t # r
    BY <1>1, <2>2 DEF Onward, InFlight
  <2> QED
    BY <2>1, <2>2
<1>3. ASSUME NEW t \in InFlight, NEW c \in Blobs, t # r \/ c # b,
             requests[t].erasing[c] = "blob"
      PROVE  t \in InFlight' /\ requests'[t].erasing[c] = "blob"
  <2>1. CASE t = r
    BY <1>1, <1>3, <2>1 DEF Onward, LeavesOthers, InFlight
  <2>2. CASE t # r
    BY <1>1, <1>3, <2>2 DEF Onward, InFlight
  <2> QED
    BY <2>1, <2>2
<1> QED
  BY <1>2, <1>3 DEF Steady

LEMMA QuietKeeps ==
  ASSUME IInv, NEW r \in InFlight, NEW s, NEW b, Quiet(r, s, b)
  PROVE  IInv'
<1>1. Onward(r, s) /\ AllSound' /\ OneUpload'
  BY FollowsOnward DEF Quiet, Tidy
<1>2. /\ LeavesOthers(requests[r], s, b) /\ ForgetsNone(requests[r], s, b)
      /\ UNCHANGED <<users, targets, files, links, avatar, store, nextBlob>>
      /\ hit \subseteq hit' /\ hit' \subseteq Blobs
  BY DEF Quiet, Tidy, rows
<1>r. r \in Requests /\ requests[r] # Null /\ requests[r] \in Request
  BY DEF InFlight, IInv, TypeOK
<1>3. Steady(r, b)
  BY SteadyDeletions DEF Quiet, Tidy
<1>4. /\ \A t \in InFlight', c \in Blobs :
           /\ requests'[t].erasing[c] \in {requests[t].erasing[c], "find", Null}
           /\ requests'[t].erasing[c] # Null =>
                requests[t].erasing[c] # Null \/ c \in Carried(requests[t])
      /\ \A t \in InFlight, c \in Blobs :
           requests[t].erasing[c] = "blob" =>
             t \in InFlight' /\ requests'[t].erasing[c] = "blob"
  BY <1>1, <1>3 DEF Steady, Quiet, Onward, InFlight
<1>5. TypeOK'
  BY <1>1, <1>2 DEF IInv, TypeOK, Onward
<1>6. Numbered'
  BY <1>1, <1>2, <1>4 DEF IInv, Numbered, Onward
<1>7. OwnFiles'
  BY <1>1, <1>2 DEF IInv, OwnFiles, Onward
<1>8. InsertsFirst'
  <2> SUFFICES ASSUME NEW t \in Requests, Uploading(t, "row")'
               PROVE  LET c == requests'[t].blob
                      IN  /\ files'[c] = Null /\ store'[c] # Null
                          /\ \A u \in InFlight' :
                               requests'[u].erasing[c] \in {"find", Null}
    BY DEF InsertsFirst
  <2>1. t # r /\ Uploading(t, "row") /\ requests'[t] = requests[t]
    BY <1>1 DEF Onward, Uploading
  <2>2. requests[t].blob \in Blobs
    BY <2>1 DEF IInv, AllSound, Sound, TypeOK, Request, Uploading, InFlight
  <2> QED
    BY <1>1, <1>2, <1>4, <2>1, <2>2 DEF IInv, InsertsFirst, Onward
<1>9. RowsGoFirst'
  BY <1>1, <1>2, <1>4, NullIsNone DEF IInv, RowsGoFirst, Onward, EraseSteps
<1>10. RowsHaveBlobs' /\ AttachedToOwn'
  BY <1>2 DEF IInv, RowsHaveBlobs, AttachedToOwn
<1>11. NoBlobForgotten'
  <2> SUFFICES ASSUME NEW c \in Blobs, store[c] # Null, files[c] = Null, c \notin hit'
               PROVE  \/ \E t \in Requests : Uploading(t, "row")' /\ requests'[t].blob = c
                      \/ \E t \in InFlight' : requests'[t].erasing[c] = "blob"
    BY <1>2 DEF NoBlobForgotten
  <2>1. CASE \E t \in InFlight : requests[t].erasing[c] = "blob"
    BY <1>4, <2>1
  <2>2. CASE \E t \in Requests : Uploading(t, "row") /\ requests[t].blob = c
    <3>1. PICK t \in Requests : Uploading(t, "row") /\ requests[t].blob = c
      BY <2>2
    <3>2. t # r
      BY <3>1 DEF Quiet
    <3> QED
      BY <1>1, <3>1, <3>2 DEF Onward, Uploading
  <2> QED
    BY <1>2, <2>1, <2>2 DEF IInv, NoBlobForgotten
<1>12. CleanUps'
  <2> SUFFICES ASSUME NEW t \in InFlight', NEW c \in Blobs, Over(requests'[t], c)
               PROVE  files[c] = Null \/ c \in hit'
    BY <1>2 DEF CleanUps
  <2>1. CASE Over(requests[t], c)
    BY <1>1, <1>2, <2>1 DEF IInv, CleanUps, Onward
  <2>2. CASE ~Over(requests[t], c)
    <3>1. t = r /\ c = b
      BY <1>1, <1>2, <2>2 DEF Onward, ForgetsNone, InFlight
    <3>2. c \in Carried(requests[r])
      BY <1>1, <3>1 DEF Onward, Over
    <3>3. files[c] \in {requests[r].user, Null}
      BY <3>2 DEF IInv, OwnFiles
    <3> QED
      BY <3>1, <3>3 DEF Quiet
  <2> QED
    BY <2>1, <2>2
<1> QED
  BY <1>1, <1>5, <1>6, <1>7, <1>8, <1>9, <1>10, <1>11, <1>12 DEF IInv

\* Who is about to insert its row has a blob, and is there.
LEMMA Inserting ==
  ASSUME IInv, NEW t \in Requests, Uploading(t, "row")
  PROVE  /\ t \in InFlight /\ requests[t].blob \in Blobs
         /\ requests[t].blob \in Carried(requests[t])
         /\ requests[t].blob < nextBlob
BY DEF IInv, AllSound, Sound, TypeOK, Request, Uploading, InFlight, Carried,
       Numbered

LEMMA LosesBlobKeeps ==
  ASSUME IInv, NEW r \in InFlight, NEW s, NEW kind, LosesBlob(r, s, kind)
  PROVE  IInv'
<1>1. Onward(r, s) /\ AllSound' /\ OneUpload'
  BY FollowsOnward DEF LosesBlob, Tidy
<1>2. /\ UNCHANGED <<users, targets, files, links, avatar>>
      /\ nextBlob \in Blobs /\ kind \in Kinds /\ nextBlob' = nextBlob + 1
      /\ store' = [store EXCEPT ![nextBlob] = kind]
      /\ hit' = hit \cup {nextBlob}
      /\ ~Uploading(r, "row")
      /\ ForgetsNone(requests[r], s, Null)
  BY DEF LosesBlob, Tidy, rows
<1>3. Steady(r, Null)
  BY SteadyDeletions DEF LosesBlob, Tidy
<1>4. nextBlob \in Nat /\ kind # Null
  BY <1>2, NullIsNone
<1>e. \A t \in InFlight', c \in Blobs :
        /\ requests'[t].erasing[c] \in {requests[t].erasing[c], "find", Null}
        /\ requests'[t].erasing[c] # Null =>
             requests[t].erasing[c] # Null \/ c \in Carried(requests[t])
  BY <1>3, NullIsNone DEF Steady
<1>5. TypeOK'
  BY <1>1, <1>2, UploadAssumption DEF IInv, TypeOK, Onward, Blobs
<1>6. Numbered'
  <2>1. \A c \in Blobs : c < nextBlob => c < nextBlob'
    BY <1>2, <1>4, NullIsNone
  <2>2. \A c \in Blobs : store'[c] # Null \/ files'[c] # Null => c < nextBlob'
    BY <1>2, <1>4, <2>1 DEF IInv, Numbered, TypeOK
  <2>3. \A t \in InFlight', c \in Blobs :
          c \in Carried(requests'[t]) \/ requests'[t].erasing[c] # Null
            => c < nextBlob'
    BY <1>1, <1>e, <2>1 DEF IInv, Numbered, Onward
  <2> QED
    BY <2>2, <2>3 DEF Numbered
<1>7. OwnFiles'
  BY <1>1, <1>2 DEF IInv, OwnFiles, Onward
<1>8. InsertsFirst'
  <2> SUFFICES ASSUME NEW t \in Requests, Uploading(t, "row")'
               PROVE  LET c == requests'[t].blob
                      IN  /\ files'[c] = Null /\ store'[c] # Null
                          /\ \A u \in InFlight' :
                               requests'[u].erasing[c] \in {"find", Null}
    BY DEF InsertsFirst
  <2>1. t # r /\ Uploading(t, "row") /\ requests'[t] = requests[t]
    BY <1>1 DEF Onward, Uploading
  <2>2. requests[t].blob \in Blobs
    BY <2>1, Inserting
  <2>3. store'[requests[t].blob] # Null
    BY <1>2, <1>4, <2>1, <2>2 DEF IInv, InsertsFirst, TypeOK
  <2> QED
    BY <1>1, <1>2, <1>e, <2>1, <2>2, <2>3 DEF IInv, InsertsFirst, Onward
<1>9. RowsGoFirst'
  BY <1>1, <1>2, <1>3, NullIsNone DEF IInv, RowsGoFirst, Onward, Steady, EraseSteps
<1>10. RowsHaveBlobs' /\ AttachedToOwn'
  BY <1>2, <1>4 DEF IInv, RowsHaveBlobs, AttachedToOwn, TypeOK
<1>11. NoBlobForgotten'
  <2> SUFFICES ASSUME NEW c \in Blobs, store[c] # Null, files[c] = Null, c \notin hit'
               PROVE  \/ \E t \in Requests : Uploading(t, "row")' /\ requests'[t].blob = c
                      \/ \E t \in InFlight' : requests'[t].erasing[c] = "blob"
    BY <1>2 DEF NoBlobForgotten, IInv, TypeOK
  <2>1. CASE \E t \in InFlight : requests[t].erasing[c] = "blob"
    BY <1>3, <2>1, NullIsNone DEF Steady
  <2>2. CASE \E t \in Requests : Uploading(t, "row") /\ requests[t].blob = c
    <3>1. PICK t \in Requests : Uploading(t, "row") /\ requests[t].blob = c
      BY <2>2
    <3>2. t # r
      BY <1>2, <3>1
    <3> QED
      BY <1>1, <3>1, <3>2 DEF Onward, Uploading
  <2> QED
    BY <1>2, <2>1, <2>2 DEF IInv, NoBlobForgotten
<1>12. CleanUps'
  <2> SUFFICES ASSUME NEW t \in InFlight', NEW c \in Blobs, Over(requests'[t], c)
               PROVE  files[c] = Null \/ c \in hit'
    BY <1>2 DEF CleanUps
  <2>1. Over(requests[t], c)
    BY <1>1, <1>2, NullIsNone DEF Onward, ForgetsNone, InFlight
  <2> QED
    BY <1>1, <1>2, <2>1 DEF IInv, CleanUps, Onward
<1> QED
  BY <1>1, <1>5, <1>6, <1>7, <1>8, <1>9, <1>10, <1>11, <1>12 DEF IInv

LEMMA EndsBlobKeeps ==
  ASSUME IInv, NEW r \in InFlight, NEW s, NEW b, EndsBlob(r, s, b)
  PROVE  IInv'
<1>1. Onward(r, s) /\ AllSound' /\ OneUpload'
  BY FollowsOnward DEF EndsBlob, Tidy
<1>2. /\ UNCHANGED <<users, targets, files, links, avatar, nextBlob>>
      /\ b \in Blobs /\ requests[r].erasing[b] = "blob"
      /\ s # Null => s.erasing[b] \in {"find", Null}
      /\ store' \in {store, [store EXCEPT ![b] = Null]}
      /\ hit \subseteq hit' /\ hit' \subseteq Blobs
      /\ store'[b] = Null \/ b \in hit'
      /\ ForgetsNone(requests[r], s, b)
  BY DEF EndsBlob, Tidy, rows
<1>3. Steady(r, b)
  BY SteadyDeletions DEF EndsBlob, Tidy
<1>4. files[b] = Null
  BY <1>2 DEF IInv, RowsGoFirst
<1>s. \A c \in Blobs \ {b} : store'[c] = store[c]
  BY <1>2 DEF IInv, TypeOK
<1>e. \A t \in InFlight', c \in Blobs :
        /\ requests'[t].erasing[c] \in {requests[t].erasing[c], "find", Null}
        /\ requests'[t].erasing[c] # Null =>
             requests[t].erasing[c] # Null \/ c \in Carried(requests[t])
  BY <1>1, <1>2, <1>3, NullIsNone DEF Steady, Onward, InFlight, EraseSteps
<1>5. TypeOK'
  BY <1>1, <1>2 DEF IInv, TypeOK, Onward
<1>6. Numbered'
  <2>1. \A c \in Blobs : store'[c] # Null => store[c] # Null
    BY <1>2 DEF IInv, TypeOK
  <2> QED
    BY <1>1, <1>2, <1>e, <2>1 DEF IInv, Numbered, Onward
<1>7. OwnFiles'
  BY <1>1, <1>2 DEF IInv, OwnFiles, Onward
<1>8. InsertsFirst'
  <2> SUFFICES ASSUME NEW t \in Requests, Uploading(t, "row")'
               PROVE  LET c == requests'[t].blob
                      IN  /\ files'[c] = Null /\ store'[c] # Null
                          /\ \A u \in InFlight' :
                               requests'[u].erasing[c] \in {"find", Null}
    BY DEF InsertsFirst
  <2>1. t # r /\ Uploading(t, "row") /\ requests'[t] = requests[t]
    BY <1>1 DEF Onward, Uploading
  <2>2. requests[t].blob \in Blobs
    BY <2>1, Inserting
  <2>3. requests[t].blob # b
    BY <1>2, <2>1, NullIsNone DEF IInv, InsertsFirst, EraseSteps
  <2> QED
    BY <1>1, <1>2, <1>s, <1>e, <2>1, <2>2, <2>3 DEF IInv, InsertsFirst, Onward
<1>9. RowsGoFirst'
  BY <1>1, <1>2, <1>e, NullIsNone DEF IInv, RowsGoFirst, Onward, EraseSteps
<1>10. RowsHaveBlobs' /\ AttachedToOwn'
  BY <1>2, <1>4, <1>s DEF IInv, RowsHaveBlobs, AttachedToOwn
<1>11. NoBlobForgotten'
  <2> SUFFICES ASSUME NEW c \in Blobs, store'[c] # Null, files[c] = Null, c \notin hit'
               PROVE  \/ \E t \in Requests : Uploading(t, "row")' /\ requests'[t].blob = c
                      \/ \E t \in InFlight' : requests'[t].erasing[c] = "blob"
    BY <1>2 DEF NoBlobForgotten
  <2>a. c # b /\ store[c] # Null
    BY <1>2, <1>s
  <2>1. CASE \E t \in InFlight : requests[t].erasing[c] = "blob"
    BY <1>3, <2>1, <2>a DEF Steady
  <2>2. CASE \E t \in Requests : Uploading(t, "row") /\ requests[t].blob = c
    <3>1. PICK t \in Requests : Uploading(t, "row") /\ requests[t].blob = c
      BY <2>2
    <3>2. t # r
      <4>1. Uploading(r, "row") => requests[r].erasing = Nothing
        BY DEF IInv, AllSound, Sound, Uploading
      <4> QED
        BY <1>2, <3>1, <4>1, NullIsNone DEF Nothing, EraseSteps
    <3> QED
      BY <1>1, <3>1, <3>2 DEF Onward, Uploading
  <2> QED
    BY <1>2, <2>1, <2>2, <2>a DEF IInv, NoBlobForgotten
<1>12. CleanUps'
  <2> SUFFICES ASSUME NEW t \in InFlight', NEW c \in Blobs, Over(requests'[t], c)
               PROVE  files[c] = Null \/ c \in hit'
    BY <1>2 DEF CleanUps
  <2>1. CASE c # b
    <3>1. Over(requests[t], c)
      BY <1>1, <1>2, <2>1 DEF Onward, ForgetsNone, InFlight
    <3> QED
      BY <1>1, <1>2, <3>1 DEF IInv, CleanUps, Onward
  <2> QED
    BY <1>4, <2>1
<1> QED
  BY <1>1, <1>5, <1>6, <1>7, <1>8, <1>9, <1>10, <1>11, <1>12 DEF IInv

LEMMA WritesKeeps ==
  ASSUME IInv, NEW r \in InFlight, NEW s, Writes(r, s)
  PROVE  IInv'
<1> DEFINE q == requests[r]
           b == q.blob
<1>1. Onward(r, s) /\ AllSound' /\ OneUpload'
  BY FollowsOnward DEF Writes, Tidy
<1>2. /\ UNCHANGED <<users, targets, store, nextBlob, hit>>
      /\ ForgetsNone(q, s, Null)
      /\ q.op = "upload" /\ q.step \in {"row", "link"}
      /\ r \in Requests /\ q \in Request
  BY DEF Writes, Tidy, InsertRow, Link, Uploading, InFlight, IInv, TypeOK
<1>3. Steady(r, Null)
  BY SteadyDeletions DEF Writes, Tidy
<1>4. b \in Blobs /\ b \in Carried(q) /\ q.user \in Users /\ q.user # Null
  BY <1>2, UploadAssumption
     DEF IInv, AllSound, Sound, Request, Carried, InFlight
<1>e. \A t \in InFlight', c \in Blobs :
        /\ requests'[t].erasing[c] \in {requests[t].erasing[c], "find", Null}
        /\ requests'[t].erasing[c] # Null =>
             requests[t].erasing[c] # Null \/ c \in Carried(requests[t])
  BY <1>3, NullIsNone DEF Steady
<1>w. CASE InsertRow(r)
  <2>1. /\ files' = [files EXCEPT ![b] = q.user]
        /\ UNCHANGED <<links, avatar>>
        /\ Uploading(r, "row") /\ files[b] = Null /\ store[b] # Null
    BY <1>2, <1>w DEF InsertRow, IInv, InsertsFirst
  <2>2. files'[b] = q.user /\ \A c \in Blobs \ {b} : files'[c] = files[c]
    BY <1>4, <2>1 DEF IInv, TypeOK
  <2>5. TypeOK'
    BY <1>1, <1>2, <1>4, <2>1 DEF IInv, TypeOK, Onward
  <2>6. Numbered'
    <3>1. b < nextBlob
      BY <1>2, <2>1, Inserting
    <3> QED
      BY <1>1, <1>2, <1>e, <2>2, <3>1 DEF IInv, Numbered, Onward
  <2>7. OwnFiles'
    <3> SUFFICES ASSUME NEW t \in InFlight', NEW c \in Carried(requests'[t])
                 PROVE  files'[c] \in {requests'[t].user, Null}
      BY DEF OwnFiles
    <3>1. /\ t \in InFlight /\ c \in Carried(requests[t])
          /\ requests'[t].user = requests[t].user
      BY <1>1 DEF Onward
    <3>2. CASE t = r
      <4>1. c \in Blobs
        BY <3>1, <3>2, <1>2 DEF Carried, Request
      <4> QED
        BY <3>1, <3>2, <2>2, <4>1 DEF IInv, OwnFiles
    <3>3. CASE t # r
      <4>1. c # b
        BY <1>4, <3>1, <3>3 DEF IInv, OneUpload
      <4>2. c \in Blobs
        BY <3>1 DEF Carried, Request, IInv, TypeOK, InFlight
      <4> QED
        BY <3>1, <2>2, <4>1, <4>2 DEF IInv, OwnFiles
    <3> QED
      BY <3>2, <3>3
  <2>8. InsertsFirst'
    <3> SUFFICES ASSUME NEW t \in Requests, Uploading(t, "row")'
                 PROVE  LET c == requests'[t].blob
                        IN  /\ files'[c] = Null /\ store'[c] # Null
                            /\ \A u \in InFlight' :
                                 requests'[u].erasing[c] \in {"find", Null}
      BY DEF InsertsFirst
    <3>1. t # r /\ Uploading(t, "row") /\ requests'[t] = requests[t]
      BY <1>1 DEF Onward, Uploading
    <3>2. /\ requests[t].blob \in Blobs /\ t \in InFlight
          /\ requests[t].blob \in Carried(requests[t])
      BY <3>1, Inserting
    <3>3. requests[t].blob # b
      BY <1>4, <3>1, <3>2 DEF IInv, OneUpload
    <3> QED
      BY <1>1, <1>2, <1>e, <2>2, <3>1, <3>2, <3>3 DEF IInv, InsertsFirst, Onward
  <2>9. RowsGoFirst'
    <3> SUFFICES ASSUME NEW t \in InFlight', NEW c \in Blobs,
                        requests'[t].erasing[c] = "blob"
                 PROVE  files'[c] = Null
      BY DEF RowsGoFirst
    <3>1. t \in InFlight /\ requests[t].erasing[c] = "blob"
      BY <1>1, <1>e, NullIsNone DEF Onward, EraseSteps
    <3>2. c # b
      BY <1>2, <2>1, <3>1, NullIsNone DEF IInv, InsertsFirst, EraseSteps
    <3> QED
      BY <2>2, <3>1, <3>2 DEF IInv, RowsGoFirst
  <2>10. RowsHaveBlobs'
    BY <1>2, <2>1, <2>2 DEF IInv, RowsHaveBlobs
  <2>11. AttachedToOwn'
    <3>1. \A l \in links : l.file # b
      <4> SUFFICES ASSUME NEW l \in links, l.file = b PROVE FALSE
        OBVIOUS
      <4>1. files[b] = ownerOf[l.target] /\ l.target \in Targets
        BY DEF IInv, AttachedToOwn, TypeOK
      <4> QED
        BY <2>1, <4>1, UploadAssumption
    <3>2. \A u \in Profiled : avatar[u] # b
      BY <1>4, <2>1, UploadAssumption, NullIsNone DEF IInv, AttachedToOwn
    <3>3. avatar \in [Profiled -> Blobs \cup {Null}]
      BY DEF IInv, TypeOK
    <3> QED
      BY <1>2, <2>1, <2>2, <3>1, <3>2, <3>3 DEF IInv, AttachedToOwn
  <2>12. NoBlobForgotten'
    <3> SUFFICES ASSUME NEW c \in Blobs, store[c] # Null, files'[c] = Null, c \notin hit
                 PROVE  \/ \E t \in Requests : Uploading(t, "row")' /\ requests'[t].blob = c
                        \/ \E t \in InFlight' : requests'[t].erasing[c] = "blob"
      BY <1>2 DEF NoBlobForgotten
    <3>1. c # b /\ files[c] = Null
      BY <1>4, <2>2
    <3>2. CASE \E t \in InFlight : requests[t].erasing[c] = "blob"
      BY <1>3, <3>2, NullIsNone DEF Steady
    <3>3. CASE \E t \in Requests : Uploading(t, "row") /\ requests[t].blob = c
      BY <1>1, <3>1, <3>3 DEF Onward, Uploading
    <3> QED
      BY <3>1, <3>2, <3>3 DEF IInv, NoBlobForgotten
  <2>13. CleanUps'
    <3> SUFFICES ASSUME NEW t \in InFlight', NEW c \in Blobs, Over(requests'[t], c)
                 PROVE  files'[c] = Null \/ c \in hit
      BY <1>2 DEF CleanUps
    <3>1. Over(requests[t], c) /\ t \in InFlight
      BY <1>1, <1>2, NullIsNone DEF Onward, ForgetsNone, InFlight
    <3>2. c # b
      <4>1. CASE t = r
        BY <2>1, <3>1, <4>1 DEF Over, Uploading
      <4>2. CASE t # r
        BY <1>4, <3>1, <4>2 DEF IInv, OneUpload, Over
      <4> QED
        BY <4>1, <4>2
    <3> QED
      BY <2>2, <3>1, <3>2 DEF IInv, CleanUps
  <2> QED
    BY <1>1, <2>5, <2>6, <2>7, <2>8, <2>9, <2>10, <2>11, <2>12, <2>13 DEF IInv
<1>l. CASE Link(r)
  <2>1. /\ UNCHANGED files
        /\ Uploading(r, "link") /\ Linkable(q)
        /\ IF q.target = Avatar
           THEN /\ avatar' = [avatar EXCEPT ![q.user] = b]
                /\ UNCHANGED links
           ELSE /\ links' = links \cup {[file |-> b, target |-> q.target]}
                /\ UNCHANGED avatar
    BY <1>l DEF Link
  <2>2. /\ files[b] = q.user
        /\ q.target = Avatar \/ (q.target \in Targets /\ ownerOf[q.target] = q.user)
    BY <1>2, <1>4, <2>1
       DEF IInv, OwnFiles, AllSound, Sound, Linkable, Uploading, InFlight
  <2>5. TypeOK'
    <3>1. avatar' \in [Profiled -> Blobs \cup {Null}]
      BY <1>4, <2>1 DEF IInv, TypeOK
    <3>2. links' \subseteq [file : Blobs, target : Targets]
      BY <1>4, <2>1, <2>2 DEF IInv, TypeOK
    <3> QED
      BY <1>1, <1>2, <2>1, <3>1, <3>2 DEF IInv, TypeOK, Onward
  <2>6. Numbered'
    BY <1>1, <1>2, <1>e, <2>1 DEF IInv, Numbered, Onward
  <2>7. OwnFiles'
    BY <1>1, <2>1 DEF IInv, OwnFiles, Onward
  <2>8. InsertsFirst'
    <3> SUFFICES ASSUME NEW t \in Requests, Uploading(t, "row")'
                 PROVE  LET c == requests'[t].blob
                        IN  /\ files'[c] = Null /\ store'[c] # Null
                            /\ \A u \in InFlight' :
                                 requests'[u].erasing[c] \in {"find", Null}
      BY DEF InsertsFirst
    <3>1. t # r /\ Uploading(t, "row") /\ requests'[t] = requests[t]
      BY <1>1 DEF Onward, Uploading
    <3>2. requests[t].blob \in Blobs
      BY <3>1, Inserting
    <3> QED
      BY <1>1, <1>2, <1>e, <2>1, <3>1, <3>2 DEF IInv, InsertsFirst, Onward
  <2>9. RowsGoFirst'
    BY <1>1, <1>e, <2>1, NullIsNone DEF IInv, RowsGoFirst, Onward, EraseSteps
  <2>10. RowsHaveBlobs'
    BY <1>2, <2>1 DEF IInv, RowsHaveBlobs
  <2>11. AttachedToOwn'
    <3>1. CASE q.target = Avatar
      <4>1. avatar' \in [Profiled -> Blobs \cup {Null}] /\ avatar \in [Profiled -> Blobs \cup {Null}]
        BY <2>5 DEF IInv, TypeOK
      <4> QED
        BY <1>2, <2>1, <2>2, <3>1, <4>1 DEF IInv, AttachedToOwn
    <3>2. CASE q.target # Avatar
      BY <1>2, <1>4, <2>1, <2>2, <3>2 DEF IInv, AttachedToOwn, Linkable
    <3> QED
      BY <3>1, <3>2
  <2>12. NoBlobForgotten'
    <3> SUFFICES ASSUME NEW c \in Blobs, store[c] # Null, files[c] = Null, c \notin hit
                 PROVE  \/ \E t \in Requests : Uploading(t, "row")' /\ requests'[t].blob = c
                        \/ \E t \in InFlight' : requests'[t].erasing[c] = "blob"
      BY <1>2, <2>1 DEF NoBlobForgotten
    <3>2. CASE \E t \in InFlight : requests[t].erasing[c] = "blob"
      BY <1>3, <3>2, NullIsNone DEF Steady
    <3>3. CASE \E t \in Requests : Uploading(t, "row") /\ requests[t].blob = c
      BY <1>1, <2>1, <3>3 DEF Onward, Uploading
    <3> QED
      BY <3>2, <3>3 DEF IInv, NoBlobForgotten
  <2>13. CleanUps'
    <3> SUFFICES ASSUME NEW t \in InFlight', NEW c \in Blobs, Over(requests'[t], c)
                 PROVE  files[c] = Null \/ c \in hit
      BY <1>2, <2>1 DEF CleanUps
    <3>1. Over(requests[t], c) /\ t \in InFlight
      BY <1>1, <1>2, NullIsNone DEF Onward, ForgetsNone, InFlight
    <3> QED
      BY <3>1 DEF IInv, CleanUps
  <2> QED
    BY <1>1, <2>5, <2>6, <2>7, <2>8, <2>9, <2>10, <2>11, <2>12, <2>13 DEF IInv
<1> QED
  BY <1>w, <1>l DEF Writes

LEMMA GoesKeeps ==
  ASSUME IInv, NEW r \in InFlight, NEW s, NEW b, Goes(r, s, b)
  PROVE  IInv'
<1> DEFINE q == requests[r]
<1>1. Onward(r, s) /\ AllSound' /\ OneUpload'
  BY FollowsOnward DEF Goes
<1>2. /\ UNCHANGED <<users, targets, store, nextBlob, hit>>
      /\ b \in Blobs /\ s # Null
      /\ s.erasing[b] = Following[q.erasing[b]]
      /\ \A c \in Blobs : Over(s, c) => Over(q, c)
      /\ ~Uploading(r, "row")
      /\ r \in Requests /\ r \in InFlight'
  BY <1>1 DEF Goes, FindFile, DeleteRow, rows, WithoutFiles, Uploading,
              InFlight, Onward
<1>3. Steady(r, b)
  BY SteadyDeletions DEF Goes
\* The row of b, if it was there, is found or deleted.
<1>4. /\ \/ /\ q.erasing[b] = "find" /\ s.erasing[b] = "row"
            /\ files[b] # Null /\ UNCHANGED <<files, links, avatar>>
         \/ /\ q.erasing[b] = "row" /\ s.erasing[b] = "blob"
            /\ WithoutFiles({b})
      /\ files[b] # Null
  <2>1. q.user \in Users
    BY <1>2 DEF IInv, TypeOK, Request, InFlight
  <2> QED
    BY <1>2, <2>1, UploadAssumption
       DEF Goes, FindFile, DeleteRow, Erases, Following, rows
<1>f. /\ files' \in [Blobs -> Users \cup {Null}]
      /\ \A c \in Blobs : files'[c] \in {files[c], Null}
      /\ \A c \in Blobs \ {b} : files'[c] = files[c]
      /\ s.erasing[b] = "blob" => files'[b] = Null
      /\ s.erasing[b] # "blob" => files'[b] = files[b]
  BY <1>2, <1>4 DEF WithoutFiles, IInv, TypeOK
<1>5. TypeOK'
  BY <1>1, <1>2, <1>4, <1>f DEF IInv, TypeOK, Onward, WithoutFiles
<1>6. Numbered'
  BY <1>1, <1>2, <1>3, <1>4, <1>f DEF IInv, Numbered, Onward, Steady
<1>7. OwnFiles'
  <2> SUFFICES ASSUME NEW t \in InFlight', NEW c \in Carried(requests'[t])
               PROVE  files'[c] \in {requests'[t].user, Null}
    BY DEF OwnFiles
  <2>1. /\ t \in InFlight /\ c \in Carried(requests[t])
        /\ requests'[t].user = requests[t].user
    BY <1>1 DEF Onward
  <2>2. c \in Blobs
    BY <2>1 DEF Carried, Request, IInv, TypeOK, InFlight
  <2> QED
    BY <1>f, <2>1, <2>2 DEF IInv, OwnFiles
<1>8. InsertsFirst'
  <2> SUFFICES ASSUME NEW t \in Requests, Uploading(t, "row")'
               PROVE  LET c == requests'[t].blob
                      IN  /\ files'[c] = Null /\ store'[c] # Null
                          /\ \A u \in InFlight' :
                               requests'[u].erasing[c] \in {"find", Null}
    BY DEF InsertsFirst
  <2>1. t # r /\ Uploading(t, "row") /\ requests'[t] = requests[t]
    BY <1>1 DEF Onward, Uploading
  <2>2. requests[t].blob \in Blobs
    BY <2>1, Inserting
  <2>3. requests[t].blob # b
    BY <1>4, <2>1 DEF IInv, InsertsFirst
  <2>4. \A u \in InFlight' :
          requests'[u].erasing[requests[t].blob] \in {"find", Null}
    BY <1>1, <1>3, <2>1, <2>2, <2>3 DEF IInv, InsertsFirst, Onward, Steady
  <2> QED
    BY <1>2, <1>f, <2>1, <2>2, <2>4 DEF IInv, InsertsFirst
<1>9. RowsGoFirst'
  <2> SUFFICES ASSUME NEW t \in InFlight', NEW c \in Blobs,
                      requests'[t].erasing[c] = "blob"
               PROVE  files'[c] = Null
    BY DEF RowsGoFirst
  <2>1. CASE t = r /\ c = b
    BY <1>1, <1>f, <2>1 DEF Onward
  <2>2. CASE t # r \/ c # b
    <3>1. t \in InFlight /\ requests[t].erasing[c] = "blob"
      BY <1>1, <1>3, <2>2, NullIsNone DEF Onward, Steady, EraseSteps
    <3> QED
      BY <1>f, <3>1 DEF IInv, RowsGoFirst
  <2> QED
    BY <2>1, <2>2
<1>10. RowsHaveBlobs'
  BY <1>2, <1>f DEF IInv, RowsHaveBlobs
<1>11. AttachedToOwn'
  <2>1. CASE UNCHANGED <<files, links, avatar>>
    BY <1>2, <2>1 DEF IInv, AttachedToOwn
  <2>2. CASE WithoutFiles({b})
    <3>1. \A l \in links' : /\ l \in links /\ l.file # b
                            /\ files'[l.file] = ownerOf[l.target]
                            /\ l.file \in Blobs /\ l.target \in targets'
      BY <1>2, <1>f, <2>2 DEF IInv, AttachedToOwn, WithoutFiles
    <3>2. \A u \in Profiled : avatar'[u] # Null => files'[avatar'[u]] = u
      BY <1>f, <2>2 DEF IInv, AttachedToOwn, WithoutFiles, TypeOK
    <3> QED
      BY <3>1, <3>2 DEF AttachedToOwn
  <2> QED
    BY <1>4, <2>1, <2>2
<1>12. NoBlobForgotten'
  <2> SUFFICES ASSUME NEW c \in Blobs, store[c] # Null, files'[c] = Null, c \notin hit
               PROVE  \/ \E t \in Requests : Uploading(t, "row")' /\ requests'[t].blob = c
                      \/ \E t \in InFlight' : requests'[t].erasing[c] = "blob"
    BY <1>2 DEF NoBlobForgotten
  <2>1. CASE c = b
    BY <1>1, <1>2, <1>4, <1>f, <2>1 DEF Onward
  <2>2. CASE c # b
    <3>1. files[c] = Null
      BY <1>f, <2>2
    <3>2. CASE \E t \in InFlight : requests[t].erasing[c] = "blob"
      BY <1>3, <2>2, <3>2 DEF Steady
    <3>3. CASE \E t \in Requests : Uploading(t, "row") /\ requests[t].blob = c
      BY <1>1, <1>2, <3>3 DEF Onward, Uploading
    <3> QED
      BY <3>1, <3>2, <3>3 DEF IInv, NoBlobForgotten
  <2> QED
    BY <2>1, <2>2
<1>13. CleanUps'
  <2> SUFFICES ASSUME NEW t \in InFlight', NEW c \in Blobs, Over(requests'[t], c)
               PROVE  files'[c] = Null \/ c \in hit
    BY <1>2 DEF CleanUps
  <2>1. Over(requests[t], c) /\ t \in InFlight
    BY <1>1, <1>2 DEF Onward, InFlight
  <2> QED
    BY <1>f, <2>1 DEF IInv, CleanUps
<1> QED
  BY <1>1, <1>5, <1>6, <1>7, <1>8, <1>9, <1>10, <1>11, <1>12, <1>13 DEF IInv

\* An upload gets its blob.
LEMMA SendKeeps ==
  ASSUME IInv, NEW r \in InFlight, Send(r)
  PROVE  IInv'
<1> DEFINE q == requests[r]
           s == [q EXCEPT !.step = "row", !.blob = nextBlob]
           n == nextBlob
<1>1. /\ r \in Requests /\ q \in Request /\ q # Null
      /\ q.op = "upload" /\ q.step = "send"
      /\ n \in Blobs /\ n \in Nat /\ nextBlob' = n + 1
      /\ UNCHANGED <<users, targets, files, links, avatar, hit>>
      /\ requests' = [requests EXCEPT ![r] = s]
  BY NullIsNone DEF Send, Uploading, Become, rows, InFlight, IInv, TypeOK
<1>k. PICK kind \in Kinds : store' = [store EXCEPT ![n] = kind]
  BY DEF Send
<1>2. /\ s \in Request /\ s.op = "upload" /\ s.step = "row" /\ s.blob = n
      /\ s.done = q.done /\ s.user = q.user /\ s.erasing = q.erasing
      /\ s # Null
  <2>1. s \in Request
    BY <1>1 DEF Request, Steps
  <2> QED
    BY <1>1, <2>1, NullIsNone DEF Request
<1>3. /\ Sound(q) /\ q.blob = Null /\ q.erasing = Nothing
  BY <1>1 DEF IInv, AllSound, Sound
<1>4. /\ store[n] = Null /\ files[n] = Null
      /\ \A t \in InFlight : /\ n \notin Carried(requests[t])
                             /\ requests[t].erasing[n] = Null
  BY <1>1 DEF IInv, Numbered
<1> HIDE DEF s, n
<1>5. /\ requests' \in [Requests -> Request \cup {Null}]
      /\ requests'[r] = s
      /\ \A t \in Requests \ {r} : requests'[t] = requests[t]
      /\ InFlight' = InFlight
  BY <1>1, <1>2 DEF IInv, TypeOK, InFlight
<1>6. n \notin q.done /\ Carried(s) = Carried(q) \cup {n}
  <2>1. n \notin q.done
    BY <1>1, <1>4, NullIsNone DEF Carried
  <2> QED
    BY <1>1, <1>2, <1>3, <2>1, NullIsNone DEF Carried
<1>c. \A t \in InFlight : requests'[t].erasing = requests[t].erasing
  BY <1>2, <1>5 DEF InFlight
<1>7. Sound(s)
  BY <1>1, <1>2, <1>3, <1>6, NullIsNone DEF Sound
<1>8. /\ store' \in [Blobs -> Kinds \cup {Null}] /\ store'[n] # Null
      /\ \A c \in Blobs \ {n} : store'[c] = store[c]
  BY <1>1, <1>k, NullIsNone DEF IInv, TypeOK
<1>11. TypeOK'
  <2>1. nextBlob' \in 1 .. MaxBlobs + 1
    BY <1>1, UploadAssumption DEF Blobs
  <2> QED
    BY <1>1, <1>5, <1>8, <2>1 DEF IInv, TypeOK
<1>12. AllSound'
  <2> SUFFICES ASSUME NEW t \in InFlight' PROVE Sound(requests'[t])
    BY DEF AllSound
  <2> QED
    BY <1>5, <1>7 DEF IInv, AllSound, InFlight
<1>13. Numbered'
  <2>1. n < nextBlob' /\ \A c \in Blobs : c < nextBlob => c < nextBlob'
    BY <1>1, NullIsNone DEF n
  <2>2. \A c \in Blobs : store'[c] # Null \/ files'[c] # Null => c < nextBlob'
    BY <1>1, <1>8, <2>1 DEF IInv, Numbered
  <2>3. ASSUME NEW t \in InFlight', NEW c \in Blobs,
               c \in Carried(requests'[t]) \/ requests'[t].erasing[c] # Null
        PROVE  c < nextBlob'
    <3>1. CASE t = r
      BY <1>5, <1>2, <1>6, <2>1, <2>3, <3>1 DEF IInv, Numbered
    <3>2. CASE t # r
      BY <1>5, <2>1, <2>3, <3>2 DEF IInv, Numbered, InFlight
    <3> QED
      BY <3>1, <3>2
  <2> QED
    BY <2>2, <2>3 DEF Numbered
<1>14. OneUpload'
  <2> SUFFICES ASSUME NEW t \in InFlight', NEW u \in InFlight', t # u
               PROVE  Carried(requests'[t]) \cap Carried(requests'[u]) = {}
    BY DEF OneUpload
  <2>1. Carried(requests[t]) \cap Carried(requests[u]) = {}
    BY <1>5 DEF IInv, OneUpload
  <2>2. n \notin Carried(requests[t]) /\ n \notin Carried(requests[u])
    BY <1>4, <1>5
  <2>3. CASE t = r
    BY <1>5, <1>6, <2>1, <2>2, <2>3 DEF InFlight
  <2>4. CASE u = r
    BY <1>5, <1>6, <2>1, <2>2, <2>4 DEF InFlight
  <2>5. CASE t # r /\ u # r
    BY <1>5, <2>1, <2>5 DEF InFlight
  <2> QED
    BY <2>3, <2>4, <2>5
<1>15. OwnFiles'
  <2> SUFFICES ASSUME NEW t \in InFlight', NEW c \in Carried(requests'[t])
               PROVE  files[c] \in {requests'[t].user, Null}
    BY <1>1 DEF OwnFiles
  <2>1. CASE t = r
    BY <1>2, <1>4, <1>5, <1>6, <2>1 DEF IInv, OwnFiles
  <2>2. CASE t # r
    BY <1>5, <2>2 DEF IInv, OwnFiles, InFlight
  <2> QED
    BY <2>1, <2>2
<1>16. InsertsFirst'
  <2> SUFFICES ASSUME NEW t \in Requests, Uploading(t, "row")'
               PROVE  LET c == requests'[t].blob
                      IN  /\ files[c] = Null /\ store'[c] # Null
                          /\ \A u \in InFlight :
                               requests'[u].erasing[c] \in {"find", Null}
    BY <1>1, <1>5 DEF InsertsFirst
  <2>1. CASE t = r
    BY <1>2, <1>4, <1>5, <1>8, <1>c, <2>1
  <2>2. CASE t # r
    <3>1. Uploading(t, "row") /\ requests'[t] = requests[t]
      BY <1>5, <2>2 DEF Uploading
    <3>2. requests[t].blob \in Blobs
      BY <3>1, Inserting
    <3> QED
      BY <1>8, <1>c, <3>1, <3>2 DEF IInv, InsertsFirst
  <2> QED
    BY <2>1, <2>2
<1>17. RowsGoFirst'
  BY <1>1, <1>5, <1>c DEF IInv, RowsGoFirst
<1>18. RowsHaveBlobs' /\ AttachedToOwn'
  BY <1>1, <1>8 DEF IInv, RowsHaveBlobs, AttachedToOwn
<1>19. NoBlobForgotten'
  <2> SUFFICES ASSUME NEW c \in Blobs, store'[c] # Null, files[c] = Null, c \notin hit
               PROVE  \/ \E t \in Requests : Uploading(t, "row")' /\ requests'[t].blob = c
                      \/ \E t \in InFlight : requests'[t].erasing[c] = "blob"
    BY <1>1, <1>5 DEF NoBlobForgotten
  <2>1. CASE c = n
    BY <1>1, <1>2, <1>5, <2>1 DEF Uploading
  <2>2. CASE c # n
    <3>2. CASE \E t \in InFlight : requests[t].erasing[c] = "blob"
      BY <1>c, <3>2
    <3>3. CASE \E t \in Requests : Uploading(t, "row") /\ requests[t].blob = c
      <4>1. PICK t \in Requests : Uploading(t, "row") /\ requests[t].blob = c
        BY <3>3
      <4>2. t # r
        BY <1>1, <4>1 DEF Uploading
      <4> QED
        BY <1>5, <4>1, <4>2 DEF Uploading
    <3> QED
      BY <1>8, <2>2, <3>2, <3>3 DEF IInv, NoBlobForgotten
  <2> QED
    BY <2>1, <2>2
<1>20. CleanUps'
  <2> SUFFICES ASSUME NEW t \in InFlight', NEW c \in Blobs, Over(requests'[t], c)
               PROVE  files[c] = Null \/ c \in hit
    BY <1>1 DEF CleanUps
  <2>1. t # r
    BY <1>2, <1>5 DEF Over
  <2> QED
    BY <1>5, <2>1 DEF IInv, CleanUps, InFlight
<1> QED
  BY <1>11, <1>12, <1>13, <1>14, <1>15, <1>16, <1>17, <1>18, <1>19, <1>20 DEF IInv

LEMMA BeginsKeeps ==
  ASSUME IInv, NEW r \in Requests, NEW s, Begins(r, s)
  PROVE  IInv'
<1>1. /\ requests[r] = Null /\ requests' = [requests EXCEPT ![r] = s]
      /\ UNCHANGED <<users, targets, files, links, avatar, store, nextBlob, hit>>
      /\ s \in Request /\ Sound(s) /\ Carried(s) = {}
      /\ \A b \in Blobs : /\ s.erasing[b] \in {"find", Null}
                          /\ s.erasing[b] # Null => b < nextBlob
                          /\ ~Over(s, b)
  BY DEF Begins, Become, rows
<1>2. /\ requests' \in [Requests -> Request \cup {Null}]
      /\ requests'[r] = s /\ s # Null
      /\ \A t \in Requests \ {r} : requests'[t] = requests[t]
      /\ InFlight' = InFlight \cup {r} /\ r \notin InFlight
  BY <1>1, NullIsNone DEF IInv, TypeOK, InFlight
<1>3. ~(s.op = "upload" /\ s.step = "row")
  BY <1>1, NullIsNone DEF Carried, Sound
<1>4. \A t \in Requests : Uploading(t, "row")' <=> Uploading(t, "row")
  BY <1>1, <1>2, <1>3 DEF Uploading
<1>b. \A c \in Blobs : /\ requests'[r].erasing[c] \in {"find", Null}
                       /\ requests'[r].erasing[c] # Null => c < nextBlob
                       /\ ~Over(requests'[r], c)
                       /\ c \notin Carried(requests'[r])
  BY <1>1, <1>2
<1>o. \A t \in InFlight' : t # r => t \in InFlight /\ requests'[t] = requests[t]
  BY <1>2 DEF InFlight
<1>5. TypeOK'
  BY <1>1, <1>2 DEF IInv, TypeOK
<1>6. AllSound'
  <2> SUFFICES ASSUME NEW t \in InFlight' PROVE Sound(requests'[t])
    BY DEF AllSound
  <2> QED
    BY <1>1, <1>2 DEF IInv, AllSound, InFlight
<1>7. Numbered'
  <2>1. ASSUME NEW t \in InFlight', NEW c \in Blobs,
               c \in Carried(requests'[t]) \/ requests'[t].erasing[c] # Null
        PROVE  c < nextBlob
    <3>1. CASE t = r
      BY <1>b, <2>1, <3>1
    <3>2. CASE t # r
      BY <1>o, <2>1, <3>2 DEF IInv, Numbered
    <3> QED
      BY <3>1, <3>2
  <2> QED
    BY <1>1, <2>1 DEF IInv, Numbered
<1>8. OneUpload'
  <2> SUFFICES ASSUME NEW t \in InFlight', NEW u \in InFlight', t # u
               PROVE  Carried(requests'[t]) \cap Carried(requests'[u]) = {}
    BY DEF OneUpload
  <2>1. CASE t = r \/ u = r
    BY <1>1, <1>2, <2>1
  <2>2. CASE t # r /\ u # r
    BY <1>2, <2>2 DEF IInv, OneUpload, InFlight
  <2> QED
    BY <2>1, <2>2
<1>9. OwnFiles'
  <2> SUFFICES ASSUME NEW t \in InFlight', NEW c \in Carried(requests'[t])
               PROVE  files[c] \in {requests'[t].user, Null}
    BY <1>1 DEF OwnFiles
  <2> QED
    BY <1>1, <1>2 DEF IInv, OwnFiles, InFlight
<1>10. InsertsFirst'
  <2> SUFFICES ASSUME NEW t \in Requests, Uploading(t, "row"), NEW u \in InFlight'
               PROVE  requests'[u].erasing[requests[t].blob] \in {"find", Null}
    BY <1>1, <1>2, <1>3, <1>4 DEF InsertsFirst, IInv, Uploading
  <2>1. requests[t].blob \in Blobs
    BY Inserting
  <2>2. CASE u = r
    BY <1>b, <2>1, <2>2
  <2>3. CASE u # r
    BY <1>o, <2>3 DEF IInv, InsertsFirst
  <2> QED
    BY <2>2, <2>3
<1>11. RowsGoFirst' /\ CleanUps'
  <2> SUFFICES ASSUME NEW t \in InFlight', NEW c \in Blobs
               PROVE  /\ requests'[t].erasing[c] = "blob" => files[c] = Null
                      /\ Over(requests'[t], c) => files[c] = Null \/ c \in hit
    BY <1>1 DEF RowsGoFirst, CleanUps
  <2>1. CASE t = r
    BY <1>b, <2>1, NullIsNone DEF EraseSteps
  <2>2. CASE t # r
    BY <1>o, <2>2 DEF IInv, RowsGoFirst, CleanUps
  <2> QED
    BY <2>1, <2>2
<1>12. RowsHaveBlobs' /\ AttachedToOwn'
  BY <1>1 DEF IInv, RowsHaveBlobs, AttachedToOwn
<1>13. NoBlobForgotten'
  BY <1>1, <1>2, <1>4 DEF IInv, NoBlobForgotten, InFlight, Uploading
<1> QED
  BY <1>5, <1>6, <1>7, <1>8, <1>9, <1>10, <1>11, <1>12, <1>13 DEF IInv

\* The steps that are no request's, and the steps that change nothing.
LEMMA OthersKeep ==
  ASSUME IInv, \/ \E t \in Targets : RemoveTarget(t)
               \/ \E u \in Users : RemoveUser(u)
               \/ UNCHANGED vars
  PROVE  IInv'
<1> USE DEF IInv
<1>1. UNCHANGED <<store, nextBlob, requests>>
  BY DEF RemoveTarget, RemoveUser, vars
<1>2. /\ hit \subseteq hit' /\ hit' \subseteq Blobs
      /\ files' \in [Blobs -> Users \cup {Null}]
      /\ \A c \in Blobs : files'[c] \in {files[c], Null}
      /\ \A c \in Blobs : files'[c] = Null => files[c] = Null \/ c \in hit'
  BY DEF RemoveTarget, RemoveUser, vars, rows, TypeOK
<1>3. TypeOK'
  BY <1>1, <1>2 DEF RemoveTarget, RemoveUser, vars, rows, TypeOK
<1>4. AllSound' /\ OneUpload'
  BY <1>1 DEF AllSound, OneUpload, InFlight
<1>5. Numbered'
  BY <1>1, <1>2 DEF Numbered, InFlight
<1>6. OwnFiles'
  <2> SUFFICES ASSUME NEW t \in InFlight, NEW c \in Carried(requests[t])
               PROVE  files'[c] \in {requests[t].user, Null}
    BY <1>1 DEF OwnFiles, InFlight
  <2>1. c \in Blobs
    BY DEF Carried, Request, TypeOK, InFlight
  <2> QED
    BY <1>2, <2>1 DEF OwnFiles
<1>7. InsertsFirst'
  <2> SUFFICES ASSUME NEW t \in Requests, Uploading(t, "row")
               PROVE  files'[requests[t].blob] = Null
    BY <1>1 DEF InsertsFirst, InFlight, Uploading
  <2>1. requests[t].blob \in Blobs
    BY Inserting
  <2> QED
    BY <1>2, <2>1 DEF InsertsFirst
<1>8. RowsGoFirst' /\ CleanUps' /\ RowsHaveBlobs'
  BY <1>1, <1>2 DEF RowsGoFirst, CleanUps, RowsHaveBlobs, InFlight
<1>9. NoBlobForgotten'
  BY <1>1, <1>2 DEF NoBlobForgotten, InFlight, Uploading
<1>10. AttachedToOwn'
  <2>1. CASE \E t \in Targets : RemoveTarget(t)
    BY <2>1 DEF RemoveTarget, AttachedToOwn
  <2>2. ASSUME NEW u \in Users, RemoveUser(u)
        PROVE  AttachedToOwn'
    <3>1. /\ targets' = {t \in targets : ownerOf[t] # u}
          /\ files' = [b \in Blobs |-> IF files[b] = u THEN Null ELSE files[b]]
          /\ links' = {l \in links : ~(l.file \in Blobs /\ files[l.file] = u)
                                      /\ ownerOf[l.target] # u}
          /\ avatar' = [v \in Profiled |->
               IF v = u \/ (avatar[v] \in Blobs /\ files[avatar[v]] = u)
               THEN Null ELSE avatar[v]]
      BY <2>2 DEF RemoveUser
    <3>2. \A l \in links' : /\ files'[l.file] = ownerOf[l.target]
                            /\ l.file \in Blobs /\ l.target \in targets'
      BY <3>1 DEF AttachedToOwn
    <3>3. \A v \in Profiled : avatar'[v] # Null => files'[avatar'[v]] = v
      BY <3>1 DEF AttachedToOwn, TypeOK
    <3> QED
      BY <3>2, <3>3 DEF AttachedToOwn
  <2>3. CASE UNCHANGED vars
    BY <2>3 DEF vars, rows, AttachedToOwn
  <2> QED
    BY <2>1, <2>2, <2>3
<1> QED
  BY <1>3, <1>4, <1>5, <1>6, <1>7, <1>8, <1>9, <1>10

\* After a crash no request is left, and what was in hand counts as hit.
LEMMA CrashKeeps ==
  ASSUME IInv, Crash
  PROVE  IInv'
<1> USE DEF IInv
<1>1. /\ UNCHANGED <<users, targets, files, links, avatar, store, nextBlob>>
      /\ requests' = [r \in Requests |-> Null]
      /\ hit' = hit \cup UNION {InHand(requests[r]) :
                                   r \in {s \in Requests : requests[s] # Null}}
  BY DEF Crash, rows
<1>2. InFlight' = {} /\ \A r \in Requests : requests'[r] = Null
  BY <1>1 DEF InFlight
<1>3. hit \subseteq hit' /\ hit' \subseteq Blobs
  BY <1>1 DEF InHand, TypeOK
<1>4. TypeOK'
  BY <1>1, <1>3 DEF TypeOK
<1>5. /\ AllSound' /\ Numbered' /\ OneUpload' /\ OwnFiles'
      /\ InsertsFirst' /\ RowsGoFirst' /\ CleanUps'
  BY <1>1, <1>2
     DEF AllSound, Numbered, OneUpload, OwnFiles, InsertsFirst, RowsGoFirst,
         CleanUps, Uploading
<1>6. RowsHaveBlobs' /\ AttachedToOwn'
  BY <1>1 DEF RowsHaveBlobs, AttachedToOwn
<1>7. NoBlobForgotten'
  <2> SUFFICES ASSUME NEW c \in Blobs, store[c] # Null, files[c] = Null
               PROVE  c \in hit'
    BY <1>1 DEF NoBlobForgotten
  <2>1. \A r \in InFlight : c \in InHand(requests[r]) => c \in hit'
    BY <1>1 DEF InFlight
  <2>2. CASE \E r \in InFlight : requests[r].erasing[c] = "blob"
    BY <2>1, <2>2, NullIsNone DEF InHand, EraseSteps
  <2>3. CASE \E r \in Requests : Uploading(r, "row") /\ requests[r].blob = c
    BY <2>1, <2>3 DEF InHand, Uploading, InFlight
  <2> QED
    BY <1>3, <2>2, <2>3 DEF NoBlobForgotten
<1> QED
  BY <1>4, <1>5, <1>6, <1>7

LEMMA InitIInv == Init => IInv
<1> SUFFICES ASSUME Init PROVE IInv
  OBVIOUS
<1>1. /\ \A r \in Requests : requests[r] = Null
      /\ \A b \in Blobs : store[b] = Null /\ files[b] = Null
      /\ \A u \in Profiled : avatar[u] = Null
      /\ links = {}
  BY DEF Init, Nothing
<1>2. TypeOK
  BY UploadAssumption DEF Init, TypeOK, Nothing
<1> QED
  BY <1>1, <1>2
     DEF IInv, AllSound, Numbered, OneUpload, OwnFiles, InsertsFirst,
         RowsGoFirst, RowsHaveBlobs, NoBlobForgotten, AttachedToOwn, CleanUps,
         InFlight, Uploading

LEMMA StepIInv == IInv /\ [Next]_vars => IInv'
<1> SUFFICES ASSUME IInv, [Next]_vars PROVE IInv'
  OBVIOUS
<1>1. ASSUME NEW r \in Requests, BeginUpload(r) \/ BeginDelete(r)
      PROVE  IInv'
  BY <1>1, BeginKinds, BeginsKeeps
<1>2. ASSUME NEW r \in Requests, RequestStep(r)
      PROVE  IInv'
  <2>0. r \in InFlight
    BY <1>2 DEF RequestStep, RefuseSize, Send, SendFails, InsertRow,
                InsertRowFails, Look, Link, AttachFails, FindFile, DeleteRow,
                NoRow, RowFails, DeleteBlob, BlobFails, Uploading, Erases, InFlight
  <2>1. CASE Send(r)
    BY <2>0, <2>1, SendKeeps
  <2>2. CASE \/ RefuseSize(r) \/ SendFails(r) \/ InsertRow(r) \/ InsertRowFails(r)
             \/ Look(r) \/ Link(r) \/ AttachFails(r)
    BY <2>0, <2>2, UploadKinds, QuietKeeps, LosesBlobKeeps, WritesKeeps
  <2>3. ASSUME NEW b \in Blobs,
               \/ FindFile(r, b) \/ DeleteRow(r, b) \/ NoRow(r, b)
               \/ RowFails(r, b) \/ DeleteBlob(r, b) \/ BlobFails(r, b)
        PROVE  IInv'
    BY <2>0, <2>3, DeletionKinds, QuietKeeps, GoesKeeps, EndsBlobKeeps
  <2> QED
    BY <1>2, <2>1, <2>2, <2>3 DEF RequestStep
<1>3. CASE \/ \E t \in Targets : RemoveTarget(t)
           \/ \E u \in Users : RemoveUser(u)
           \/ UNCHANGED vars
  BY <1>3, OthersKeep
<1>4. CASE Crash
  BY <1>4, CrashKeeps
<1> QED
  BY <1>1, <1>2, <1>3, <1>4 DEF Next

\* What a request has in hand when it fails to leave a blob behind.
LEMMA NoOrphansFromIInv == IInv => NoOrphans
<1> SUFFICES ASSUME IInv, NEW b \in Blobs, store[b] # Null, files[b] = Null,
                    b \notin hit
             PROVE  \E r \in Requests : requests[r] # Null /\ b \in InHand(requests[r])
  BY DEF NoOrphans
<1>1. CASE \E r \in InFlight : requests[r].erasing[b] = "blob"
  BY <1>1, NullIsNone DEF InFlight, InHand, EraseSteps
<1>2. CASE \E r \in Requests : Uploading(r, "row") /\ requests[r].blob = b
  BY <1>2 DEF Uploading, InHand
<1> QED
  BY <1>1, <1>2 DEF IInv, NoBlobForgotten

\* The blobs of an upload that fails, in any step that ends it.
LEMMA FailureForgetsNothing ==
  ASSUME IInv, [Next]_vars, NEW r \in Requests, Fails(r),
         NEW c \in Carried(requests[r])
  PROVE  files'[c] = Null \/ c \in hit'
<1> DEFINE q == requests[r]
<1>1. /\ q # Null /\ requests'[r] = Null /\ Failing(q) /\ r \in InFlight
      /\ q \in Request
  BY DEF Fails, Failing, InFlight, IInv, TypeOK
<1>2. c \in Blobs /\ c # Null
  BY <1>1, NullIsNone DEF Carried, Request
<1>3. \A t \in Requests : \A s : Become(t, s) => t = r /\ s = Null
  BY <1>1 DEF Become, IInv, TypeOK
<1>4. /\ files[c] \in {q.user, Null}
      /\ Over(q, c) => files[c] = Null \/ c \in hit
  BY <1>1, <1>2 DEF IInv, OwnFiles, CleanUps
<1>5. ASSUME NEW b, NEW s, Become(r, s), Tidy(q, s, b), c # b,
             UNCHANGED files, hit \subseteq hit'
      PROVE  files'[c] = Null \/ c \in hit'
  BY <1>1, <1>2, <1>3, <1>4, <1>5 DEF Tidy, ForgetsNone
<1>6. ASSUME NEW t \in Requests, BeginUpload(t) \/ BeginDelete(t)
      PROVE  FALSE
  <2>1. PICK s : Begins(t, s)
    BY <1>6, BeginKinds
  <2> QED
    BY <1>1, <1>3, <2>1 DEF Begins
<1>7. ASSUME NEW t \in Requests, RequestStep(t)
      PROVE  files'[c] = Null \/ c \in hit'
  <2>1. CASE Send(t)
    <3>1. [requests[t] EXCEPT !.step = "row", !.blob = nextBlob] # Null
      <4>1. requests[t] \in Request /\ requests[t].op = "upload"
        BY <2>1 DEF Send, Uploading, IInv, TypeOK
      <4>2. [requests[t] EXCEPT !.step = "row", !.blob = nextBlob] \in Request
        BY <2>1, <4>1 DEF Send, Request, Steps
      <4> QED
        BY <4>2, NullIsNone
    <3> QED
      BY <1>3, <2>1, <3>1 DEF Send
  <2>2. CASE \/ RefuseSize(t) \/ SendFails(t) \/ InsertRow(t) \/ InsertRowFails(t)
             \/ Look(t) \/ Link(t) \/ AttachFails(t)
    <3>1. ASSUME NEW s, NEW b, Quiet(t, s, b)
          PROVE  files'[c] = Null \/ c \in hit'
      <4>1. t = r /\ UNCHANGED files /\ hit \subseteq hit'
        BY <1>3, <3>1 DEF Quiet, rows
      <4>2. CASE c # b
        BY <1>5, <3>1, <4>1, <4>2 DEF Quiet
      <4>3. CASE c = b
        BY <1>2, <1>4, <3>1, <4>1, <4>3 DEF Quiet
      <4> QED
        BY <4>2, <4>3
    <3>2. ASSUME NEW s, NEW kind, LosesBlob(t, s, kind)
          PROVE  files'[c] = Null \/ c \in hit'
      <4>1. t = r /\ UNCHANGED files /\ hit \subseteq hit'
        BY <1>3, <3>2 DEF LosesBlob, rows
      <4> QED
        BY <1>2, <1>5, <3>2, <4>1 DEF LosesBlob
    <3>3. ASSUME NEW s, Writes(t, s)
          PROVE  FALSE
      BY <1>1, <1>3, <3>3 DEF Writes, InsertRow, Link, Uploading, Failing
    <3> QED
      BY <2>2, <3>1, <3>2, <3>3, UploadKinds
  <2>3. ASSUME NEW b \in Blobs,
               \/ FindFile(t, b) \/ DeleteRow(t, b) \/ NoRow(t, b)
               \/ RowFails(t, b) \/ DeleteBlob(t, b) \/ BlobFails(t, b)
        PROVE  files'[c] = Null \/ c \in hit'
    <3>1. ASSUME NEW s, Quiet(t, s, b)
          PROVE  files'[c] = Null \/ c \in hit'
      <4>1. t = r /\ UNCHANGED files /\ hit \subseteq hit'
        BY <1>3, <3>1 DEF Quiet, rows
      <4>2. CASE c # b
        BY <1>5, <3>1, <4>1, <4>2 DEF Quiet
      <4>3. CASE c = b
        BY <1>2, <1>4, <3>1, <4>1, <4>3 DEF Quiet
      <4> QED
        BY <4>2, <4>3
    <3>2. ASSUME NEW s, Goes(t, s, b)
          PROVE  FALSE
      BY <1>3, <3>2 DEF Goes
    <3>3. ASSUME NEW s, EndsBlob(t, s, b)
          PROVE  files'[c] = Null \/ c \in hit'
      <4>1. t = r /\ UNCHANGED files /\ hit \subseteq hit'
        BY <1>3, <3>3 DEF EndsBlob, rows
      <4>2. CASE c # b
        BY <1>5, <3>3, <4>1, <4>2 DEF EndsBlob
      <4>3. CASE c = b
        BY <1>1, <3>3, <4>1, <4>3 DEF EndsBlob, IInv, RowsGoFirst
      <4> QED
        BY <4>2, <4>3
    <3> QED
      BY <2>3, <3>1, <3>2, <3>3, DeletionKinds
  <2> QED
    BY <1>7, <2>1, <2>2, <2>3 DEF RequestStep
<1>8. CASE \/ \E t \in Targets : RemoveTarget(t)
           \/ \E u \in Users : RemoveUser(u)
           \/ UNCHANGED vars
  BY <1>1, <1>8 DEF RemoveTarget, RemoveUser, vars
<1>9. CASE Crash
  <2>1. c \in InHand(q)
    BY <1>1, <1>2 DEF InHand, Carried, Failing
  <2> QED
    BY <1>1, <1>9, <2>1 DEF Crash
<1> QED
  BY <1>6, <1>7, <1>8, <1>9 DEF Next

-----------------------------------------------------------------------------
(* The theorems.                                                           *)

\* The inductive invariant holds in every reachable state.
THEOREM InvariantHolds == Spec => []IInv
<1>1. Init => IInv
  BY InitIInv
<1>2. IInv /\ [Next]_vars => IInv'
  BY StepIInv
<1> QED
  BY <1>1, <1>2, PTL DEF Spec

\* Every variable keeps its type: an upload under way always has a file left,
\* and no more blobs are stored than were given out.
THEOREM TypeCorrect == Spec => []TypeOK
<1>1. IInv => TypeOK
  BY DEF IInv
<1> QED
  BY <1>1, InvariantHolds, PTL

\* However uploads, deletions, faults and crashes interleave, a File row
\* names a blob that is there.
THEOREM RowsAlwaysHaveBlobs == Spec => []RowsHaveBlobs
<1>1. IInv => RowsHaveBlobs
  BY DEF IInv
<1> QED
  BY <1>1, InvariantHolds, PTL

\* A blob that no fault befell has a row, or a request that sees to it.
THEOREM NothingIsOrphaned == Spec => []NoOrphans
<1>1. IInv => NoOrphans
  BY NoOrphansFromIInv
<1> QED
  BY <1>1, InvariantHolds, PTL

\* A file is only ever attached to what its own user owns.
THEOREM AttachmentsAreOwn == Spec => []AttachedToOwn
<1>1. IInv => AttachedToOwn
  BY DEF IInv
<1> QED
  BY <1>1, InvariantHolds, PTL

-----------------------------------------------------------------------------
(* The tables and the media store together.                                *)

\* While a request ends, another one stands still, or goes with the process.
LEMMA OthersStand ==
  ASSUME IInv, Next, NEW r \in Requests, requests[r] # Null,
         requests'[r] = Null, NEW s \in Requests \ {r}
  PROVE  requests'[s] \in {requests[s], Null}
<1>1. ASSUME NEW t \in Requests, NEW q, Become(t, q)
      PROVE  requests'[s] \in {requests[s], Null}
  BY <1>1 DEF Become, IInv, TypeOK
<1>2. ASSUME NEW t \in Requests, BeginUpload(t) \/ BeginDelete(t)
      PROVE  \E q : Become(t, q)
  BY <1>2 DEF BeginUpload, BeginDelete
<1>3. ASSUME NEW t \in Requests, RequestStep(t)
      PROVE  \E q : Become(t, q)
  <2>1. CASE \/ RefuseSize(t) \/ Send(t) \/ SendFails(t) \/ InsertRow(t)
             \/ InsertRowFails(t)
    BY <2>1 DEF RefuseSize, Send, SendFails, InsertRow, InsertRowFails
  <2>2. CASE Look(t) \/ Link(t) \/ AttachFails(t)
    BY <2>2 DEF Look, Link, AttachFails
  <2>3. ASSUME NEW b \in Blobs, FindFile(t, b) \/ DeleteRow(t, b) \/ DeleteBlob(t, b)
        PROVE  \E q : Become(t, q)
    BY <2>3 DEF FindFile, DeleteRow, DeleteBlob, Advance
  <2>4. ASSUME NEW b \in Blobs, NoRow(t, b) \/ RowFails(t, b) \/ BlobFails(t, b)
        PROVE  \E q : Become(t, q)
    BY <2>4 DEF NoRow, RowFails, BlobFails
  <2> QED
    BY <1>3, <2>1, <2>2, <2>3, <2>4 DEF RequestStep
<1>4. CASE Crash
  BY <1>4 DEF Crash
<1>5. CASE \/ \E t \in Targets : RemoveTarget(t)
           \/ \E u \in Users : RemoveUser(u)
  BY <1>5 DEF RemoveTarget, RemoveUser
<1> QED
  BY <1>1, <1>2, <1>3, <1>4, <1>5 DEF Next

\* A bulk upload that ends with an error leaves none of its files, neither in the
\* tables nor in the media store, but those a fault befell and those that another
\* request is just deleting.
THEOREM BulksAreAllOrNothing == Spec => AllOrNothing
<1>1. IInv /\ IInv' /\ [Next]_vars =>
        [\A r \in Requests : Fails(r) =>
           \A b \in (requests[r].done \cup {requests[r].blob}) \ {Null} :
             \/ b \in hit'
             \/ /\ files'[b] = Null
                /\ \/ store'[b] = Null
                   \/ \E s \in Requests \ {r} :
                        requests'[s] # Null /\ requests'[s].erasing[b] = "blob"]_vars
  <2> SUFFICES ASSUME IInv, IInv', [Next]_vars, NEW r \in Requests, Fails(r),
                      NEW b \in (requests[r].done \cup {requests[r].blob}) \ {Null},
                      b \notin hit'
               PROVE  /\ files'[b] = Null
                      /\ \/ store'[b] = Null
                         \/ \E s \in Requests \ {r} :
                              requests'[s] # Null /\ requests'[s].erasing[b] = "blob"
    OBVIOUS
  <2>1. b \in Carried(requests[r]) /\ r \in InFlight
    BY DEF Carried, Fails, InFlight
  <2>2. b \in Blobs
    BY <2>1, NullIsNone DEF IInv, TypeOK, Request, Carried, InFlight
  <2>3. files'[b] = Null
    BY <2>1, FailureForgetsNothing
  <2>4. requests'[r] = Null /\ requests[r] # Null /\ Next
    BY DEF Fails, vars, rows
  <2>5. ASSUME NEW s \in Requests, Uploading(s, "row")', requests'[s].blob = b
        PROVE  FALSE
    <3>1. s # r /\ requests'[s] # Null
      BY <2>4, <2>5 DEF Uploading
    <3>2. requests'[s] = requests[s]
      BY <2>4, <3>1, OthersStand
    <3>3. s \in InFlight /\ b \in Carried(requests[s])
      BY <2>1, <2>5, <3>1, <3>2 DEF Uploading, InFlight, Carried
    <3> QED
      BY <2>1, <3>1, <3>3 DEF IInv, OneUpload
  <2>6. CASE store'[b] # Null
    <3>1. \E s \in InFlight' : requests'[s].erasing[b] = "blob"
      BY <2>2, <2>3, <2>5, <2>6 DEF IInv, NoBlobForgotten
    <3> QED
      BY <2>3, <2>4, <3>1 DEF InFlight
  <2> QED
    BY <2>3, <2>6
<1> QED
  BY <1>1, InvariantHolds, PTL DEF Spec, AllOrNothing
=============================================================================
