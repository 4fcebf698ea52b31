---------------------------- MODULE SessionProofs ----------------------------
(***************************************************************************)
(* Theorems about Session, for all accounts, browsers, requests and        *)
(* lifetimes: type correctness, no session without its user, no cookie     *)
(* that was never stored, and no retired token that comes back unless it   *)
(* was signed twice in one second.                                         *)
(***************************************************************************)
EXTENDS Session, TLAPS

-----------------------------------------------------------------------------
(* The inductive invariant.                                                *)

\* A request that is about to save has signed a token for its user.
SavesItsOwn ==
  \A r \in Requests : At(r, "find") \/ At(r, "write") =>
    requests[r].issued \in Jwt /\ requests[r].issued.user = requests[r].user

\* A row is found under the user its token was signed for.
RowsAreOwn == \A u \in Users : token[u] # Null => token[u].jwt.user = u

\* A token that a row holds or once held.
WasStored(jwt) == jwt \in retired \/ Holds(jwt.user, jwt)

\* Only a logout looks a row up and deletes it; any other request answers
\* with a token that has been saved.
AnswersAreStored ==
  \A r \in Requests :
    /\ At(r, "lookup") \/ At(r, "delete") => requests[r].op = "logout"
    /\ At(r, "profile") \/ At(r, "respond") =>
         \/ requests[r].op = "logout"
         \/ requests[r].issued # Null /\ WasStored(requests[r].issued)

IInv ==
  /\ TypeOK /\ SavesItsOwn /\ RowsAreOwn
  /\ SessionsHaveUsers /\ AnswersAreStored /\ CookieWasStored

-----------------------------------------------------------------------------
(* Type correctness.                                                       *)

LEMMA InitTypeOK == Init => TypeOK
BY SessionAssumption DEF Init, TypeOK, Seconds

\* What the steps that only move a request along leave well typed.
LEMMA BeginTypeOK ==
  ASSUME TypeOK, NEW r \in Requests,
         BeginRegister(r) \/ BeginLogin(r) \/ BeginRefresh(r) \/ BeginLogout(r)
  PROVE  TypeOK'
<1> USE DEF TypeOK, db, history
<1>1. ASSUME NEW op \in Ops, NEW step \in Steps, NEW u \in Users,
             NEW c \in Clients, NEW given \in Jwt \cup {Null},
             Start(r, op, step, u, c, given)
      PROVE  TypeOK'
  BY <1>1 DEF Start, Request
<1>2. CASE BeginRegister(r)
  BY <1>1, <1>2 DEF BeginRegister, Ops, Steps
<1>3. CASE BeginLogin(r)
  BY <1>1, <1>3 DEF BeginLogin, Ops, Steps
<1>4. CASE BeginRefresh(r)
  BY <1>1, <1>4 DEF BeginRefresh, Ops, Steps, Jwt
<1>5. CASE BeginLogout(r)
  BY <1>1, <1>5 DEF BeginLogout, Ops, Steps, Jwt
<1> QED
  BY <1>2, <1>3, <1>4, <1>5

\* A request in flight is one, and stays one at any other step.
LEMMA GoOnType ==
  ASSUME TypeOK, NEW r \in Requests, requests[r] # Null, NEW step \in Steps,
         GoOn(r, step)
  PROVE  requests' \in [Requests -> Request \cup {Null}]
BY DEF TypeOK, GoOn, Request

LEMMA SignTypeOK ==
  ASSUME TypeOK, NEW r \in Requests, requests[r] # Null, Sign(r, requests[r])
  PROVE  TypeOK'
<1>1. SignedJwt(requests[r]) \in Jwt
  BY DEF TypeOK, SignedJwt, Jwt, Request
<1> QED
  BY <1>1 DEF TypeOK, Sign, db, Request, Steps

LEMMA RequestTypeOK ==
  ASSUME TypeOK, SavesItsOwn, NEW r \in Requests, RequestStep(r)
  PROVE  TypeOK'
<1> USE DEF TypeOK, db, history, At
<1>a. requests[r] # Null
  BY DEF RequestStep, FindCandidate, InsertUser, SignRegistered,
         ComparePasswords, CheckToken, FindUser, FindToken, UpdateToken,
         CreateToken, FindProfile, LookUpToken, DeleteToken, Respond, Refuse,
         Refused, Drop
<1>b. requests[r] \in Request
  BY <1>a
<1>c. requests[r].client \in Clients
  BY <1>b DEF Request
<1>1. CASE FindCandidate(r) \/ CheckToken(r) \/ FindProfile(r)
  BY <1>a, <1>1, GoOnType DEF FindCandidate, CheckToken, FindProfile, Steps
<1>2. CASE InsertUser(r)
  BY <1>a, <1>2, GoOnType DEF InsertUser, Steps
<1>3. CASE SignRegistered(r) \/ ComparePasswords(r) \/ FindUser(r)
  BY <1>a, <1>3, SignTypeOK DEF SignRegistered, ComparePasswords, FindUser
<1>d. ASSUME NEW u \in Users
      PROVE  Lost(u) \subseteq Jwt /\ (token[u] # Null => token[u].id \in 1 .. MaxRows)
  BY DEF Lost, TokenRow
<1>e. ASSUME NEW step \in Steps, NEW n \in 0 .. MaxRows
      PROVE  [requests[r] EXCEPT !.step = step, !.found = n] \in Request
  BY <1>b DEF Request
<1>4. CASE FindToken(r)
  <2> DEFINE n == IF token[requests[r].user] = Null THEN 0
                  ELSE token[requests[r].user].id
  <2>1. n \in 0 .. MaxRows
    BY <1>b, <1>d, SessionAssumption DEF Request
  <2>2. requests' = [requests EXCEPT ![r] =
                       [@ EXCEPT !.step = "write", !.found = n]]
    BY <1>4 DEF FindToken
  <2>3. requests' \in [Requests -> Request \cup {Null}]
    BY <1>e, <2>1, <2>2 DEF Steps
  <2> QED
    BY <1>4, <2>3 DEF FindToken
<1>5. CASE UpdateToken(r)
  <2>a. requests[r].issued \in Jwt
    BY <1>5 DEF SavesItsOwn, UpdateToken
  <2>1. /\ token' \in [Users -> TokenRow \cup {Null}]
        /\ retired' \subseteq Jwt
        /\ AfterSave(requests[r]) \in Steps
    BY <1>b, <1>d, <1>5, <2>a
       DEF UpdateToken, Request, TokenRow, AfterSave, Steps, Saved
  <2> QED
    BY <1>a, <1>5, <2>1, GoOnType DEF UpdateToken
<1>6. CASE CreateToken(r)
  <2>a. requests[r].issued \in Jwt
    BY <1>6 DEF SavesItsOwn, CreateToken
  <2>1. /\ token' \in [Users -> TokenRow \cup {Null}]
        /\ nextRow' \in 1 .. MaxRows + 1
        /\ AfterSave(requests[r]) \in Steps
    BY <1>b, <1>6, <2>a, SessionAssumption
       DEF CreateToken, Request, TokenRow, AfterSave, Steps, Saved
  <2> QED
    BY <1>a, <1>6, <2>1, GoOnType DEF CreateToken
<1>7. CASE LookUpToken(r)
  <2> DEFINE n == token[requests[r].user].id
  <2>1. n \in 0 .. MaxRows
    BY <1>b, <1>d, <1>7, SessionAssumption DEF LookUpToken, Holds, Request
  <2>2. requests' = [requests EXCEPT ![r] =
                       [@ EXCEPT !.step = "delete", !.found = n]]
    BY <1>7 DEF LookUpToken
  <2>3. requests' \in [Requests -> Request \cup {Null}]
    BY <1>e, <2>1, <2>2 DEF Steps
  <2> QED
    BY <1>7, <2>3 DEF LookUpToken
<1>8. CASE DeleteToken(r)
  <2>1. Lost(requests[r].user) \subseteq Jwt
    BY <1>b, <1>d DEF Request
  <2> QED
    BY <1>a, <1>8, <2>1, GoOnType DEF DeleteToken, Steps
<1>9. CASE Respond(r)
  BY <1>b, <1>c, <1>9 DEF Respond, End, JarsAfterSuccess, Request
<1>10. CASE Refuse(r)
  BY <1>c, <1>10 DEF Refuse, End, JarsAfterError
<1>11. CASE Drop(r)
  BY <1>11 DEF Drop, End
<1> QED
  BY <1>1, <1>2, <1>3, <1>4, <1>5, <1>6, <1>7, <1>8, <1>9, <1>10, <1>11
     DEF RequestStep

LEMMA StepTypeOK == TypeOK /\ SavesItsOwn /\ [Next]_vars => TypeOK'
<1> SUFFICES ASSUME TypeOK, SavesItsOwn, [Next]_vars
             PROVE  TypeOK'
  OBVIOUS
<1>1. ASSUME NEW r \in Requests,
             \/ BeginRegister(r) \/ BeginLogin(r) \/ BeginRefresh(r)
             \/ BeginLogout(r) \/ RequestStep(r)
      PROVE  TypeOK'
  BY <1>1, BeginTypeOK, RequestTypeOK
<1>2. ASSUME NEW u \in Users, RemoveUser(u)
      PROVE  TypeOK'
  BY <1>2 DEF RemoveUser, TypeOK, TokenWithout, Lost, TokenRow
<1>3. CASE Crash \/ Tick \/ UNCHANGED vars
  BY <1>3, SessionAssumption
     DEF Crash, Tick, vars, db, history, TypeOK, Seconds
<1> QED
  BY <1>1, <1>2, <1>3 DEF Next

-----------------------------------------------------------------------------
(* What the steps do to the rows and to the tokens once stored.            *)

\* Only these steps write the rows.
LEMMA RowSteps ==
  ASSUME [Next]_vars
  PROVE  \/ \E r \in Requests : UpdateToken(r) \/ CreateToken(r) \/ DeleteToken(r)
         \/ \E u \in Users : RemoveUser(u)
         \/ UNCHANGED <<token, retired>>
BY DEF Next, vars, db, history, RequestStep, BeginRegister, BeginLogin,
       BeginRefresh, BeginLogout, Start, FindCandidate, InsertUser,
       SignRegistered, ComparePasswords, CheckToken, FindUser, Sign,
       FindToken, FindProfile, LookUpToken, Respond, Refuse, Drop, Crash, Tick

\* A stored token stays one that was stored.
LEMMA StoredStays ==
  ASSUME TypeOK, SavesItsOwn, [Next]_vars, NEW jwt \in Jwt, WasStored(jwt)
  PROVE  WasStored(jwt)'
<1> USE DEF WasStored, Holds, Lost, TypeOK, Jwt, db, history
<1>1. ASSUME NEW r \in Requests, UpdateToken(r)
      PROVE  WasStored(jwt)'
  <2> DEFINE u == requests[r].user
             saved == requests[r].issued
  <2>1. /\ u \in Users /\ token[u] # Null
        /\ token' = [token EXCEPT ![u] = [@ EXCEPT !.jwt = saved]]
        /\ retired' = retired \cup ({token[u].jwt} \ {saved})
    BY <1>1 DEF UpdateToken, At, Request, Saved
  <2>a. saved \in Jwt
    BY <1>1 DEF UpdateToken, SavesItsOwn
  <2>2. token'[u] # Null /\ token'[u].jwt = saved
    BY <2>1, <2>a, SessionAssumption DEF TokenRow
  <2>3. CASE jwt \in retired \/ jwt = token[u].jwt
    BY <2>1, <2>2, <2>3
  <2>4. CASE Holds(jwt.user, jwt) /\ jwt.user # u
    BY <2>1, <2>4
  <2> QED
    BY <2>3, <2>4
<1>2. ASSUME NEW r \in Requests, CreateToken(r)
      PROVE  WasStored(jwt)'
  BY <1>2 DEF CreateToken, Creatable, At, Request
<1>3. ASSUME NEW r \in Requests, DeleteToken(r)
      PROVE  WasStored(jwt)'
  BY <1>3 DEF DeleteToken, IsRow, At, Request
<1>4. ASSUME NEW u \in Users, RemoveUser(u)
      PROVE  WasStored(jwt)'
  BY <1>4 DEF RemoveUser, TokenWithout
<1>5. CASE UNCHANGED <<token, retired>>
  BY <1>5
<1> HIDE DEF Lost, TypeOK, Jwt, db, history
<1> QED
  BY <1>1, <1>2, <1>3, <1>4, <1>5, RowSteps

LEMMA RowsStayOwn ==
  ASSUME TypeOK, SavesItsOwn, RowsAreOwn, [Next]_vars
  PROVE  RowsAreOwn'
<1> USE DEF RowsAreOwn, TypeOK
<1>1. ASSUME NEW r \in Requests, UpdateToken(r)
      PROVE  RowsAreOwn'
  BY <1>1 DEF SavesItsOwn, UpdateToken, Saved, At, Request, TokenRow
<1>2. ASSUME NEW r \in Requests, CreateToken(r)
      PROVE  RowsAreOwn'
  BY <1>2 DEF SavesItsOwn, CreateToken, Saved, At, Request, TokenRow
<1>3. ASSUME NEW r \in Requests, DeleteToken(r)
      PROVE  RowsAreOwn'
  BY <1>3 DEF DeleteToken, At, Request
<1>4. ASSUME NEW u \in Users, RemoveUser(u)
      PROVE  RowsAreOwn'
  BY <1>4 DEF RemoveUser, TokenWithout
<1>5. CASE UNCHANGED <<token, retired>>
  BY <1>5
<1> HIDE DEF RowsAreOwn, TypeOK
<1> QED
  BY <1>1, <1>2, <1>3, <1>4, <1>5, RowSteps

\* No row appears without its user, none outlives it.
LEMMA SessionsKeepUsers ==
  ASSUME TypeOK, SessionsHaveUsers, [Next]_vars
  PROVE  SessionsHaveUsers'
<1> USE DEF SessionsHaveUsers, TypeOK, db
<1>1. ASSUME NEW r \in Requests, UpdateToken(r)
      PROVE  SessionsHaveUsers'
  BY <1>1 DEF UpdateToken, At, Request
<1>2. ASSUME NEW r \in Requests, CreateToken(r)
      PROVE  SessionsHaveUsers'
  BY <1>2 DEF CreateToken, Creatable, At, Request
<1>3. ASSUME NEW r \in Requests, DeleteToken(r)
      PROVE  SessionsHaveUsers'
  BY <1>3 DEF DeleteToken, At, Request
<1>4. ASSUME NEW u \in Users, RemoveUser(u)
      PROVE  SessionsHaveUsers'
  BY <1>4 DEF RemoveUser, TokenWithout
<1>5. ASSUME NEW r \in Requests, InsertUser(r)
      PROVE  SessionsHaveUsers'
  BY <1>5 DEF InsertUser, At, Request
<1>6. CASE UNCHANGED <<token, users>>
  BY <1>6
<1> HIDE DEF SessionsHaveUsers, TypeOK, db
<1>7. \/ \E r \in Requests : \/ UpdateToken(r) \/ CreateToken(r)
                            \/ DeleteToken(r) \/ InsertUser(r)
      \/ \E u \in Users : RemoveUser(u)
      \/ UNCHANGED <<token, users>>
  BY DEF Next, vars, db, RequestStep, BeginRegister, BeginLogin,
         BeginRefresh, BeginLogout, Start, FindCandidate, SignRegistered,
         ComparePasswords, CheckToken, FindUser, Sign, FindToken, FindProfile,
         LookUpToken, Respond, Refuse, Drop, Crash, Tick
<1> QED
  BY <1>1, <1>2, <1>3, <1>4, <1>5, <1>6, <1>7

-----------------------------------------------------------------------------
(* What the steps do to the requests and the cookies.                      *)

\* A step moves at most one request, and moves it in one of these ways.
LEMMA RequestSteps ==
  ASSUME TypeOK, [Next]_vars, NEW s \in Requests, requests'[s] # Null
  PROVE  \/ requests'[s] = requests[s]
         \/ BeginRegister(s) \/ BeginLogin(s) \/ BeginRefresh(s)
         \/ BeginLogout(s) \/ RequestStep(s)
<1> USE DEF TypeOK
<1>1. ASSUME NEW r \in Requests, r # s, RequestStep(r)
      PROVE  requests'[s] = requests[s]
  BY <1>1 DEF RequestStep, FindCandidate, InsertUser, SignRegistered, GoOn,
       ComparePasswords, CheckToken, FindUser, Sign, FindToken, UpdateToken,
       CreateToken, FindProfile, LookUpToken, DeleteToken, Respond, Refuse,
       Drop, End
<1>2. ASSUME NEW r \in Requests, r # s,
             \/ BeginRegister(r) \/ BeginLogin(r) \/ BeginRefresh(r)
             \/ BeginLogout(r)
      PROVE  requests'[s] = requests[s]
  BY <1>2 DEF BeginRegister, BeginLogin, BeginRefresh, BeginLogout, Start
<1>3. CASE (\E u \in Users : RemoveUser(u)) \/ Tick \/ UNCHANGED vars
  BY <1>3 DEF RemoveUser, Tick, vars
<1>4. CASE Crash
  BY <1>4 DEF Crash
<1> QED
  BY <1>1, <1>2, <1>3, <1>4 DEF Next

\* Signing gives the request the token it signs and leaves its user alone.
LEMMA SignIssues ==
  ASSUME TypeOK, NEW s \in Requests, NEW q \in Request, Sign(s, q)
  PROVE  /\ requests'[s].issued = SignedJwt(q)
         /\ requests'[s].user = q.user
<1>1. requests' = [requests EXCEPT ![s] =
        [q EXCEPT !.step = "find", !.issued = SignedJwt(q)]]
  BY DEF Sign
<1>2. requests'[s] = [q EXCEPT !.step = "find", !.issued = SignedJwt(q)]
  BY <1>1 DEF TypeOK
<1> HIDE DEF TypeOK
<1> QED
  BY <1>2 DEF Request

LEMMA SavesStayOwn ==
  ASSUME TypeOK, SavesItsOwn, [Next]_vars
  PROVE  SavesItsOwn'
<1> SUFFICES ASSUME NEW s \in Requests, (At(s, "find") \/ At(s, "write"))'
             PROVE  requests'[s].issued \in Jwt
                    /\ requests'[s].issued.user = requests'[s].user
  BY DEF SavesItsOwn
<1> USE DEF TypeOK, At
<1>1. CASE requests'[s] = requests[s]
  BY <1>1 DEF SavesItsOwn
<1>2. CASE \/ BeginRegister(s) \/ BeginLogin(s) \/ BeginRefresh(s)
           \/ BeginLogout(s)
  BY <1>2 DEF BeginRegister, BeginLogin, BeginRefresh, BeginLogout, Start
<1>3. CASE SignRegistered(s) \/ ComparePasswords(s) \/ FindUser(s)
  <2>1. requests[s] \in Request
    BY <1>3 DEF SignRegistered, ComparePasswords, FindUser
  <2>2. /\ SignedJwt(requests[s]) \in Jwt
        /\ SignedJwt(requests[s]).user = requests[s].user
    BY <2>1 DEF SignedJwt, Jwt, Request
  <2>3. Sign(s, requests[s])
    BY <1>3 DEF SignRegistered, ComparePasswords, FindUser
  <2>4. /\ requests'[s].issued = SignedJwt(requests[s])
        /\ requests'[s].user = requests[s].user
    BY <2>1, <2>3, SignIssues
  <2> QED
    BY <2>2, <2>4
<1>4. CASE FindToken(s)
  BY <1>4 DEF FindToken, SavesItsOwn, Request
<1>5. CASE \/ FindCandidate(s) \/ InsertUser(s) \/ CheckToken(s)
           \/ UpdateToken(s) \/ CreateToken(s) \/ FindProfile(s)
           \/ LookUpToken(s) \/ DeleteToken(s)
           \/ Respond(s) \/ Refuse(s) \/ Drop(s)
  BY <1>5 DEF FindCandidate, InsertUser, CheckToken, UpdateToken, CreateToken,
       FindProfile, LookUpToken, DeleteToken, Respond, Refuse, Drop, GoOn, End,
       AfterSave, Request
<1>6. requests'[s] # Null
  OBVIOUS
<1> HIDE DEF TypeOK, At
<1>7. \/ requests'[s] = requests[s]
      \/ BeginRegister(s) \/ BeginLogin(s) \/ BeginRefresh(s)
      \/ BeginLogout(s) \/ RequestStep(s)
  BY <1>6, RequestSteps
<1> QED
  BY <1>1, <1>2, <1>3, <1>4, <1>5, <1>7 DEF RequestStep

LEMMA AnswersStayStored ==
  ASSUME TypeOK, SavesItsOwn, AnswersAreStored, [Next]_vars
  PROVE  AnswersAreStored'
<1> SUFFICES ASSUME NEW s \in Requests, requests'[s] # Null
    PROVE
    /\ (At(s, "lookup") \/ At(s, "delete"))' => requests'[s].op = "logout"
    /\ (At(s, "profile") \/ At(s, "respond"))' =>
         \/ requests'[s].op = "logout"
         \/ requests'[s].issued # Null /\ WasStored(requests[s].issued)'
  BY DEF AnswersAreStored, At
<1> USE DEF At
<1>1. CASE requests'[s] = requests[s]
  <2>1. requests[s].issued # Null => requests[s].issued \in Jwt
    BY <1>1 DEF TypeOK, Request
  <2> QED
    BY <1>1, <2>1, StoredStays DEF AnswersAreStored
<1>2. CASE \/ BeginRegister(s) \/ BeginLogin(s) \/ BeginRefresh(s)
           \/ BeginLogout(s)
  BY <1>2 DEF BeginRegister, BeginLogin, BeginRefresh, BeginLogout, Start, TypeOK
<1>3. CASE UpdateToken(s) \/ CreateToken(s)
  <2>1. requests[s].issued \in Jwt /\ requests[s].issued.user = requests[s].user
    BY <1>3 DEF UpdateToken, CreateToken, SavesItsOwn
  <2>2. requests[s].user \in Users
    BY <1>3 DEF UpdateToken, CreateToken, TypeOK, Request
  <2>3. /\ token'[requests[s].user] # Null
        /\ token'[requests[s].user].jwt = requests[s].issued
    BY <1>3, <2>1, <2>2, SessionAssumption
       DEF UpdateToken, CreateToken, Saved, TypeOK, TokenRow
  <2>4. /\ requests'[s].issued = requests[s].issued
        /\ requests'[s].step \in {"profile", "respond"}
    BY <1>3 DEF UpdateToken, CreateToken, GoOn, AfterSave, TypeOK, Request
  <2> QED
    BY <2>1, <2>3, <2>4, SessionAssumption DEF WasStored, Holds, Jwt
<1>4. CASE FindProfile(s)
  <2>1. requests[s].issued # Null => requests[s].issued \in Jwt
    BY <1>4 DEF FindProfile, TypeOK, Request
  <2>2. /\ requests'[s].issued = requests[s].issued
        /\ requests'[s].op = requests[s].op
        /\ requests'[s].step = "respond"
    BY <1>4 DEF FindProfile, GoOn, TypeOK, Request
  <2> QED
    BY <1>4, <2>1, <2>2, StoredStays DEF FindProfile, AnswersAreStored
<1>5. CASE LookUpToken(s) \/ DeleteToken(s)
  <2>1. requests[s] \in Request /\ requests[s].op = "logout"
    BY <1>5 DEF LookUpToken, DeleteToken, AnswersAreStored, TypeOK
  <2>2. requests'[s].op = requests[s].op
    BY <1>5, <2>1 DEF LookUpToken, DeleteToken, GoOn, TypeOK, Request
  <2> QED
    BY <2>1, <2>2
<1>6. CASE \/ FindCandidate(s) \/ InsertUser(s) \/ CheckToken(s) \/ FindToken(s)
  BY <1>6 DEF FindCandidate, InsertUser, CheckToken, FindToken, GoOn, TypeOK,
              Request
<1>7. CASE SignRegistered(s) \/ ComparePasswords(s) \/ FindUser(s)
  <2>1. requests'[s].step = "find"
    BY <1>7 DEF SignRegistered, ComparePasswords, FindUser, Sign, TypeOK, Request
  <2> QED
    BY <2>1
<1>8. CASE Respond(s) \/ Refuse(s) \/ Drop(s)
  BY <1>8 DEF Respond, Refuse, Drop, End, TypeOK
<1> HIDE DEF At
<1>9. \/ requests'[s] = requests[s]
      \/ BeginRegister(s) \/ BeginLogin(s) \/ BeginRefresh(s)
      \/ BeginLogout(s) \/ RequestStep(s)
  BY RequestSteps
<1> QED
  BY <1>1, <1>2, <1>3, <1>4, <1>5, <1>6, <1>7, <1>8, <1>9 DEF RequestStep

\* A browser gets a token only from an answer.
LEMMA CookiesStayStored ==
  ASSUME TypeOK, SavesItsOwn, AnswersAreStored, CookieWasStored, [Next]_vars
  PROVE  CookieWasStored'
<1>a. TypeOK'
  BY StepTypeOK
<1> SUFFICES ASSUME NEW c \in Clients, NEW jwt \in Jwt, cookie'[c] = jwt
             PROVE  WasStored(jwt)'
  BY <1>a DEF CookieWasStored, WasStored, Holds, TypeOK
<1>1. CASE cookie'[c] = cookie[c]
  <2>1. WasStored(jwt)
    BY <1>1, SessionAssumption DEF CookieWasStored, WasStored, Holds
  <2> QED
    BY <2>1, StoredStays
<1>2. ASSUME NEW r \in Requests, Respond(r), cookie'[c] # cookie[c]
      PROVE  WasStored(jwt)'
  <2>1. /\ requests[r].op # "logout" /\ jwt = requests[r].issued
    BY <1>2, SessionAssumption
       DEF Respond, JarsAfterSuccess, At, TypeOK
  <2>2. WasStored(jwt)
    BY <1>2, <2>1 DEF Respond, AnswersAreStored
  <2> QED
    BY <2>2, StoredStays
<1>3. ASSUME NEW r \in Requests, Refuse(r)
      PROVE  cookie'[c] = cookie[c]
  BY <1>3, SessionAssumption DEF Refuse, JarsAfterError, TypeOK
<1>4. \/ cookie'[c] = cookie[c]
      \/ \E r \in Requests : Respond(r) \/ Refuse(r)
  BY DEF Next, vars, db, history, RequestStep, BeginRegister, BeginLogin,
       BeginRefresh, BeginLogout, Start, FindCandidate, InsertUser,
       SignRegistered, ComparePasswords, CheckToken, FindUser, Sign,
       FindToken, UpdateToken, CreateToken, DeleteToken, FindProfile,
       LookUpToken, Drop, Crash, Tick, RemoveUser
<1> QED
  BY <1>1, <1>2, <1>3, <1>4

-----------------------------------------------------------------------------

LEMMA InitIInv == Init => IInv
BY InitTypeOK DEF Init, IInv, SavesItsOwn, RowsAreOwn, SessionsHaveUsers,
                  AnswersAreStored, CookieWasStored, At

LEMMA StepIInv == IInv /\ [Next]_vars => IInv'
BY StepTypeOK, SavesStayOwn, RowsStayOwn, SessionsKeepUsers,
   AnswersStayStored, CookiesStayStored DEF IInv

\* The inductive invariant holds in every reachable state.
THEOREM InvariantHolds == Spec => []IInv
BY InitIInv, StepIInv, PTL DEF Spec

\* Every reachable state is well typed: in particular what a request saves is
\* a token, and every id it looks up one that a row may have.
THEOREM TypeCorrect == Spec => []TypeOK
BY InvariantHolds, PTL DEF IInv

\* No Token row without its user, whatever was under way when the user was
\* deleted (TokensService.save, Token.user onDelete: Cascade).
THEOREM SessionsAlwaysHaveUsers == Spec => []SessionsHaveUsers
BY InvariantHolds, PTL DEF IInv

\* A browser only holds refresh tokens that were stored (AuthService.auth and
\* setCookie, after TokensService.save).
THEOREM CookiesWereStored == Spec => []CookieWasStored
BY InvariantHolds, PTL DEF IInv

-----------------------------------------------------------------------------
(* Rotation.                                                               *)

\* Whose token is signed and not yet saved.
Saving(r) == At(r, "find") \/ At(r, "write")

\* A token on its way to a row that was signed once is fresh: no row holds
\* or held it, and no other request saves it.
FreshInv ==
  /\ retired \subseteq signed
  /\ \A u \in Users : token[u] # Null => token[u].jwt \in signed
  /\ \A r \in Requests : Saving(r) =>
       /\ requests[r].issued \in signed
       /\ requests[r].issued \notin twice =>
            /\ requests[r].issued \notin retired
            /\ \A u \in Users : token[u] # Null =>
                 token[u].jwt # requests[r].issued
            /\ \A s \in Requests \ {r} :
                 Saving(s) => requests[s].issued # requests[r].issued

RotationInv == FreshInv /\ RetiredStaysRetired

\* A token that was signed before is one signed twice; any other is new to
\* the rows, to what they lost and to the requests that save.
LEMMA SignKeepsRotation ==
  ASSUME TypeOK, RotationInv, NEW r \in Requests,
         requests[r] # Null, Sign(r, requests[r])
  PROVE  RotationInv'
<1> DEFINE jwt == SignedJwt(requests[r])
<1>1. /\ signed' = signed \cup {jwt}
      /\ twice' = twice \cup (signed \cap {jwt})
      /\ UNCHANGED <<token, retired>>
      /\ requests'[r].issued = jwt
      /\ \A s \in Requests \ {r} : requests'[s] = requests[s]
  BY DEF Sign, TypeOK, Request, db
<1> HIDE DEF jwt
<1>2. ASSUME NEW s \in Requests, Saving(s)', requests'[s].issued \notin twice'
      PROVE  /\ requests'[s].issued \notin retired'
             /\ \A u \in Users : token'[u] # Null =>
                  token'[u].jwt # requests'[s].issued
             /\ \A o \in Requests \ {s} :
                  Saving(o)' => requests'[o].issued # requests'[s].issued
  <2>1. CASE s = r
    <3>1. jwt \notin signed
      BY <1>1, <1>2, <2>1
    <3> QED
      BY <1>1, <2>1, <3>1 DEF RotationInv, FreshInv, Saving, At
  <2>2. CASE s # r
    <3>1. Saving(s) /\ requests'[s] = requests[s]
      BY <1>1, <1>2, <2>2 DEF Saving, At
    <3>2. requests[s].issued \in signed /\ requests[s].issued \notin twice
      BY <1>1, <1>2, <3>1 DEF RotationInv, FreshInv
    <3>3. requests[s].issued # jwt
      BY <1>1, <1>2, <3>1, <3>2
    <3> QED
      BY <1>1, <2>2, <3>1, <3>2, <3>3 DEF RotationInv, FreshInv, Saving, At
  <2> QED
    BY <2>1, <2>2
<1>3. \A s \in Requests : Saving(s)' => requests'[s].issued \in signed'
  BY <1>1 DEF RotationInv, FreshInv, Saving, At
<1>4. FreshInv'
  BY <1>1, <1>2, <1>3 DEF RotationInv, FreshInv
<1> QED
  BY <1>1, <1>4 DEF RotationInv, RetiredStaysRetired

\* A save takes a token from a request to a row and may retire the row's.
LEMMA SaveKeepsRotation ==
  ASSUME TypeOK, SavesItsOwn, RowsAreOwn, RotationInv, NEW r \in Requests,
         UpdateToken(r) \/ CreateToken(r)
  PROVE  RotationInv'
<1> DEFINE u == requests[r].user
           jwt == requests[r].issued
<1>1. requests[r] \in Request /\ u \in Users /\ jwt \in Jwt /\ Saving(r)
  BY DEF UpdateToken, CreateToken, SavesItsOwn, Saving, At, TypeOK, Request
<1>2. /\ token'[u] # Null /\ token'[u].jwt = jwt
      /\ \A v \in Users \ {u} : token'[v] = token[v]
  BY <1>1, SessionAssumption
     DEF UpdateToken, CreateToken, Saved, TypeOK, TokenRow
<1>3. /\ retired' \subseteq retired \cup (Lost(u) \ {jwt})
      /\ retired \subseteq retired' /\ UNCHANGED <<signed, twice>>
  BY DEF UpdateToken, CreateToken, Saved, history
<1>4. /\ requests'[r].step \in {"profile", "respond"}
      /\ \A s \in Requests \ {r} : requests'[s] = requests[s]
  BY <1>1 DEF UpdateToken, CreateToken, GoOn, AfterSave, TypeOK, Request
<1>5. \A v \in Lost(u) : v \in signed /\ \A s \in Requests :
        Saving(s) /\ requests[s].issued \notin twice => requests[s].issued # v
  BY <1>1 DEF Lost, RotationInv, FreshInv
<1>6. FreshInv'
  <2>1. (retired \subseteq signed)'
    BY <1>3, <1>5 DEF RotationInv, FreshInv
  <2>2. (\A v \in Users : token[v] # Null => token[v].jwt \in signed)'
    BY <1>1, <1>2, <1>3 DEF RotationInv, FreshInv
  <2>3. ASSUME NEW s \in Requests, Saving(s)'
        PROVE  s # r /\ Saving(s) /\ requests'[s] = requests[s]
    BY <1>4, <2>3 DEF Saving, At
  <2>4. \A s \in Requests : Saving(s)' => requests'[s].issued \in signed'
    BY <1>3, <2>3 DEF RotationInv, FreshInv
  <2>5. ASSUME NEW s \in Requests, Saving(s)', requests'[s].issued \notin twice'
        PROVE  /\ requests'[s].issued \notin retired'
               /\ \A v \in Users : token'[v] # Null =>
                    token'[v].jwt # requests'[s].issued
               /\ \A o \in Requests \ {s} :
                    Saving(o)' => requests'[o].issued # requests'[s].issued
    BY <1>1, <1>2, <1>3, <1>5, <2>3, <2>5 DEF RotationInv, FreshInv
  <2> QED
    BY <2>1, <2>2, <2>4, <2>5 DEF FreshInv
<1>7. RetiredStaysRetired'
  <2>1. jwt \in retired' => jwt \in twice
    BY <1>1, <1>3 DEF RotationInv, FreshInv
  <2>2. ASSUME NEW v \in Users \ {u}, token[v] # Null, token[v].jwt \in retired'
        PROVE  token[v].jwt \in twice
    BY <1>1, <1>3, <2>2 DEF RotationInv, RetiredStaysRetired, RowsAreOwn, Lost
  <2> QED
    BY <1>2, <1>3, <2>1, <2>2 DEF RetiredStaysRetired
<1> QED
  BY <1>6, <1>7 DEF RotationInv

\* A row that goes retires its token.
LEMMA LossKeepsRotation ==
  ASSUME TypeOK, RowsAreOwn, RotationInv, NEW u \in Users,
         token' = [token EXCEPT ![u] = Null], retired' = retired \cup Lost(u),
         UNCHANGED <<signed, twice>>,
         \A r \in Requests : Saving(r)' => requests'[r] = requests[r]
  PROVE  RotationInv'
<1>1. \A v \in Lost(u) : v \in signed /\ \A s \in Requests :
        Saving(s) /\ requests[s].issued \notin twice => requests[s].issued # v
  BY DEF Lost, RotationInv, FreshInv
<1>2. token'[u] = Null /\ \A v \in Users \ {u} : token'[v] = token[v]
  BY DEF TypeOK
<1>3. \A r \in Requests : Saving(r)' => Saving(r)
  BY DEF Saving, At
<1>4. FreshInv'
  BY <1>1, <1>2, <1>3 DEF RotationInv, FreshInv
<1>5. ASSUME NEW v \in Users, token'[v] # Null, token'[v].jwt \in retired'
      PROVE  token'[v].jwt \in twice'
  BY <1>2, <1>5 DEF RotationInv, RetiredStaysRetired, RowsAreOwn, Lost
<1> QED
  BY <1>4, <1>5 DEF RotationInv, RetiredStaysRetired

\* The steps that sign and save nothing.
LEMMA OthersKeepRotation ==
  ASSUME RotationInv, UNCHANGED <<signed, twice, token, retired>>,
         \A r \in Requests : Saving(r)' =>
           Saving(r) /\ requests'[r].issued = requests[r].issued
  PROVE  RotationInv'
BY DEF RotationInv, FreshInv, RetiredStaysRetired

LEMMA StepRotation ==
  IInv /\ RotationInv /\ [Next]_vars => RotationInv'
<1> SUFFICES ASSUME IInv, RotationInv, [Next]_vars
             PROVE  RotationInv'
  OBVIOUS
<1>a. TypeOK /\ SavesItsOwn /\ RowsAreOwn
  BY DEF IInv
<1>1. ASSUME NEW r \in Requests,
             SignRegistered(r) \/ ComparePasswords(r) \/ FindUser(r)
      PROVE  RotationInv'
  BY <1>1, <1>a, SignKeepsRotation
     DEF SignRegistered, ComparePasswords, FindUser, At
<1>2. ASSUME NEW r \in Requests, UpdateToken(r) \/ CreateToken(r)
      PROVE  RotationInv'
  BY <1>2, <1>a, SaveKeepsRotation
<1>3. ASSUME NEW r \in Requests, DeleteToken(r)
      PROVE  RotationInv'
  <2>1. requests[r].user \in Users
    BY <1>3, <1>a DEF DeleteToken, At, TypeOK, Request
  <2>2. \A s \in Requests : Saving(s)' => requests'[s] = requests[s]
    BY <1>3, <1>a DEF DeleteToken, GoOn, Saving, At, TypeOK, Request
  <2> QED
    BY <1>3, <1>a, <2>1, <2>2, LossKeepsRotation DEF DeleteToken
<1>4. ASSUME NEW u \in Users, RemoveUser(u)
      PROVE  RotationInv'
  BY <1>4, <1>a, LossKeepsRotation DEF RemoveUser, TokenWithout
<1>5. ASSUME NEW r \in Requests,
             \/ BeginRegister(r) \/ BeginLogin(r) \/ BeginRefresh(r)
             \/ BeginLogout(r)
      PROVE  RotationInv'
  <2>1. /\ UNCHANGED <<signed, twice, token, retired>>
        /\ requests'[r].step \notin {"find", "write"}
        /\ \A s \in Requests \ {r} : requests'[s] = requests[s]
    BY <1>5, <1>a DEF BeginRegister, BeginLogin, BeginRefresh, BeginLogout,
                      Start, TypeOK, db, history
  <2> QED
    BY <2>1, OthersKeepRotation DEF Saving, At
<1>6. ASSUME NEW r \in Requests,
             \/ FindCandidate(r) \/ InsertUser(r) \/ CheckToken(r)
             \/ FindProfile(r) \/ LookUpToken(r)
             \/ Respond(r) \/ Refuse(r) \/ Drop(r)
      PROVE  RotationInv'
  <2>1. /\ UNCHANGED <<signed, twice, token, retired>>
        /\ requests'[r] = Null \/ requests'[r].step \notin {"find", "write"}
        /\ \A s \in Requests \ {r} : requests'[s] = requests[s]
    BY <1>6, <1>a DEF FindCandidate, InsertUser, CheckToken, FindProfile,
                      LookUpToken, Respond, Refuse, Drop, GoOn, End, At,
                      TypeOK, Request, db, history
  <2> QED
    BY <2>1, OthersKeepRotation DEF Saving, At
<1>7. ASSUME NEW r \in Requests, FindToken(r)
      PROVE  RotationInv'
  <2>1. /\ UNCHANGED <<signed, twice, token, retired>>
        /\ Saving(r) /\ requests'[r].issued = requests[r].issued
        /\ \A s \in Requests \ {r} : requests'[s] = requests[s]
    BY <1>7, <1>a DEF FindToken, Saving, At, TypeOK, Request, db, history
  <2> QED
    BY <2>1, OthersKeepRotation DEF Saving, At
<1>8. CASE Crash
  <2>1. UNCHANGED <<signed, twice, token, retired>> /\ \A s \in Requests : ~Saving(s)'
    BY <1>8 DEF Crash, Saving, At, db, history
  <2> QED
    BY <2>1, OthersKeepRotation
<1>9. CASE Tick \/ UNCHANGED vars
  BY <1>9 DEF Tick, vars, db, history, RotationInv, FreshInv,
              RetiredStaysRetired, Saving, At
<1> QED
  BY <1>1, <1>2, <1>3, <1>4, <1>5, <1>6, <1>7, <1>8, <1>9
     DEF Next, RequestStep

\* A refresh token that was replaced or logged out is never stored again
\* (TokensService.save, refresh, remove), in whatever order the requests in
\* flight write, unless it is one that was signed twice in one second.
THEOREM RetiredForGood == Spec => []RetiredStaysRetired
<1>1. Init => RotationInv
  BY DEF Init, RotationInv, FreshInv, RetiredStaysRetired, Saving, At
<1>2. IInv /\ RotationInv /\ [Next]_vars => RotationInv'
  BY StepRotation
<1>3. RotationInv => RetiredStaysRetired
  BY DEF RotationInv
<1> QED
  BY <1>1, <1>2, <1>3, InvariantHolds, PTL DEF Spec
=============================================================================
