------------------------------- MODULE Session -------------------------------
(***************************************************************************)
(* Accounts and sessions: AuthService, TokensService and the parts of      *)
(* UsersService they call.  A user has at most one Token row, which holds  *)
(* the refresh token of the last login or refresh; a browser holds one in  *)
(* its cookie.  Each `await` on the database is a step of the request that *)
(* runs it.  A refresh token is a signature over the user and the second   *)
(* it is signed in, so two of one user from the same second are equal.     *)
(* Passwords, access tokens and the answer's body are left out.            *)
(***************************************************************************)
EXTENDS Integers

CONSTANTS
  Users,    \* accounts, each an email and username of its own; one
            \* registered again after its deletion is another account
  Seeded,   \* the accounts that exist at the start
  Clients,  \* browsers, each with one cookie jar
  Requests, \* handler invocations that may be in flight together
  TTL,      \* JWT_REFRESH_TTL in ticks of the clock
  MaxTime,  \* bound: the last second of the clock
  MaxRows,  \* bound: Token rows ever inserted
  Null      \* a missing value

Seconds == 0 .. MaxTime

Jwt == [user : Users, iat : Seconds]

TokenRow == [id : 1 .. MaxRows, jwt : Jwt]

Ops == {"register", "login", "refresh", "logout"}

\* What a request does next.  candidate, insert: UsersService.create;
\* password: comparePasswords; token, user: TokensService.refresh; find,
\* write: TokensService.save; profile: findOne after it; lookup, delete:
\* TokensService.remove; respond: the answer.
Steps == {"candidate", "insert", "sign", "password", "token", "user", "find",
          "write", "profile", "lookup", "delete", "respond"}

Request ==
  [op : Ops, step : Steps, user : Users,
   client : Clients,                  \* the browser that sent it
   given : Jwt \cup {Null},           \* the cookie it came with
   issued : Jwt \cup {Null},          \* the refresh token it signed
   found : 0 .. MaxRows \cup {Null}]  \* the Token row it read

ASSUME SessionAssumption ==
  /\ Seeded \subseteq Users
  /\ TTL \in Nat \ {0} /\ MaxTime \in Nat /\ MaxRows \in Nat
  /\ Null \notin Jwt /\ Null \notin TokenRow /\ Null \notin Request
  /\ Null \notin Int

VARIABLES
  now,      \* the clock, in seconds
  users,    \* the life of each User row
  token,    \* Token by its unique userId: a TokenRow, or Null
  nextRow,  \* the next Token id
  cookie,   \* the refresh token in each browser's jar, or Null
  requests, \* the state of each request in flight, or Null
  signed,   \* history: every refresh token ever signed
  twice,    \* history: those that were signed more than once
  retired   \* history: every refresh token a Token row once held and lost

db == <<users, token, nextRow>>
history == <<signed, twice, retired>>
vars == <<now, db, cookie, requests, history>>

Init ==
  /\ now = 0
  /\ users = [u \in Users |-> IF u \in Seeded THEN "present" ELSE "absent"]
  /\ token = [u \in Users |-> Null]
  /\ nextRow = 1
  /\ cookie = [c \in Clients |-> Null]
  /\ requests = [r \in Requests |-> Null]
  /\ signed = {}
  /\ twice = {}
  /\ retired = {}

-----------------------------------------------------------------------------

At(r, step) == requests[r] # Null /\ requests[r].step = step

Start(r, op, step, u, c, given) ==
  /\ requests[r] = Null
  /\ requests' = [requests EXCEPT ![r] =
       [op |-> op, step |-> step, user |-> u, client |-> c, given |-> given,
        issued |-> Null, found |-> Null]]
  /\ UNCHANGED <<now, db, cookie, history>>

GoOn(r, step) == requests' = [requests EXCEPT ![r].step = step]

\* verifyAsync: a token of this server that has not expired.
Verifies(jwt) == now < jwt.iat + TTL

\* What a Token row held that it no longer holds.
Lost(u) == IF token[u] = Null THEN {} ELSE {token[u].jwt}

BeginRegister(r) ==
  \E u \in Users, c \in Clients : Start(r, "register", "candidate", u, c, Null)

BeginLogin(r) ==
  \E u \in Users, c \in Clients : Start(r, "login", "password", u, c, Null)

\* Without a cookie refresh answers 401 and logout does nothing.
BeginRefresh(r) ==
  \E c \in Clients :
    cookie[c] # Null /\ Start(r, "refresh", "token", cookie[c].user, c, cookie[c])

BeginLogout(r) ==
  \E c \in Clients :
    cookie[c] # Null /\ Start(r, "logout", "lookup", cookie[c].user, c, cookie[c])

\* UsersService.create: no user has this email or username.
FindCandidate(r) ==
  /\ At(r, "candidate")
  /\ users[requests[r].user] = "absent"
  /\ GoOn(r, "insert")
  /\ UNCHANGED <<now, db, cookie, history>>

\* The unique indexes refuse a second insert.
InsertUser(r) ==
  LET u == requests[r].user
  IN  /\ At(r, "insert")
      /\ users[u] = "absent"
      /\ users' = [users EXCEPT ![u] = "present"]
      /\ GoOn(r, "sign")
      /\ UNCHANGED <<now, token, nextRow, cookie, history>>

\* MUTANT: the user's id is missing from the payload.
AnonymousJwt(q) == [user |-> Null, iat |-> now]

\* What generate signs: the user and, added by the library, the second.
SignedJwt(q) == [user |-> q.user, iat |-> now]

\* generate, in the same turn of the event loop as the read before it.
Sign(r, q) ==
  LET jwt == SignedJwt(q)
  IN  /\ signed' = signed \cup {jwt}
      /\ twice' = twice \cup (signed \cap {jwt})
      /\ requests' = [requests EXCEPT ![r] =
           [q EXCEPT !.step = "find", !.issued = jwt]]
      /\ UNCHANGED <<now, db, cookie, retired>>

SignRegistered(r) == At(r, "sign") /\ Sign(r, requests[r])

ComparePasswords(r) ==
  /\ At(r, "password")
  /\ users[requests[r].user] = "present"
  /\ Sign(r, requests[r])

\* The user's row holds this token; the user's row is this one.
Holds(u, jwt) == token[u] # Null /\ token[u].jwt = jwt
IsRow(u, id) == token[u] # Null /\ token[u].id = id

\* TokensService.refresh: a valid token, and the stored one.
TokenMatches(q) == Verifies(q.given) /\ Holds(q.user, q.given)

CheckToken(r) ==
  /\ At(r, "token")
  /\ TokenMatches(requests[r])
  /\ GoOn(r, "user")
  /\ UNCHANGED <<now, db, cookie, history>>

FindUser(r) ==
  /\ At(r, "user")
  /\ users[requests[r].user] = "present"
  /\ Sign(r, requests[r])

FindToken(r) ==
  LET row == token[requests[r].user]
  IN  /\ At(r, "find")
      /\ requests' = [requests EXCEPT ![r].step = "write",
                        ![r].found = IF row = Null THEN 0 ELSE row.id]
      /\ UNCHANGED <<now, db, cookie, history>>

\* MUTANT: refresh saves the token it was given.
GivenOrIssued(q) == IF q.given = Null THEN q.issued ELSE q.given

\* The token that register, login and refresh hand to save.
Saved(q) == q.issued

\* save's update: whatever row the user has by now.
AfterSave(q) == IF q.op = "refresh" THEN "respond" ELSE "profile"

UpdateToken(r) ==
  LET q == requests[r]
  IN  /\ At(r, "write")
      /\ q.found # 0
      /\ token[q.user] # Null
      /\ token' = [token EXCEPT ![q.user].jwt = Saved(q)]
      /\ retired' = retired \cup (Lost(q.user) \ {Saved(q)})
      /\ GoOn(r, AfterSave(q))
      /\ UNCHANGED <<now, users, nextRow, cookie, signed, twice>>

\* MUTANT: no foreign key to the user.
CreatableForAnyone(u) == token[u] = Null

\* save's create: refused by the unique userId or by the foreign key.
Creatable(u) == token[u] = Null /\ users[u] = "present"

CreateToken(r) ==
  LET q == requests[r]
  IN  /\ At(r, "write")
      /\ q.found = 0
      /\ Creatable(q.user)
      /\ nextRow <= MaxRows
      /\ token' = [token EXCEPT ![q.user] = [id |-> nextRow, jwt |-> Saved(q)]]
      /\ nextRow' = nextRow + 1
      /\ GoOn(r, AfterSave(q))
      /\ UNCHANGED <<now, users, cookie, history>>

FindProfile(r) ==
  /\ At(r, "profile")
  /\ users[requests[r].user] = "present"
  /\ GoOn(r, "respond")
  /\ UNCHANGED <<now, db, cookie, history>>

\* remove: the row that holds the cookie's token, then its deletion by id.
LookUpToken(r) ==
  LET q == requests[r]
  IN  /\ At(r, "lookup")
      /\ Holds(q.user, q.given)
      /\ requests' = [requests EXCEPT ![r].step = "delete",
                                      ![r].found = token[q.user].id]
      /\ UNCHANGED <<now, db, cookie, history>>

DeleteToken(r) ==
  LET q == requests[r]
  IN  /\ At(r, "delete")
      /\ IsRow(q.user, q.found)
      /\ token' = [token EXCEPT ![q.user] = Null]
      /\ retired' = retired \cup Lost(q.user)
      /\ GoOn(r, "respond")
      /\ UNCHANGED <<now, users, nextRow, cookie, signed, twice>>

-----------------------------------------------------------------------------
(* Answers and failures.                                                   *)

\* What the jar may hold after an answer.  A session's token replaces what
\* it held.  A logout clears the cookie, before it looks the token up and so
\* also when that fails, but without the domain it was set with: it depends
\* on the browser whether that is the same cookie.
JarsAfterSuccess(q, jar) == IF q.op = "logout" THEN {Null, jar} ELSE {q.issued}

\* MUTANT: the cookie is set before the token is saved.
JarsSetEarly(q, jar) ==
  IF q.op = "logout" THEN {Null, jar}
  ELSE IF q.issued = Null THEN {jar} ELSE {q.issued}

JarsAfterError(q, jar) == IF q.op = "logout" THEN {Null, jar} ELSE {jar}

End(r) == requests' = [requests EXCEPT ![r] = Null]

Respond(r) ==
  LET c == requests[r].client
  IN  /\ At(r, "respond")
      /\ \E jar \in JarsAfterSuccess(requests[r], cookie[c]) :
           cookie' = [cookie EXCEPT ![c] = jar]
      /\ End(r)
      /\ UNCHANGED <<now, db, history>>

\* The check or the statement of the step fails.
Refused(r) ==
  LET q == requests[r]
      u == q.user
  IN  \/ At(r, "candidate") /\ users[u] # "absent"
      \/ At(r, "insert") /\ users[u] # "absent"
      \/ At(r, "password")   \* no such user, or not the password
      \/ At(r, "token") /\ ~TokenMatches(q)
      \/ At(r, "user") /\ users[u] # "present"
      \/ At(r, "write") /\ q.found # 0 /\ token[u] = Null
      \/ At(r, "write") /\ q.found = 0 /\ ~Creatable(u)
      \/ At(r, "profile") /\ users[u] # "present"
      \/ At(r, "lookup") /\ ~Holds(u, q.given)
      \/ At(r, "delete") /\ ~IsRow(u, q.found)

Refuse(r) ==
  LET c == requests[r].client
  IN  /\ Refused(r)
      /\ \E jar \in JarsAfterError(requests[r], cookie[c]) :
           cookie' = [cookie EXCEPT ![c] = jar]
      /\ End(r)
      /\ UNCHANGED <<now, db, history>>

\* The connection or the process fails: no answer reaches the browser, what
\* the request has written stays.
Drop(r) ==
  /\ requests[r] # Null
  /\ End(r)
  /\ UNCHANGED <<now, db, cookie, history>>

Crash ==
  /\ \E r \in Requests : requests[r] # Null
  /\ requests' = [r \in Requests |-> Null]
  /\ UNCHANGED <<now, db, cookie, history>>

Tick ==
  /\ now < MaxTime
  /\ now' = now + 1
  /\ UNCHANGED <<db, cookie, requests, history>>

\* The token goes with its user, `onDelete: Cascade`.
TokenWithout(u) == [token EXCEPT ![u] = Null]

\* UsersService.remove.  A user with bookings is not deleted (Restrict): then
\* this action is not taken.
RemoveUser(u) ==
  /\ users[u] = "present"
  /\ users' = [users EXCEPT ![u] = "deleted"]
  /\ token' = TokenWithout(u)
  /\ retired' = retired \cup Lost(u)
  /\ UNCHANGED <<now, nextRow, cookie, requests, signed, twice>>

RequestStep(r) ==
  \/ FindCandidate(r) \/ InsertUser(r) \/ SignRegistered(r)
  \/ ComparePasswords(r) \/ CheckToken(r) \/ FindUser(r)
  \/ FindToken(r) \/ UpdateToken(r) \/ CreateToken(r) \/ FindProfile(r)
  \/ LookUpToken(r) \/ DeleteToken(r)
  \/ Respond(r) \/ Refuse(r) \/ Drop(r)

Next ==
  \/ \E r \in Requests :
       \/ BeginRegister(r) \/ BeginLogin(r) \/ BeginRefresh(r)
       \/ BeginLogout(r) \/ RequestStep(r)
  \/ \E u \in Users : RemoveUser(u)
  \/ Crash \/ Tick

Spec == Init /\ [][Next]_vars

-----------------------------------------------------------------------------
(* What the component promises.                                            *)

TypeOK ==
  /\ now \in Seconds
  /\ users \in [Users -> {"absent", "present", "deleted"}]
  /\ token \in [Users -> TokenRow \cup {Null}]
  /\ nextRow \in 1 .. MaxRows + 1
  /\ cookie \in [Clients -> Jwt \cup {Null}]
  /\ requests \in [Requests -> Request \cup {Null}]
  /\ signed \subseteq Jwt
  /\ twice \subseteq signed
  /\ retired \subseteq Jwt

\* A stored session's user exists, although save does not look: a login or
\* refresh that was under way when the user was deleted leaves no session.
SessionsHaveUsers ==
  \A u \in Users : token[u] # Null => users[u] = "present"

\* A browser only ever holds a token that was stored: the cookie is set
\* after the row is written, and never by a request that failed.
CookieWasStored ==
  \A c \in Clients : cookie[c] # Null =>
    \/ cookie[c] \in retired
    \/ token[cookie[c].user] # Null /\ token[cookie[c].user].jwt = cookie[c]

\* README: the refresh token is rotated on refresh.  A token that a row held
\* and lost, to a login, a refresh, a logout or the deletion of the account,
\* is never stored again, in whatever order the requests in flight write.  The
\* only one that can come back is a token that was signed a second time, in
\* the second of the first.
RetiredStaysRetired ==
  \A u \in Users :
    token[u] # Null /\ token[u].jwt \in retired => token[u].jwt \in twice

=============================================================================
