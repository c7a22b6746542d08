-------------------------------- MODULE Auth --------------------------------
(***************************************************************************)
(* Accounts and sessions of the API: api/app/api/v1/routers/auth.py and     *)
(* the one handler of routers/users.py that writes to the same row, with    *)
(* the dependency get_current_user and the token helpers it calls, over the *)
(* tables users and revoked_tokens.                                         *)
(*                                                                          *)
(* The handlers are coroutines of one process and each has a database       *)
(* session of its own, at READ COMMITTED.  A handler runs alone between two *)
(* awaits, and every await of a query or a commit lets the others run, so   *)
(* one action here is the code from one await to the next.  What a handler  *)
(* remembers across an await is in req[h]: it may be stale when it is used. *)
(*                                                                          *)
(* Every mint makes an access token and a refresh token with the same       *)
(* subject and version.  The pair is named by the jti of its refresh token, *)
(* the only jti the code ever looks at.  The two differ in when they expire.*)
(***************************************************************************)
EXTENDS Naturals, FiniteSets

CONSTANTS Users,           \* primary keys of table users
          Emails,
          Jti,             \* uuid4 ids of refresh tokens, never drawn twice
          Handlers,        \* bound: requests in flight at a time
          None,            \* absent value
          MaxVersion,      \* bound: token_version stops there
          SerialLogoutAll  \* assume a user's logout-all calls do not overlap

ASSUME AuthAssumption == /\ None \notin Users \cup Emails \cup Jti
                         /\ MaxVersion \in Nat
                         /\ SerialLogoutAll \in BOOLEAN

VARIABLES account, \* users.email by id, None while there is no such row
          version, \* users.token_version
          claims,  \* payload of each pair, and the login its session began with
          life,    \* how far each pair has aged
          revoked, \* revoked_tokens.jti
          req      \* the request each handler is serving, and what it has read

dbVars == <<account, version, revoked>>
tokenVars == <<claims, life>>
vars == <<account, version, claims, life, revoked, req>>

-----------------------------------------------------------------------------

PCs == {"idle",
        "register", "register_insert", "register_mint",
        "login",
        "refresh", "refresh_user", "refresh_commit",
        "logout", "logout_commit",
        "logout_all", "logout_all_commit",
        "update_me", "update_me_commit"}

Lives == {"unissued", "fresh", "access_expired", "expired"}

Claims == [sub : Users \cup {None}, ver : Nat, root : Jti \cup {None}]

Request == [pc : PCs, email : Emails \cup {None}, jti : Jti \cup {None},
            user : Users \cup {None}, seen : Nat]

Asked(op, e, j) == [pc |-> op, email |-> e, jti |-> j, user |-> None, seen |-> 0]

Idle == Asked("idle", None, None)

TypeOK == /\ account \in [Users -> Emails \cup {None}]
          /\ version \in [Users -> Nat]
          /\ claims \in [Jti -> Claims]
          /\ life \in [Jti -> Lives]
          /\ revoked \subseteq Jti
          /\ req \in [Handlers -> Request]

Issued == {j \in Jti : life[j] # "unissued"}

(* The select by email, served by the index that keeps emails unique.      *)
HasAccount(e) == \E u \in Users : account[u] = e

(* decode_token: signature, exp and type.                                  *)
AccessDecodes(j) == life[j] = "fresh"
RefreshDecodes(j) == life[j] \in {"fresh", "access_expired"}

(* token_version_of(payload) against the user's row as it is now.          *)
VersionCurrent(j) == claims[j].ver = version[claims[j].sub]

Init == /\ account = [u \in Users |-> None]
        /\ version = [u \in Users |-> 0]
        /\ claims = [j \in Jti |-> [sub |-> None, ver |-> 0, root |-> None]]
        /\ life = [j \in Jti |-> "unissued"]
        /\ revoked = {}
        /\ req = [h \in Handlers |-> Idle]

-----------------------------------------------------------------------------
(* Helpers of the actions.                                                  *)

At(h, pc) == req[h].pc = pc

(* The handler goes on to its next await, knowing user u at version v.     *)
Proceed(h, pc, u, v) ==
  req' = [req EXCEPT ![h] = [pc |-> pc, email |-> req[h].email, jti |-> req[h].jti,
                             user |-> u, seen |-> v]]

Goto(h, pc) == Proceed(h, pc, None, 0)

(* The response, whatever its status: the handler forgets what it read.    *)
Answer(h) == req' = [req EXCEPT ![h] = Idle]

(* create_access_token and create_refresh_token for user u at version v.   *)
Mint(k, u, v, r) ==
  /\ life[k] = "unissued"
  /\ life' = [life EXCEPT ![k] = "fresh"]
  /\ claims' = [claims EXCEPT ![k] = [sub |-> u, ver |-> v, root |-> r]]

(* The unique indexes of users.email and revoked_tokens.jti, which decide   *)
(* at the commit whether an INSERT goes through.                            *)
NoIndex(x) == TRUE

EmailIndexAdmits(e) == ~HasAccount(e)

JtiIndexAdmits(j) == j \notin revoked

Spend(j) == revoked' = revoked \cup {j}

AnswerOnly(h) == Answer(h) /\ UNCHANGED <<dbVars, tokenVars>>

-----------------------------------------------------------------------------
(* Requests arrive; a client can only present a token it was given.         *)

Receive(h) ==
  /\ At(h, "idle")
  /\ \/ \E op \in {"register", "login"}, e \in Emails :
          req' = [req EXCEPT ![h] = Asked(op, e, None)]
     \/ \E op \in {"refresh", "logout", "logout_all", "update_me"}, j \in Issued :
          req' = [req EXCEPT ![h] = Asked(op, None, j)]
  /\ UNCHANGED <<dbVars, tokenVars>>

-----------------------------------------------------------------------------
(* POST /auth/register                                                      *)

(* The email is looked up: 409 if taken, else on to hash and insert.       *)
RegisterLookup(h) ==
  /\ At(h, "register")
  /\ IF HasAccount(req[h].email) THEN Answer(h) ELSE Goto(h, "register_insert")
  /\ UNCHANGED <<dbVars, tokenVars>>

(* The commit inserts the row at version 0 ...                              *)
RegisterInsert(h) ==
  /\ At(h, "register_insert")
  /\ EmailIndexAdmits(req[h].email)
  /\ \E u \in Users :
       /\ account[u] = None
       /\ account' = [account EXCEPT ![u] = req[h].email]
       /\ Proceed(h, "register_mint", u, 0)
  /\ UNCHANGED <<version, revoked, tokenVars>>

(* ... unless the email was taken meanwhile: IntegrityError, answered 500.  *)
RegisterInsertFails(h) ==
  /\ At(h, "register_insert")
  /\ ~EmailIndexAdmits(req[h].email)
  /\ AnswerOnly(h)

(* db.refresh reads the row back, then the pair is minted without a pause. *)
RegisterMint(h) ==
  /\ At(h, "register_mint")
  /\ \E k \in Jti : Mint(k, req[h].user, version[req[h].user], k)
  /\ Answer(h)
  /\ UNCHANGED dbVars

-----------------------------------------------------------------------------
(* POST /auth/login: one read, and nothing awaited after it.                *)

LoginRejected(h) == At(h, "login") /\ AnswerOnly(h)

LoginAccepted(h) ==
  /\ At(h, "login")
  /\ \E u \in Users, k \in Jti :
       /\ account[u] = req[h].email
       /\ Mint(k, u, version[u], k)
  /\ Answer(h)
  /\ UNCHANGED dbVars

-----------------------------------------------------------------------------
(* POST /auth/refresh                                                       *)

(* The token is decoded and its jti looked up in revoked_tokens.           *)
RefreshCheckRevoked(h) ==
  /\ At(h, "refresh")
  /\ LET j == req[h].jti IN
       IF RefreshDecodes(j) /\ j \notin revoked
       THEN Goto(h, "refresh_user")
       ELSE Answer(h)
  /\ UNCHANGED <<dbVars, tokenVars>>

(* The user is loaded and the versions compared.  Nothing deletes a user,  *)
(* so the branch for a missing row is not one the program can reach.       *)
RefreshLoadUser(h) ==
  /\ At(h, "refresh_user")
  /\ LET j == req[h].jti IN
       IF VersionCurrent(j)
       THEN Proceed(h, "refresh_commit", claims[j].sub, version[claims[j].sub])
       ELSE Answer(h)
  /\ UNCHANGED <<dbVars, tokenVars>>

(* The version the new pair is minted with: the one read with the user.    *)
VersionAtCommit(h) == version[req[h].user]

VersionRead(h) == req[h].seen

(* The commit spends the presented token; the new pair, minted with the    *)
(* version read before the commit, is in the response.  If the process     *)
(* dies after the commit, or the connection drops, the new pair is as good *)
(* as any other and nobody presents it, which Receive leaves open; what    *)
(* this means for the app is in ClientSession.                             *)
RefreshCommit(h) ==
  /\ At(h, "refresh_commit")
  /\ JtiIndexAdmits(req[h].jti)
  /\ Spend(req[h].jti)
  /\ \E k \in Jti : Mint(k, req[h].user, VersionRead(h), claims[req[h].jti].root)
  /\ Answer(h)
  /\ UNCHANGED <<account, version>>

(* Another handler spent the jti first: IntegrityError, answered 500.      *)
RefreshCommitFails(h) ==
  /\ At(h, "refresh_commit")
  /\ ~JtiIndexAdmits(req[h].jti)
  /\ AnswerOnly(h)

-----------------------------------------------------------------------------
(* POST /auth/logout                                                        *)

(* 204 at once for a token that does not decode.                           *)
LogoutUndecodable(h) ==
  /\ At(h, "logout")
  /\ ~RefreshDecodes(req[h].jti)
  /\ AnswerOnly(h)

(* 204 at once for a token that is already revoked.                        *)
LogoutAlreadyRevoked(h) ==
  /\ At(h, "logout")
  /\ RefreshDecodes(req[h].jti)
  /\ req[h].jti \in revoked
  /\ AnswerOnly(h)

LogoutCheckRevoked(h) ==
  /\ At(h, "logout")
  /\ RefreshDecodes(req[h].jti)
  /\ req[h].jti \notin revoked
  /\ Goto(h, "logout_commit")
  /\ UNCHANGED <<dbVars, tokenVars>>

LogoutCommit(h) ==
  /\ At(h, "logout_commit")
  /\ JtiIndexAdmits(req[h].jti)
  /\ Spend(req[h].jti)
  /\ Answer(h)
  /\ UNCHANGED <<account, version, tokenVars>>

LogoutCommitFails(h) ==
  /\ At(h, "logout_commit")
  /\ ~JtiIndexAdmits(req[h].jti)
  /\ AnswerOnly(h)

-----------------------------------------------------------------------------
(* POST /auth/logout-all                                                    *)

(* get_current_user: the access token decodes and carries the version of   *)
(* the row, which is what the increment will start from.                   *)
LogoutAllAuthenticate(h) ==
  /\ At(h, "logout_all")
  /\ LET j == req[h].jti
         u == claims[j].sub IN
       IF AccessDecodes(j) /\ VersionCurrent(j)
       THEN /\ version[u] < MaxVersion
            /\ SerialLogoutAll =>
                 \A g \in Handlers : At(g, "logout_all_commit") => req[g].user # u
            /\ Proceed(h, "logout_all_commit", u, version[u])
       ELSE Answer(h)
  /\ UNCHANGED <<dbVars, tokenVars>>

(* Should the increment be lost or go the wrong way:                       *)
LogoutAllKeepsVersion(h) ==
  /\ At(h, "logout_all_commit")
  /\ version' = [version EXCEPT ![req[h].user] = req[h].seen]
  /\ Answer(h)
  /\ UNCHANGED <<account, revoked, tokenVars>>

LogoutAllDecrements(h) ==
  /\ At(h, "logout_all_commit")
  /\ version' = [version EXCEPT ![req[h].user] = req[h].seen - 1]
  /\ Answer(h)
  /\ UNCHANGED <<account, revoked, tokenVars>>

(* UPDATE users SET token_version = <value read + 1> WHERE id = ...         *)
LogoutAllCommit(h) ==
  /\ At(h, "logout_all_commit")
  /\ version' = [version EXCEPT ![req[h].user] = req[h].seen + 1]
  /\ Answer(h)
  /\ UNCHANGED <<account, revoked, tokenVars>>

-----------------------------------------------------------------------------
(* PATCH /users/me                                                          *)

(* get_current_user again: the row it loads is the one that is changed.     *)
UpdateMeAuthenticate(h) ==
  /\ At(h, "update_me")
  /\ LET j == req[h].jti
         u == claims[j].sub IN
       IF AccessDecodes(j) /\ VersionCurrent(j)
       THEN Proceed(h, "update_me_commit", u, version[u])
       ELSE Answer(h)
  /\ UNCHANGED <<dbVars, tokenVars>>

(* Should the row be written as it was read:                               *)
UpdateMeWritesRow(h) ==
  /\ At(h, "update_me_commit")
  /\ version' = [version EXCEPT ![req[h].user] = req[h].seen]
  /\ Answer(h)
  /\ UNCHANGED <<account, revoked, tokenVars>>

(* UPDATE users SET display_name: the session writes the columns that were *)
(* assigned to and no other, if any.                                       *)
UpdateMeCommit(h) == At(h, "update_me_commit") /\ AnswerOnly(h)

-----------------------------------------------------------------------------
(* The environment.                                                         *)

(* Time passes: the access token of a pair expires long before its refresh *)
(* token.                                                                  *)
Expire(j) ==
  /\ \/ /\ life[j] = "fresh"
        /\ life' = [life EXCEPT ![j] = "access_expired"]
     \/ /\ life[j] = "access_expired"
        /\ life' = [life EXCEPT ![j] = "expired"]
  /\ UNCHANGED <<dbVars, claims, req>>

(* The process stops and restarts: what was not committed is gone.         *)
Crash ==
  /\ \E h \in Handlers : ~At(h, "idle")
  /\ req' = [h \in Handlers |-> Idle]
  /\ UNCHANGED <<dbVars, tokenVars>>

Step(h) ==
  \/ Receive(h)
  \/ RegisterLookup(h) \/ RegisterInsert(h) \/ RegisterInsertFails(h) \/ RegisterMint(h)
  \/ LoginRejected(h) \/ LoginAccepted(h)
  \/ RefreshCheckRevoked(h) \/ RefreshLoadUser(h)
  \/ RefreshCommit(h) \/ RefreshCommitFails(h)
  \/ LogoutUndecodable(h) \/ LogoutAlreadyRevoked(h) \/ LogoutCheckRevoked(h)
  \/ LogoutCommit(h) \/ LogoutCommitFails(h)
  \/ LogoutAllAuthenticate(h) \/ LogoutAllCommit(h)
  \/ UpdateMeAuthenticate(h) \/ UpdateMeCommit(h)

Next == \/ \E h \in Handlers : Step(h)
        \/ \E j \in Jti : Expire(j)
        \/ Crash

Spec == Init /\ [][Next]_vars

-----------------------------------------------------------------------------
(* What the sessions promise: refresh tokens are consumed and exchanged    *)
(* atomically, however the handlers interleave.                            *)

Store == INSTANCE SessionStore WITH
  state <- [j \in Jti |-> IF life[j] = "unissued" THEN "unissued"
                          ELSE IF j \in revoked THEN "spent" ELSE "live"],
  root <- [j \in Jti |-> claims[j].root]

Live == Issued \ revoked

(* The refresh, logout and login handlers, interleaved at every await and  *)
(* cut short by crashes, implement the atomic store of sessions.           *)
ImplementsSessionStore == Store!StoreSpec

(* Rotation and logout of one refresh token, racing in any number of       *)
(* handlers, never leave a session with two usable refresh tokens          *)
(* (auth.py:109-130, the unique jti of revoked_token.py:18).               *)
OneLivePerSession == \A j, k \in Live : claims[j].root = claims[k].root => j = k

(* A session whose refresh token was spent without a successor, by a       *)
(* logout, is not brought back by a refresh that read revoked_tokens       *)
(* before (auth.py:109-130, 144-146).                                      *)
DeadSessionStaysDead ==
  [][\A r \in Issued : (\A j \in Live : claims[j].root # r)
                         => (\A j \in Live : claims[j].root # r)']_vars

(* All pairs of a session belong to the user that logged in and carry the  *)
(* version of that login, even if the user logged out everywhere while a   *)
(* refresh was between its version check and its commit (auth.py:117-130). *)
SessionKeepsVersion ==
  \A j, k \in Issued : claims[j].root = claims[k].root
                         => /\ claims[j].sub = claims[k].sub
                            /\ claims[j].ver = claims[k].ver

(* Two registrations of one email that both found it free do not both get  *)
(* an account (auth.py:51-61, the unique email of user.py:21).             *)
EmailUnique ==
  \A u, v \in Users : account[u] = account[v] /\ account[u] # None => u = v

(* A pair that "log out everywhere" made stale is never accepted again:    *)
(* "any token carrying an older version is rejected" (auth.py:156).        *)
StaleStaysStale ==
  [][\A j \in Issued : ~VersionCurrent(j) => ~VersionCurrent(j)']_vars

(* When logout-all commits, no pair handed out so far is accepted any      *)
(* longer: "Invalidate every session for the current user" (auth.py:154).  *)
LogoutAllEndsAll ==
  [][\A h \in Handlers : LogoutAllCommit(h) =>
       \A j \in Issued : claims[j].sub = req[h].user => ~VersionCurrent(j)']_vars
=============================================================================
