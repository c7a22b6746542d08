----------------------------- MODULE AuthProofs -----------------------------
(***************************************************************************)
(* Theorems about Auth, for any sets of users, emails, tokens and handlers. *)
(***************************************************************************)
EXTENDS Auth, TLAPS

(* A token that was issued has an owner, a session, and that session began *)
(* with a token that was issued too; only issued tokens get revoked.       *)
TokensWellFormed ==
  /\ \A j \in Issued : claims[j].sub \in Users /\ claims[j].root \in Issued
  /\ revoked \subseteq Issued

NeedsToken == {"refresh", "refresh_user", "refresh_commit", "logout", "logout_commit",
               "logout_all", "logout_all_commit", "update_me", "update_me_commit"}
NeedsUser == {"register_mint", "refresh_commit", "logout_all_commit"}
USE DEF NeedsToken, NeedsUser

(* What a handler holds between two awaits.                                *)
RequestsWellFormed ==
  \A h \in Handlers :
    /\ req[h].pc \in NeedsToken => req[h].jti \in Issued
    /\ req[h].pc \in NeedsUser => req[h].user \in Users
    /\ req[h].pc = "refresh_commit"
         => req[h].user = claims[req[h].jti].sub /\ req[h].seen = claims[req[h].jti].ver

WellFormed == TypeOK /\ TokensWellFormed /\ RequestsWellFormed

LEMMA InitWellFormed == Init => WellFormed
  BY DEF Init, WellFormed, TypeOK, TokensWellFormed, RequestsWellFormed, Issued,
         Claims, Lives, Request, PCs, Idle, Asked

(* Answering leaves the other handlers alone and this one with nothing.    *)
LEMMA AnswerWellFormed ==
  ASSUME WellFormed, NEW h \in Handlers, Answer(h), UNCHANGED tokenVars
  PROVE  RequestsWellFormed' /\ req' \in [Handlers -> Request]
  BY DEF WellFormed, TypeOK, RequestsWellFormed, Answer, Idle, Asked, Request, PCs,
         tokenVars, Issued

(* Proceeding to a point that needs no more than what the handler has.     *)
LEMMA ProceedWellFormed ==
  ASSUME WellFormed, NEW h \in Handlers, NEW pc \in PCs, NEW u \in Users \cup {None},
         NEW v \in Nat, Proceed(h, pc, u, v), UNCHANGED tokenVars,
         pc \in NeedsToken => req[h].jti \in Issued,
         pc \in NeedsUser => u \in Users,
         pc = "refresh_commit" => u = claims[req[h].jti].sub /\ v = claims[req[h].jti].ver
  PROVE  RequestsWellFormed' /\ req' \in [Handlers -> Request]
  <1> DEFINE q == [pc |-> pc, email |-> req[h].email, jti |-> req[h].jti,
                   user |-> u, seen |-> v]
  <1>1. q \in Request
    BY DEF WellFormed, TypeOK, Request
  <1>2. req' \in [Handlers -> Request]
    BY <1>1 DEF Proceed, WellFormed, TypeOK
  <1>3. /\ req'[h] = q
        /\ \A g \in Handlers \ {h} : req'[g] = req[g]
    BY DEF Proceed, WellFormed, TypeOK
  <1>4. claims' = claims /\ Issued' = Issued
    BY DEF tokenVars, Issued
  <1>. QED  BY <1>2, <1>3, <1>4 DEF WellFormed, RequestsWellFormed

LEMMA RejectWellFormed ==
  ASSUME WellFormed, NEW h \in Handlers, AnswerOnly(h)
  PROVE  WellFormed'
  BY AnswerWellFormed DEF AnswerOnly, dbVars, tokenVars, WellFormed, TypeOK,
         TokensWellFormed, Issued

(* Minting a pair for a user within an existing session or one of its own. *)
LEMMA MintWellFormed ==
  ASSUME WellFormed, NEW h \in Handlers, NEW k \in Jti, NEW u \in Users, NEW v \in Nat,
         NEW r \in Issued \cup {k}, Mint(k, u, v, r), Answer(h),
         account' \in [Users -> Emails \cup {None}], version' \in [Users -> Nat],
         revoked' \subseteq Issued
  PROVE  WellFormed'
  <1>1. TypeOK'
    BY DEF WellFormed, TypeOK, Mint, Answer, Idle, Asked, Request, PCs, Claims, Lives, Issued
  <1>2. Issued' = Issued \cup {k} /\ k \notin Issued
    BY DEF WellFormed, TypeOK, Mint, Issued
  <1>3. \A j \in Issued : claims'[j] = claims[j]
    BY <1>2 DEF WellFormed, TypeOK, Mint
  <1>4. claims'[k] = [sub |-> u, ver |-> v, root |-> r]
    BY DEF WellFormed, TypeOK, Mint
  <1>5. TokensWellFormed'
    BY <1>2, <1>3, <1>4 DEF WellFormed, TokensWellFormed
  <1>6. RequestsWellFormed'
    BY <1>2, <1>3 DEF WellFormed, TypeOK, RequestsWellFormed, Answer, Idle, Asked
  <1>. QED  BY <1>1, <1>5, <1>6 DEF WellFormed

-----------------------------------------------------------------------------
(* One lemma per request, then the step of Next.                            *)

LEMMA ReceiveWellFormed ==
  ASSUME WellFormed, NEW h \in Handlers, Receive(h)
  PROVE  WellFormed'
  <1> USE DEF WellFormed, TypeOK, TokensWellFormed, RequestsWellFormed, Receive, dbVars,
              tokenVars, Issued, Idle, Asked, Request, PCs
  <1>1. CASE \E op \in {"register", "login"}, e \in Emails :
               req' = [req EXCEPT ![h] = Asked(op, e, None)]
    BY <1>1
  <1>2. CASE \E op \in {"refresh", "logout", "logout_all", "update_me"}, j \in Issued :
               req' = [req EXCEPT ![h] = Asked(op, None, j)]
    BY <1>2
  <1>. QED  BY <1>1, <1>2

(* A handler that only moves on, to a point that needs what it has.        *)
LEMMA GotoWellFormed ==
  ASSUME WellFormed, NEW h \in Handlers,
         \/ At(h, "register") /\ Goto(h, "register_insert")
         \/ At(h, "refresh") /\ Goto(h, "refresh_user")
         \/ At(h, "logout") /\ Goto(h, "logout_commit"),
         UNCHANGED <<dbVars, tokenVars>>
  PROVE  WellFormed'
  <1>1. req[h].pc \in NeedsToken => req[h].jti \in Issued
    BY DEF WellFormed, RequestsWellFormed
  <1>2. RequestsWellFormed' /\ req' \in [Handlers -> Request]
    BY <1>1, ProceedWellFormed DEF At, Goto, PCs
  <1>. QED
    BY <1>2 DEF WellFormed, TypeOK, TokensWellFormed, dbVars, tokenVars, Issued

LEMMA RegisterWellFormed ==
  ASSUME WellFormed, NEW h \in Handlers,
         RegisterLookup(h) \/ RegisterInsert(h) \/ RegisterInsertFails(h) \/ RegisterMint(h)
  PROVE  WellFormed'
  <1>1. CASE RegisterLookup(h)
    BY <1>1, RejectWellFormed, GotoWellFormed DEF RegisterLookup, AnswerOnly
  <1>2. CASE RegisterInsert(h)
    <2>1. PICK u \in Users :
            /\ account' = [account EXCEPT ![u] = req[h].email]
            /\ Proceed(h, "register_mint", u, 0)
      BY <1>2 DEF RegisterInsert
    <2>2. RequestsWellFormed' /\ req' \in [Handlers -> Request]
      BY <1>2, <2>1, ProceedWellFormed DEF RegisterInsert, PCs
    <2>3. req[h].email \in Emails \cup {None}
      BY DEF WellFormed, TypeOK, Request
    <2>. QED
      BY <1>2, <2>1, <2>2, <2>3 DEF RegisterInsert, tokenVars, WellFormed, TypeOK,
         TokensWellFormed, Issued
  <1>3. CASE RegisterInsertFails(h)
    BY <1>3, RejectWellFormed DEF RegisterInsertFails
  <1>4. CASE RegisterMint(h)
    <2>1. req[h].user \in Users /\ version[req[h].user] \in Nat
      BY <1>4 DEF RegisterMint, At, WellFormed, TypeOK, RequestsWellFormed
    <2>2. PICK k \in Jti : Mint(k, req[h].user, version[req[h].user], k)
      BY <1>4 DEF RegisterMint
    <2>. QED
      BY <1>4, <2>1, <2>2, MintWellFormed
      DEF RegisterMint, dbVars, WellFormed, TypeOK, TokensWellFormed
  <1>. QED  BY <1>1, <1>2, <1>3, <1>4

LEMMA LoginWellFormed ==
  ASSUME WellFormed, NEW h \in Handlers, LoginRejected(h) \/ LoginAccepted(h)
  PROVE  WellFormed'
  <1>1. CASE LoginRejected(h)
    BY <1>1, RejectWellFormed DEF LoginRejected
  <1>2. CASE LoginAccepted(h)
    <2>1. PICK u \in Users, k \in Jti : Mint(k, u, version[u], k)
      BY <1>2 DEF LoginAccepted
    <2>. QED
      BY <1>2, <2>1, MintWellFormed
      DEF LoginAccepted, dbVars, WellFormed, TypeOK, TokensWellFormed
  <1>. QED  BY <1>1, <1>2

LEMMA RefreshWellFormed ==
  ASSUME WellFormed, NEW h \in Handlers,
         \/ RefreshCheckRevoked(h) \/ RefreshLoadUser(h) \/ RefreshCommit(h)
         \/ RefreshCommitFails(h)
  PROVE  WellFormed'
  <1>1. CASE RefreshCheckRevoked(h)
    BY <1>1, RejectWellFormed, GotoWellFormed DEF RefreshCheckRevoked, AnswerOnly
  <1>2. CASE RefreshLoadUser(h)
    <2>1. CASE VersionCurrent(req[h].jti)
      <3> DEFINE c == claims[req[h].jti]
      <3>1. /\ Proceed(h, "refresh_commit", c.sub, version[c.sub])
            /\ UNCHANGED <<dbVars, tokenVars>>
        BY <1>2, <2>1 DEF RefreshLoadUser
      <3>2. /\ req[h].jti \in Issued /\ c.sub \in Users
            /\ version[c.sub] \in Nat /\ version[c.sub] = c.ver
        BY <1>2, <2>1 DEF RefreshLoadUser, VersionCurrent, At, WellFormed,
           TypeOK, TokensWellFormed, RequestsWellFormed
      <3>3. RequestsWellFormed' /\ req' \in [Handlers -> Request]
        BY <3>1, <3>2, ProceedWellFormed DEF PCs
      <3>. QED
        BY <3>1, <3>3 DEF WellFormed, TypeOK, TokensWellFormed, dbVars, tokenVars, Issued
    <2>2. CASE ~VersionCurrent(req[h].jti)
      BY <1>2, <2>2, RejectWellFormed DEF RefreshLoadUser, AnswerOnly
    <2>. QED  BY <2>1, <2>2
  <1>3. CASE RefreshCommit(h)
    <2> DEFINE r == claims[req[h].jti].root
    <2>1. /\ req[h].jti \in Issued /\ r \in Issued
          /\ req[h].user \in Users /\ VersionRead(h) \in Nat
      BY <1>3 DEF RefreshCommit, At, VersionRead, WellFormed, TypeOK, TokensWellFormed,
         RequestsWellFormed, Request
    <2>2. PICK k \in Jti : Mint(k, req[h].user, VersionRead(h), r)
      BY <1>3 DEF RefreshCommit
    <2>3. /\ Answer(h) /\ account' \in [Users -> Emails \cup {None}]
          /\ version' \in [Users -> Nat] /\ revoked' \subseteq Issued
      BY <1>3, <2>1 DEF RefreshCommit, Spend, WellFormed, TypeOK, TokensWellFormed
    <2>. QED  BY <2>1, <2>2, <2>3, MintWellFormed
  <1>4. CASE RefreshCommitFails(h)
    BY <1>4, RejectWellFormed DEF RefreshCommitFails
  <1>. QED  BY <1>1, <1>2, <1>3, <1>4

LEMMA LogoutWellFormed ==
  ASSUME WellFormed, NEW h \in Handlers,
         \/ LogoutUndecodable(h) \/ LogoutAlreadyRevoked(h) \/ LogoutCheckRevoked(h)
         \/ LogoutCommit(h) \/ LogoutCommitFails(h)
  PROVE  WellFormed'
  <1>1. CASE LogoutUndecodable(h) \/ LogoutAlreadyRevoked(h) \/ LogoutCommitFails(h)
    BY <1>1, RejectWellFormed DEF LogoutUndecodable, LogoutAlreadyRevoked, LogoutCommitFails
  <1>2. CASE LogoutCheckRevoked(h)
    BY <1>2, GotoWellFormed DEF LogoutCheckRevoked
  <1>3. CASE LogoutCommit(h)
    <2>1. req[h].jti \in Issued
      BY <1>3 DEF LogoutCommit, At, WellFormed, RequestsWellFormed
    <2>. QED
      BY <1>3, <2>1, AnswerWellFormed DEF LogoutCommit, Spend, tokenVars,
         WellFormed, TypeOK, TokensWellFormed, Issued
  <1>. QED  BY <1>1, <1>2, <1>3

LEMMA LogoutAllWellFormed ==
  ASSUME WellFormed, NEW h \in Handlers, LogoutAllAuthenticate(h) \/ LogoutAllCommit(h)
  PROVE  WellFormed'
  <1>1. CASE LogoutAllAuthenticate(h)
    <2> DEFINE j == req[h].jti
    <2>1. CASE AccessDecodes(j) /\ VersionCurrent(j)
      <3> DEFINE u == claims[j].sub
      <3>1. /\ At(h, "logout_all") /\ UNCHANGED <<dbVars, tokenVars>>
            /\ Proceed(h, "logout_all_commit", u, version[u])
        BY <1>1, <2>1 DEF LogoutAllAuthenticate
      <3>2. j \in Issued /\ u \in Users /\ version[u] \in Nat
        BY <3>1 DEF At, WellFormed, TypeOK, TokensWellFormed, RequestsWellFormed
      <3>3. RequestsWellFormed' /\ req' \in [Handlers -> Request]
        BY <3>1, <3>2, ProceedWellFormed DEF PCs
      <3>. QED
        BY <3>1, <3>3 DEF WellFormed, TypeOK, TokensWellFormed, dbVars, tokenVars, Issued
    <2>2. CASE ~(AccessDecodes(j) /\ VersionCurrent(j))
      BY <1>1, <2>2, RejectWellFormed DEF LogoutAllAuthenticate, AnswerOnly
    <2>. QED  BY <2>1, <2>2
  <1>2. CASE LogoutAllCommit(h)
    <2>1. req[h].seen + 1 \in Nat
      BY DEF WellFormed, TypeOK, Request
    <2>2. version' \in [Users -> Nat]
      BY <1>2, <2>1 DEF LogoutAllCommit, WellFormed, TypeOK
    <2>. QED
      BY <1>2, <2>2, AnswerWellFormed DEF LogoutAllCommit, tokenVars,
         WellFormed, TypeOK, TokensWellFormed, Issued
  <1>. QED  BY <1>1, <1>2

LEMMA UpdateMeWellFormed ==
  ASSUME WellFormed, NEW h \in Handlers, UpdateMeAuthenticate(h) \/ UpdateMeCommit(h)
  PROVE  WellFormed'
  <1>1. CASE UpdateMeAuthenticate(h)
    <2> DEFINE j == req[h].jti
               u == claims[j].sub
    <2>1. j \in Issued /\ u \in Users /\ version[u] \in Nat
      BY <1>1 DEF UpdateMeAuthenticate, At, WellFormed, TypeOK, TokensWellFormed,
         RequestsWellFormed
    <2>2. CASE AccessDecodes(j) /\ VersionCurrent(j)
      <3>1. Proceed(h, "update_me_commit", u, version[u]) /\ UNCHANGED <<dbVars, tokenVars>>
        BY <1>1, <2>2 DEF UpdateMeAuthenticate
      <3>2. RequestsWellFormed' /\ req' \in [Handlers -> Request]
        BY <2>1, <3>1, ProceedWellFormed DEF PCs
      <3>. QED
        BY <3>1, <3>2 DEF WellFormed, TypeOK, TokensWellFormed, dbVars, tokenVars, Issued
    <2>3. CASE ~(AccessDecodes(j) /\ VersionCurrent(j))
      BY <1>1, <2>3, RejectWellFormed DEF UpdateMeAuthenticate, AnswerOnly
    <2>. QED  BY <2>2, <2>3
  <1>2. CASE UpdateMeCommit(h)
    BY <1>2, RejectWellFormed DEF UpdateMeCommit
  <1>. QED  BY <1>1, <1>2

LEMMA EnvironmentWellFormed ==
  ASSUME WellFormed, Crash \/ (\E j \in Jti : Expire(j)) \/ UNCHANGED vars
  PROVE  WellFormed'
  <1>1. CASE Crash
    BY <1>1 DEF Crash, WellFormed, TypeOK, TokensWellFormed, RequestsWellFormed, dbVars,
       tokenVars, Issued, Idle, Asked, Request, PCs
  <1>2. ASSUME NEW j \in Jti, Expire(j)
        PROVE  WellFormed'
    <2>1. life' \in [Jti -> Lives] /\ Issued' = Issued
      BY <1>2 DEF Expire, WellFormed, TypeOK, Lives, Issued
    <2>. QED
      BY <1>2, <2>1 DEF Expire, WellFormed, TypeOK, TokensWellFormed, RequestsWellFormed,
         dbVars
  <1>3. CASE UNCHANGED vars
    BY <1>3 DEF vars, WellFormed, TypeOK, TokensWellFormed, RequestsWellFormed, Issued
  <1>. QED  BY <1>1, <1>2, <1>3

LEMMA NextWellFormed == WellFormed /\ [Next]_vars => WellFormed'
  <1> SUFFICES ASSUME WellFormed, [Next]_vars  PROVE WellFormed'
    OBVIOUS
  <1>1. ASSUME NEW h \in Handlers, Step(h)  PROVE WellFormed'
    BY <1>1, ReceiveWellFormed, RegisterWellFormed, LoginWellFormed, RefreshWellFormed,
       LogoutWellFormed, LogoutAllWellFormed, UpdateMeWellFormed DEF Step
  <1>. QED  BY <1>1, EnvironmentWellFormed DEF Next

THEOREM AlwaysWellFormed == Spec => []WellFormed
  <1>. QED  BY InitWellFormed, NextWellFormed, PTL DEF Spec

(* Every variable keeps its type, with any number of users and requests.   *)
THEOREM TypeCorrect == Spec => []TypeOK
  <1>1. WellFormed => TypeOK
    BY DEF WellFormed
  <1>. QED  BY <1>1, AlwaysWellFormed, PTL

-----------------------------------------------------------------------------
(* What a step does to the tokens: it opens a session, rotates, spends, or  *)
(* leaves them as they are.  Which handler did it, and between which awaits,*)
(* no longer matters to the theorems below.                                 *)

Opens(k) == /\ \E u \in Users : Mint(k, u, version[u], k)
            /\ UNCHANGED revoked

Rotates(j, k) == /\ j \in Live
                 /\ Mint(k, claims[j].sub, claims[j].ver, claims[j].root)
                 /\ revoked' = revoked \cup {j}

Spends(j) == /\ j \in Live
             /\ revoked' = revoked \cup {j}
             /\ UNCHANGED claims
             /\ Issued' = Issued

Keeps == UNCHANGED <<claims, revoked>> /\ Issued' = Issued

TokenStep == \/ \E k \in Jti : Opens(k)
             \/ \E j, k \in Jti : Rotates(j, k)
             \/ \E j \in Jti : Spends(j)
             \/ Keeps

LEMMA NextTokenStep == WellFormed /\ [Next]_vars => TokenStep
  <1> SUFFICES ASSUME WellFormed, [Next]_vars  PROVE TokenStep
    OBVIOUS
  <1> USE DEF dbVars, tokenVars
  <1>1. ASSUME NEW h \in Handlers, Step(h)  PROVE TokenStep
    <2>1. \/ Keeps \/ RegisterMint(h) \/ LoginAccepted(h) \/ RefreshCommit(h)
          \/ LogoutCommit(h)
      BY <1>1 DEF Keeps, Issued, Step, Receive, RegisterLookup, RegisterInsert,
         RegisterInsertFails, LoginRejected, RefreshCheckRevoked, RefreshLoadUser,
         RefreshCommitFails, LogoutUndecodable, LogoutAlreadyRevoked, LogoutCheckRevoked,
         LogoutCommitFails, LogoutAllAuthenticate, LogoutAllCommit, UpdateMeAuthenticate,
         UpdateMeCommit, AnswerOnly
    <2>2. CASE RegisterMint(h)
      BY <2>2 DEF RegisterMint, TokenStep, Opens, At, WellFormed, RequestsWellFormed
    <2>3. CASE LoginAccepted(h)
      BY <2>3 DEF LoginAccepted, TokenStep, Opens
    <2>4. ASSUME req[h].pc \in {"refresh_commit", "logout_commit"},
                 JtiIndexAdmits(req[h].jti)
          PROVE  req[h].jti \in Live /\ req[h].jti \in Jti
      BY <2>4 DEF JtiIndexAdmits, Live, Issued, WellFormed, RequestsWellFormed
    <2>5. CASE RefreshCommit(h)
      <3>1. req[h].user = claims[req[h].jti].sub /\ VersionRead(h) = claims[req[h].jti].ver
        BY <2>5 DEF RefreshCommit, VersionRead, At, WellFormed, RequestsWellFormed
      <3>2. PICK k \in Jti : Rotates(req[h].jti, k)
        BY <2>4, <2>5, <3>1 DEF RefreshCommit, Spend, At, Rotates
      <3>. QED  BY <2>4, <2>5, <3>2 DEF RefreshCommit, At, TokenStep
    <2>6. CASE LogoutCommit(h)
      <3>1. Spends(req[h].jti)
        BY <2>4, <2>6 DEF LogoutCommit, Spend, At, Spends, Issued
      <3>. QED  BY <2>4, <2>6, <3>1 DEF LogoutCommit, At, TokenStep
    <2>. QED  BY <2>1, <2>2, <2>3, <2>5, <2>6 DEF TokenStep
  <1>2. ASSUME NEW j \in Jti, Expire(j)  PROVE TokenStep
    BY <1>2 DEF Expire, TokenStep, Keeps, Issued, WellFormed, TypeOK, Lives
  <1>3. CASE Crash \/ UNCHANGED vars
    BY <1>3 DEF Crash, vars, TokenStep, Keeps, Issued
  <1>. QED  BY <1>1, <1>2, <1>3 DEF Next

(* What the two steps that mint a pair add to the issued tokens.           *)
LEMMA OpensIssues ==
  ASSUME WellFormed, NEW k \in Jti, Opens(k)
  PROVE  /\ k \notin Issued /\ k \notin revoked /\ revoked' = revoked
         /\ Issued' = Issued \cup {k}
         /\ claims'[k].root = k
         /\ \A j \in Issued : claims'[j] = claims[j] /\ claims[j].root # k
  BY DEF Opens, Mint, Issued, WellFormed, TypeOK, TokensWellFormed

LEMMA RotatesIssues ==
  ASSUME WellFormed, NEW j \in Jti, NEW k \in Jti, Rotates(j, k)
  PROVE  /\ j \in Issued /\ j \notin revoked /\ revoked' = revoked \cup {j}
         /\ k \notin Issued /\ k \notin revoked
         /\ Issued' = Issued \cup {k}
         /\ claims'[k].root = claims[j].root
         /\ claims'[k].sub = claims[j].sub
         /\ claims'[k].ver = claims[j].ver
         /\ \A i \in Issued : claims'[i] = claims[i]
  BY DEF Rotates, Live, Mint, Issued, WellFormed, TypeOK, TokensWellFormed

-----------------------------------------------------------------------------

(* One session, one usable refresh token, however many handlers race over  *)
(* a jti and whenever the process dies: the unique index decides.          *)
THEOREM SessionHasOneLiveToken == Spec => []OneLivePerSession
  <1>1. Init => OneLivePerSession
    BY DEF Init, OneLivePerSession, Live, Issued
  <1>2. WellFormed /\ OneLivePerSession /\ [Next]_vars => OneLivePerSession'
    <2> SUFFICES ASSUME WellFormed, OneLivePerSession, TokenStep
                 PROVE  OneLivePerSession'
      BY NextTokenStep
    <2>1. ASSUME NEW k \in Jti, Opens(k)  PROVE OneLivePerSession'
      BY <2>1, OpensIssues DEF OneLivePerSession, Live
    <2>2. ASSUME NEW j \in Jti, NEW k \in Jti, Rotates(j, k)  PROVE OneLivePerSession'
      BY <2>2, RotatesIssues DEF OneLivePerSession, Live
    <2>3. ASSUME NEW j \in Jti, Spends(j)  PROVE OneLivePerSession'
      BY <2>3 DEF Spends, OneLivePerSession, Live
    <2>4. CASE Keeps
      BY <2>4 DEF Keeps, OneLivePerSession, Live
    <2>. QED  BY <2>1, <2>2, <2>3, <2>4 DEF TokenStep
  <1>. QED  BY <1>1, <1>2, AlwaysWellFormed, PTL DEF Spec

(* A session without a usable refresh token stays without one.             *)
THEOREM DeadSessionTheorem == Spec => DeadSessionStaysDead
  <1> DEFINE Dead(r) == \A j \in Live : claims[j].root # r
  <1>1. WellFormed /\ [Next]_vars => [\A r \in Issued : Dead(r) => Dead(r)']_vars
    <2> SUFFICES ASSUME WellFormed, TokenStep, NEW r \in Issued, Dead(r)
                 PROVE  Dead(r)'
      BY NextTokenStep
    <2>1. ASSUME NEW k \in Jti, Opens(k)  PROVE Dead(r)'
      BY <2>1, OpensIssues DEF Live
    <2>2. ASSUME NEW j \in Jti, NEW k \in Jti, Rotates(j, k)  PROVE Dead(r)'
      BY <2>2, RotatesIssues DEF Live
    <2>3. ASSUME NEW j \in Jti, Spends(j)  PROVE Dead(r)'
      BY <2>3 DEF Spends, Live
    <2>4. CASE Keeps
      BY <2>4 DEF Keeps, Live
    <2>. QED  BY <2>1, <2>2, <2>3, <2>4 DEF TokenStep
  <1>. QED  BY <1>1, AlwaysWellFormed, PTL DEF Spec, DeadSessionStaysDead

(* A refresh that straddles a logout-all mints a pair as stale as the one  *)
(* it consumed.                                                            *)
THEOREM SessionVersionTheorem == Spec => []SessionKeepsVersion
  <1>1. Init => SessionKeepsVersion
    BY DEF Init, SessionKeepsVersion, Issued
  <1>2. WellFormed /\ SessionKeepsVersion /\ [Next]_vars => SessionKeepsVersion'
    <2> SUFFICES ASSUME WellFormed, SessionKeepsVersion, TokenStep
                 PROVE  SessionKeepsVersion'
      BY NextTokenStep
    <2>1. ASSUME NEW k \in Jti, Opens(k)  PROVE SessionKeepsVersion'
      BY <2>1, OpensIssues DEF SessionKeepsVersion
    <2>2. ASSUME NEW j \in Jti, NEW k \in Jti, Rotates(j, k)  PROVE SessionKeepsVersion'
      BY <2>2, RotatesIssues DEF SessionKeepsVersion, Live
    <2>3. CASE Keeps \/ \E j \in Jti : Spends(j)
      BY <2>3 DEF Keeps, Spends, SessionKeepsVersion
    <2>. QED  BY <2>1, <2>2, <2>3 DEF TokenStep
  <1>. QED  BY <1>1, <1>2, AlwaysWellFormed, PTL DEF Spec

-----------------------------------------------------------------------------
(* Versions.  That they only grow takes the assumption that the logout-all  *)
(* calls of one user do not overlap: then the version read by the one in    *)
(* flight is still the row's when it commits.                               *)

VersionsBounded ==
  \A j \in Issued : claims[j].ver <= version[claims[j].sub]

AtLogoutAll(h) == req[h].pc = "logout_all_commit"

SeenIsCurrent ==
  \A h \in Handlers : AtLogoutAll(h) => req[h].seen = version[req[h].user]

OneLogoutAll ==
  \A g, h \in Handlers : AtLogoutAll(g) /\ AtLogoutAll(h) /\ req[g].user = req[h].user
                           => g = h

VersionInv == WellFormed /\ VersionsBounded /\ SeenIsCurrent /\ OneLogoutAll

(* No version goes down, and the only step that raises one is the commit.  *)
VersionsGrow == \A u \in Users : version[u] <= version'[u]

LEMMA VersionStep ==
  ASSUME WellFormed, [Next]_vars
  PROVE  \/ version' = version
         \/ \E h \in Handlers : LogoutAllCommit(h)
  BY DEF Next, vars, Step, Receive, RegisterLookup, RegisterInsert, RegisterInsertFails,
     RegisterMint, LoginRejected, LoginAccepted, RefreshCheckRevoked, RefreshLoadUser,
     RefreshCommit, RefreshCommitFails, LogoutUndecodable,
     LogoutAlreadyRevoked, LogoutCheckRevoked, LogoutCommit, LogoutCommitFails,
     LogoutAllAuthenticate, UpdateMeAuthenticate, UpdateMeCommit, AnswerOnly, Expire,
     Crash, dbVars

LEMMA CommitRaises ==
  ASSUME VersionInv, NEW h \in Handlers, LogoutAllCommit(h)
  PROVE  /\ req[h].user \in Users
         /\ version' = [version EXCEPT ![req[h].user] = version[req[h].user] + 1]
         /\ UNCHANGED <<claims, life>>
         /\ req' = [req EXCEPT ![h] = Idle]
  BY DEF VersionInv, WellFormed, RequestsWellFormed, SeenIsCurrent, AtLogoutAll,
     LogoutAllCommit, At, Answer, tokenVars

LEMMA VersionsOnlyGrow ==
  ASSUME VersionInv, [Next]_vars
  PROVE  VersionsGrow
  <1>1. version \in [Users -> Nat]
    BY DEF VersionInv, WellFormed, TypeOK
  <1>2. CASE version' = version
    BY <1>1, <1>2 DEF VersionsGrow
  <1>3. ASSUME NEW h \in Handlers, LogoutAllCommit(h)  PROVE VersionsGrow
    BY <1>1, <1>3, CommitRaises DEF VersionsGrow
  <1>. QED  BY <1>2, <1>3, VersionStep DEF VersionInv

LEMMA BoundKept ==
  ASSUME VersionInv, [Next]_vars
  PROVE  VersionsBounded'
  <1>1. /\ version \in [Users -> Nat] /\ version' \in [Users -> Nat]
        /\ \A j \in Issued : claims[j].ver \in Nat /\ claims[j].sub \in Users
    BY NextWellFormed DEF VersionInv, WellFormed, TypeOK, TokensWellFormed, Claims, Issued
  <1>2. VersionsGrow /\ TokenStep
    BY VersionsOnlyGrow, NextTokenStep DEF VersionInv
  <1>3. ASSUME Issued' = Issued, claims' = claims  PROVE VersionsBounded'
    BY <1>1, <1>2, <1>3 DEF VersionsBounded, VersionsGrow, VersionInv
  <1>4. ASSUME NEW k \in Jti, Opens(k)  PROVE VersionsBounded'
    <2>1. PICK u \in Users : Mint(k, u, version[u], k)
      BY <1>4 DEF Opens
    <2>2. /\ claims'[k].ver = version[u] /\ claims'[k].sub = u
          /\ \A j \in Issued : claims'[j] = claims[j]
          /\ Issued' = Issued \cup {k}
      BY <2>1 DEF Mint, Issued, VersionInv, WellFormed, TypeOK
    <2>. QED  BY <1>1, <1>2, <2>2 DEF VersionsBounded, VersionsGrow, VersionInv
  <1>5. ASSUME NEW j \in Jti, NEW k \in Jti, Rotates(j, k)  PROVE VersionsBounded'
    BY <1>1, <1>2, <1>5, RotatesIssues DEF VersionsBounded, VersionsGrow, VersionInv
  <1>. QED  BY <1>2, <1>3, <1>4, <1>5 DEF TokenStep, Spends, Keeps

(* What a step does to the handlers waiting to commit a logout-all: one     *)
(* joins them alone for its user, one commits, or none joins.               *)
LEMMA LogoutAllStep ==
  ASSUME WellFormed, [Next]_vars
  PROVE  \/ \E h \in Handlers : LogoutAllAuthenticate(h) /\ ~AtLogoutAll(h) /\ AtLogoutAll(h)'
         \/ \E h \in Handlers : LogoutAllCommit(h)
         \/ /\ version' = version
            /\ \A h \in Handlers : AtLogoutAll(h)' => AtLogoutAll(h) /\ req'[h] = req[h]
  <1> DEFINE NoneJoins == \A h \in Handlers : AtLogoutAll(h)' => AtLogoutAll(h) /\ req'[h] = req[h]
  <1>0. req \in [Handlers -> Request]
    BY DEF WellFormed, TypeOK
  <1>1. ASSUME NEW h \in Handlers, Answer(h)  PROVE NoneJoins
    BY <1>0, <1>1 DEF Answer, Idle, Asked, AtLogoutAll
  <1>2. ASSUME NEW h \in Handlers, NEW pc, NEW u, NEW v, Proceed(h, pc, u, v),
               pc # "logout_all_commit"
        PROVE  NoneJoins
    BY <1>0, <1>2 DEF Proceed, AtLogoutAll
  <1>3. ASSUME NEW h \in Handlers,
               NEW op \in {"register", "login", "refresh", "logout", "logout_all", "update_me"},
               NEW e, NEW j, req' = [req EXCEPT ![h] = Asked(op, e, j)]
        PROVE  NoneJoins
    BY <1>0, <1>3 DEF Asked, AtLogoutAll
  <1>4. ASSUME NEW h \in Handlers, Step(h), ~LogoutAllAuthenticate(h), ~LogoutAllCommit(h)
        PROVE  NoneJoins
    <2>1. CASE Receive(h)
      BY <2>1, <1>3 DEF Receive
    <2>2. CASE RegisterLookup(h) \/ RegisterInsert(h) \/ RegisterInsertFails(h) \/ RegisterMint(h)
      BY <2>2, <1>1, <1>2 DEF RegisterLookup, RegisterInsert, RegisterInsertFails,
         RegisterMint, AnswerOnly, Goto
    <2>3. CASE LoginRejected(h) \/ LoginAccepted(h)
      BY <2>3, <1>1 DEF LoginRejected, LoginAccepted, AnswerOnly
    <2>4. CASE RefreshCheckRevoked(h) \/ RefreshLoadUser(h)
      BY <2>4, <1>1, <1>2 DEF RefreshCheckRevoked, RefreshLoadUser, Goto
    <2>5. CASE RefreshCommit(h) \/ RefreshCommitFails(h)
      BY <2>5, <1>1 DEF RefreshCommit, RefreshCommitFails, AnswerOnly
    <2>6. CASE \/ LogoutUndecodable(h) \/ LogoutAlreadyRevoked(h) \/ LogoutCheckRevoked(h)
               \/ LogoutCommit(h) \/ LogoutCommitFails(h)
      BY <2>6, <1>1, <1>2 DEF LogoutUndecodable, LogoutAlreadyRevoked, LogoutCheckRevoked,
         LogoutCommit, LogoutCommitFails, AnswerOnly, Goto
    <2>7. CASE UpdateMeAuthenticate(h) \/ UpdateMeCommit(h)
      BY <2>7, <1>1, <1>2 DEF UpdateMeAuthenticate, UpdateMeCommit, AnswerOnly
    <2>. QED  BY <1>4, <2>1, <2>2, <2>3, <2>4, <2>5, <2>6, <2>7 DEF Step
  <1>5. ASSUME NEW h \in Handlers, LogoutAllAuthenticate(h), ~AtLogoutAll(h)'
        PROVE  NoneJoins
    BY <1>0, <1>1, <1>5 DEF LogoutAllAuthenticate, Proceed, AtLogoutAll
  <1>6. ASSUME NEW h \in Handlers, LogoutAllAuthenticate(h)  PROVE ~AtLogoutAll(h)
    BY <1>6 DEF LogoutAllAuthenticate, At, AtLogoutAll
  <1>7. CASE Crash \/ (\E j \in Jti : Expire(j)) \/ UNCHANGED vars
    <2>1. NoneJoins
      BY <1>0, <1>7 DEF Crash, Expire, vars, Idle, Asked, AtLogoutAll
    <2>. QED  BY <1>7, <2>1 DEF Crash, Expire, vars, dbVars
  <1>. QED  BY <1>4, <1>5, <1>6, <1>7, VersionStep DEF Next

LEMMA InitVersionInv == Init => VersionInv
  BY InitWellFormed DEF Init, VersionInv, VersionsBounded, SeenIsCurrent, OneLogoutAll,
     AtLogoutAll, Idle, Asked, Issued

LEMMA NextVersionInv ==
  ASSUME SerialLogoutAll, VersionInv, [Next]_vars
  PROVE  VersionInv'
  <1>1. WellFormed' /\ VersionsBounded'
    BY NextWellFormed, BoundKept DEF VersionInv
  <1>2. req \in [Handlers -> Request] /\ version \in [Users -> Nat] /\ req' \in [Handlers -> Request]
    BY <1>1 DEF VersionInv, WellFormed, TypeOK
  <1>3. ASSUME NEW h \in Handlers, LogoutAllAuthenticate(h), ~AtLogoutAll(h), AtLogoutAll(h)'
        PROVE  SeenIsCurrent' /\ OneLogoutAll'
    <2> DEFINE u == claims[req[h].jti].sub
    <2>1. /\ Proceed(h, "logout_all_commit", u, version[u])
          /\ \A g \in Handlers : AtLogoutAll(g) => req[g].user # u
          /\ version' = version
      BY <1>2, <1>3 DEF LogoutAllAuthenticate, Answer, Idle, Asked, At, AtLogoutAll, dbVars
    <2>2. /\ req'[h].user = u /\ req'[h].seen = version[u]
          /\ \A g \in Handlers \ {h} : req'[g] = req[g]
      BY <1>2, <2>1 DEF Proceed
    <2>. QED
      BY <2>1, <2>2 DEF SeenIsCurrent, OneLogoutAll, AtLogoutAll, VersionInv
  <1>4. ASSUME NEW h \in Handlers, LogoutAllCommit(h)
        PROVE  SeenIsCurrent' /\ OneLogoutAll'
    <2>1. /\ version' = [version EXCEPT ![req[h].user] = version[req[h].user] + 1]
          /\ req' = [req EXCEPT ![h] = Idle]
          /\ AtLogoutAll(h)
      BY <1>4, CommitRaises DEF LogoutAllCommit, At, AtLogoutAll
    <2>2. ~AtLogoutAll(h)' /\ \A g \in Handlers \ {h} : req'[g] = req[g]
      BY <1>2, <2>1 DEF AtLogoutAll, Idle, Asked
    <2>3. ASSUME NEW g \in Handlers, AtLogoutAll(g)'
          PROVE  AtLogoutAll(g) /\ g # h /\ req[g].user # req[h].user /\ req[g].user \in Users
      BY <2>1, <2>2, <2>3 DEF AtLogoutAll, VersionInv, OneLogoutAll, WellFormed,
         RequestsWellFormed
    <2>. QED
      BY <1>2, <2>1, <2>2, <2>3 DEF SeenIsCurrent, OneLogoutAll, AtLogoutAll, VersionInv
  <1>5. ASSUME version' = version,
               \A h \in Handlers : AtLogoutAll(h)' => AtLogoutAll(h) /\ req'[h] = req[h]
        PROVE  SeenIsCurrent' /\ OneLogoutAll'
    BY <1>5 DEF SeenIsCurrent, OneLogoutAll, AtLogoutAll, VersionInv
  <1>6. SeenIsCurrent' /\ OneLogoutAll'
    <2>1. WellFormed
      BY DEF VersionInv
    <2>2. CASE \E h \in Handlers :
                 LogoutAllAuthenticate(h) /\ ~AtLogoutAll(h) /\ AtLogoutAll(h)'
      BY <1>3, <2>2
    <2>3. CASE \E h \in Handlers : LogoutAllCommit(h)
      BY <1>4, <2>3
    <2>. QED  BY <1>5, <2>1, <2>2, <2>3, LogoutAllStep
  <1>. QED  BY <1>1, <1>6 DEF VersionInv

(* If the logout-all calls of a user do not overlap, a pair that is too old *)
(* stays too old.                                                           *)
THEOREM StaleTheorem == ASSUME SerialLogoutAll PROVE Spec => StaleStaysStale
  <1>1. VersionInv /\ [Next]_vars => VersionInv'
    BY NextVersionInv
  <1>2. VersionInv /\ [Next]_vars
          => [\A j \in Issued : ~VersionCurrent(j) => ~VersionCurrent(j)']_vars
    <2> SUFFICES ASSUME VersionInv, [Next]_vars, NEW j \in Issued, ~VersionCurrent(j)
                 PROVE  ~VersionCurrent(j)'
      OBVIOUS
    <2>1. VersionsGrow /\ TokenStep
      BY VersionsOnlyGrow, NextTokenStep DEF VersionInv
    <2>2. claims'[j] = claims[j]
      BY <2>1, OpensIssues, RotatesIssues DEF TokenStep, Spends, Keeps, VersionInv
    <2>3. /\ claims[j].sub \in Users /\ claims[j].ver \in Nat
          /\ version[claims[j].sub] \in Nat /\ version'[claims[j].sub] \in Nat
      BY NextWellFormed DEF VersionInv, WellFormed, TypeOK, TokensWellFormed, Claims, Issued
    <2>. QED
      BY <2>1, <2>2, <2>3 DEF VersionsGrow, VersionCurrent, VersionInv, VersionsBounded
  <1>. QED  BY <1>1, <1>2, InitVersionInv, PTL DEF Spec, StaleStaysStale

(* Under the same assumption, what logout-all promises when it answers.     *)
THEOREM LogoutAllTheorem == ASSUME SerialLogoutAll PROVE Spec => LogoutAllEndsAll
  <1> DEFINE Ends(h) == \A j \in Issued : claims[j].sub = req[h].user => ~VersionCurrent(j)'
  <1>1. VersionInv /\ [Next]_vars => VersionInv'
    BY NextVersionInv
  <1>2. VersionInv /\ [Next]_vars => [\A h \in Handlers : LogoutAllCommit(h) => Ends(h)]_vars
    <2> SUFFICES ASSUME VersionInv, NEW h \in Handlers, LogoutAllCommit(h),
                        NEW j \in Issued, claims[j].sub = req[h].user
                 PROVE  ~VersionCurrent(j)'
      OBVIOUS
    <2>1. /\ claims[j].sub \in Users /\ claims[j].ver \in Nat
          /\ version[claims[j].sub] \in Nat /\ claims[j].ver <= version[claims[j].sub]
          /\ version \in [Users -> Nat]
      BY DEF VersionInv, WellFormed, TypeOK, TokensWellFormed, Claims, Issued, VersionsBounded
    <2>. QED  BY <2>1, CommitRaises DEF VersionCurrent
  <1>. QED  BY <1>1, <1>2, InitVersionInv, PTL DEF Spec, LogoutAllEndsAll

-----------------------------------------------------------------------------
(* An email never has two accounts: the index admits it once.               *)
THEOREM EmailTheorem == Spec => []EmailUnique
  <1>1. Init => EmailUnique
    BY DEF Init, EmailUnique
  <1>2. WellFormed /\ EmailUnique /\ [Next]_vars => EmailUnique'
    <2> SUFFICES ASSUME WellFormed, EmailUnique, [Next]_vars  PROVE EmailUnique'
      OBVIOUS
    <2>1. account' = account \/ \E h \in Handlers : RegisterInsert(h)
      BY DEF Next, vars, Step, Receive, RegisterLookup, RegisterInsertFails, RegisterMint,
         LoginRejected, LoginAccepted, RefreshCheckRevoked, RefreshLoadUser, RefreshCommit,
         RefreshCommitFails, LogoutUndecodable, LogoutAlreadyRevoked,
         LogoutCheckRevoked, LogoutCommit, LogoutCommitFails, LogoutAllAuthenticate,
         LogoutAllCommit, UpdateMeAuthenticate, UpdateMeCommit, AnswerOnly, Expire, Crash,
         dbVars
    <2>2. CASE account' = account
      BY <2>2 DEF EmailUnique
    <2>3. ASSUME NEW h \in Handlers, RegisterInsert(h)  PROVE EmailUnique'
      <3>1. PICK u \in Users : account' = [account EXCEPT ![u] = req[h].email]
        BY <2>3 DEF RegisterInsert
      <3>2. \A v \in Users : account[v] # req[h].email
        BY <2>3 DEF RegisterInsert, EmailIndexAdmits, HasAccount
      <3>. QED  BY <3>1, <3>2 DEF EmailUnique, WellFormed, TypeOK
    <2>. QED  BY <2>1, <2>2, <2>3
  <1>. QED  BY <1>1, <1>2, AlwaysWellFormed, PTL DEF Spec

-----------------------------------------------------------------------------
(* Auth implements SessionStore.                                            *)

StateOf(j) == IF life[j] = "unissued" THEN "unissued"
              ELSE IF j \in revoked THEN "spent" ELSE "live"

(* Each kind of token step is the action of the store of the same name,    *)
(* whichever handler takes it.                                             *)
LEMMA StoreStep ==
  ASSUME WellFormed, [Next]_vars
  PROVE  [Store!StoreNext]_(Store!storeVars)
  <1> DEFINE S == [j \in Jti |-> StateOf(j)]
             R == [j \in Jti |-> claims[j].root]
  <1>1. /\ \A j \in Jti : (life[j] # "unissued" <=> j \in Issued)
        /\ \A j \in Jti : (life'[j] # "unissued" <=> j \in Issued')
        /\ Issued \subseteq Jti /\ Issued' \subseteq Jti
    BY DEF Issued
  <1>2. \A j \in Jti : /\ S'[j] = IF j \notin Issued' THEN "unissued"
                                  ELSE IF j \in revoked' THEN "spent" ELSE "live"
                       /\ R'[j] = claims'[j].root
    BY <1>1 DEF StateOf
  <1>3. /\ \A j \in Jti : S[j] = IF j \notin Issued THEN "unissued"
                                 ELSE IF j \in revoked THEN "spent" ELSE "live"
        /\ \A j \in Jti : R[j] = claims[j].root
    BY <1>1 DEF StateOf
  <1>4. ASSUME NEW k \in Jti, Opens(k)  PROVE Store!Open(k)
    <2>1. \A j \in Jti \ {k} : claims'[j] = claims[j]
      BY <1>4 DEF Opens, Mint, WellFormed, TypeOK
    <2>2. /\ \A j \in Jti : S'[j] = IF j = k THEN "live" ELSE S[j]
          /\ \A j \in Jti : R'[j] = IF j = k THEN k ELSE R[j]
      BY <1>2, <1>3, <1>4, <2>1, OpensIssues
    <2>3. S[k] = "unissued"
      BY <1>3, <1>4, OpensIssues
    <2>4. S' = [S EXCEPT ![k] = "live"] /\ R' = [R EXCEPT ![k] = k]
      BY <2>2
    <2>. QED  BY <2>3, <2>4 DEF Store!Open, StateOf
  <1>5. ASSUME NEW j \in Jti, NEW k \in Jti, Rotates(j, k)  PROVE Store!Rotate(j, k)
    <2>1. \A i \in Jti \ {k} : claims'[i] = claims[i]
      BY <1>5 DEF Rotates, Mint, WellFormed, TypeOK
    <2>2. /\ \A i \in Jti : S'[i] = IF i = k THEN "live" ELSE IF i = j THEN "spent" ELSE S[i]
          /\ \A i \in Jti : R'[i] = IF i = k THEN R[j] ELSE R[i]
      BY <1>2, <1>3, <1>5, <2>1, RotatesIssues
    <2>3. S[j] = "live" /\ S[k] = "unissued"
      BY <1>3, <1>5, RotatesIssues
    <2>4. /\ S' = [S EXCEPT ![j] = "spent", ![k] = "live"]
          /\ R' = [R EXCEPT ![k] = R[j]]
      BY <2>2
    <2>. QED  BY <2>3, <2>4 DEF Store!Rotate, StateOf
  <1>6. ASSUME NEW j \in Jti, Spends(j)  PROVE Store!Close(j)
    <2>1. S' = [S EXCEPT ![j] = "spent"] /\ R' = R
      BY <1>2, <1>3, <1>6 DEF Spends, Live
    <2>2. S[j] = "live"
      BY <1>3, <1>6 DEF Spends, Live
    <2>. QED  BY <2>1, <2>2 DEF Store!Close, StateOf
  <1>7. CASE Keeps
    <2>1. S' = S /\ R' = R
      BY <1>2, <1>3, <1>7 DEF Keeps
    <2>. QED  BY <2>1 DEF Store!storeVars, StateOf
  <1>. QED
    BY <1>4, <1>5, <1>6, <1>7, NextTokenStep DEF TokenStep, Store!StoreNext

(* The handlers, interleaved at every await and cut short by crashes,       *)
(* consume and exchange refresh tokens as if each did it in one step.       *)
THEOREM Implementation == Spec => ImplementsSessionStore
  <1>1. Init => Store!StoreInit
    BY DEF Init, Store!StoreInit
  <1>2. WellFormed /\ [Next]_vars => [Store!StoreNext]_(Store!storeVars)
    BY StoreStep
  <1>. QED
    BY <1>1, <1>2, AlwaysWellFormed, PTL DEF Spec, ImplementsSessionStore, Store!StoreSpec
=============================================================================
