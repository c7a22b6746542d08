---------------------------- MODULE ClientSession ----------------------------
(***************************************************************************)
(* The app's side of a session: core/network/auth_interceptor.dart,         *)
(* core/storage/token_storage.dart, features/auth/data/auth_repository.dart *)
(* and features/auth/cubit/auth_cubit.dart under app/lib, on top of the     *)
(* session store that module Auth implements.                               *)
(*                                                                          *)
(* Dart runs one piece of code at a time up to its next await.  The three   *)
(* tabs of the home screen load at once, so several requests go through one *)
(* interceptor together, and the two tokens are stored by two writes.  A    *)
(* request or its response may be lost.  Pairs are named as in Auth: access *)
(* and refresh hold the pair whose token is in the secure storage.          *)
(*                                                                          *)
(* Left out: a secure storage that throws, and the bodies of requests.      *)
(***************************************************************************)
EXTENDS SessionStore, FiniteSets

CONSTANTS Calls,      \* bound: requests of the app in flight at a time
          CallsApart  \* assume no request is in flight while the user logs in or out

ASSUME ClientAssumption == None \notin Jti /\ CallsApart \in BOOLEAN

VARIABLES accepted,     \* pairs whose access token the API accepts
          access,       \* fitfolio.access_token
          refresh,      \* fitfolio.refresh_token
          isRefreshing, \* the interceptor's flag
          status,       \* AuthState.status
          signedOut,    \* history: the last login or logout to end was a logout
          torn,         \* history: what the app was stopped at, of saving and clearing
          call,         \* each request through the interceptor
          form          \* the login or logout the user has started

storage == <<access, refresh>>
server == <<state, root, accepted>>
vars == <<state, root, accepted, access, refresh, isRefreshing, status, signedOut, torn, call,
          form>>

-----------------------------------------------------------------------------

Token == Jti \cup {None}

Statuses == {"unknown", "authenticating", "authenticated", "unauthenticated"}

Saving == {"save_access", "save_refresh"}

Refreshing == {"refresh", "retry", "clear_access", "clear_refresh"} \cup Saving

CallPCs == {"idle", "attach", "sent", "unauthorized", "read_refresh"} \cup Refreshing

FormPCs == {"idle", "login", "logout", "logout_sent", "clear_access", "clear_refresh"}
             \cup Saving

(* What the app may be doing with the stored tokens when it is stopped.    *)
Stops == {"saving", "clearing"}

(* boot: the request is the one checkAuthStatus makes when the app starts. *)
Call == [pc : CallPCs, boot : BOOLEAN, token : Token, new : Token]

Form == [pc : FormPCs, token : Token]

NoCall == [pc |-> "idle", boot |-> FALSE, token |-> None, new |-> None]

NoForm == [pc |-> "idle", token |-> None]

TypeOK == /\ StoreTypeOK
          /\ accepted \subseteq Jti
          /\ access \in Token /\ refresh \in Token
          /\ isRefreshing \in BOOLEAN
          /\ status \in Statuses
          /\ signedOut \in BOOLEAN /\ torn \subseteq Stops
          /\ call \in [Calls -> Call]
          /\ form \in Form

At(c, pc) == call[c].pc = pc

FormAt(pc) == form.pc = pc

(* main() starts checkAuthStatus before the first frame.                   *)
Booting == {[c \in Calls |-> IF c = b THEN [NoCall EXCEPT !.pc = "attach", !.boot = TRUE]
                             ELSE NoCall] : b \in Calls}

Init == /\ StoreInit
        /\ accepted = {}
        /\ access = None /\ refresh = None
        /\ isRefreshing = FALSE
        /\ status = "unknown"
        /\ signedOut = FALSE /\ torn = {}
        /\ call \in Booting
        /\ form = NoForm

-----------------------------------------------------------------------------

Goto(c, pc) == call' = [call EXCEPT ![c].pc = pc]

(* The future of the request completes, and with it checkAuthStatus.       *)
End(c, result) == /\ call' = [call EXCEPT ![c] = NoCall]
                  /\ status' = IF call[c].boot THEN result ELSE status

Succeed(c) == End(c, "authenticated")

(* Should AuthCubit fail with the status the other cubits have, or, in      *)
(* checkAuthStatus, not at all:                                             *)
FailWithError(c) == End(c, "error")

FailQuietly(c) == End(c, status)

Fail(c) == End(c, "unauthenticated")

SaveAccessToken(k) == access' = k /\ UNCHANGED refresh

SaveRefreshToken(k) == refresh' = k /\ UNCHANGED access

ServeOpen(k) == Open(k) /\ accepted' = accepted \cup {k}

ServeRotate(j, k) == Rotate(j, k) /\ accepted' = accepted \cup {k}

ServeClose(j) == Close(j) /\ UNCHANGED accepted

-----------------------------------------------------------------------------
(* A request through the interceptor.                                       *)

(* A screen asks for something: the home screen is up unless the user has   *)
(* to log in.                                                               *)
Begin(c) ==
  /\ At(c, "idle")
  /\ status \in {"unknown", "authenticated"}
  /\ CallsApart => FormAt("idle")
  /\ Goto(c, "attach")
  /\ UNCHANGED <<server, storage, isRefreshing, status, signedOut, torn, form>>

(* onRequest *)
Attach(c) ==
  /\ At(c, "attach")
  /\ call' = [call EXCEPT ![c].pc = "sent", ![c].token = access]
  /\ UNCHANGED <<server, storage, isRefreshing, status, signedOut, torn, form>>

ServedOk(c) ==
  /\ At(c, "sent")
  /\ call[c].token \in accepted
  /\ Succeed(c)
  /\ UNCHANGED <<server, storage, isRefreshing, signedOut, torn, form>>

Served401(c) ==
  /\ At(c, "sent")
  /\ call[c].token \in Jti \ accepted
  /\ Goto(c, "unauthorized")
  /\ UNCHANGED <<server, storage, isRefreshing, status, signedOut, torn, form>>

(* No connection, or any other error: 403 for a request without a token.   *)
ServedError(c) ==
  /\ At(c, "sent")
  /\ Fail(c)
  /\ UNCHANGED <<server, storage, isRefreshing, signedOut, torn, form>>

(* onError: nobody is refreshing, so this request will ...                 *)
OnError401(c) ==
  /\ At(c, "unauthorized")
  /\ ~isRefreshing
  /\ Goto(c, "read_refresh")
  /\ UNCHANGED <<server, storage, isRefreshing, status, signedOut, torn, form>>

(* ... and while somebody is, the 401 goes to the caller.                  *)
OnErrorPassesOn(c) ==
  /\ At(c, "unauthorized")
  /\ isRefreshing
  /\ Fail(c)
  /\ UNCHANGED <<server, storage, isRefreshing, signedOut, torn, form>>

ReadNoRefreshToken(c) ==
  /\ At(c, "read_refresh")
  /\ refresh = None
  /\ Fail(c)
  /\ UNCHANGED <<server, storage, isRefreshing, signedOut, torn, form>>

ReadRefreshToken(c) ==
  /\ At(c, "read_refresh")
  /\ refresh # None
  /\ isRefreshing' = TRUE
  /\ call' = [call EXCEPT ![c].pc = "refresh", ![c].token = refresh]
  /\ UNCHANGED <<server, storage, status, signedOut, torn, form>>

(* POST /auth/refresh *)
RefreshServed(c) ==
  /\ At(c, "refresh")
  /\ \E k \in Jti :
       /\ ServeRotate(call[c].token, k)
       /\ call' = [call EXCEPT ![c].pc = "save_access", ![c].new = k]
  /\ UNCHANGED <<storage, isRefreshing, status, signedOut, torn, form>>

(* Refused, not delivered, limited ...                                     *)
RefreshFails(c) ==
  /\ At(c, "refresh")
  /\ Goto(c, "clear_access")
  /\ UNCHANGED <<server, storage, isRefreshing, status, signedOut, torn, form>>

(* ... or committed and the answer lost: the new pair is live and nobody   *)
(* has it.  Should the catch not clear the tokens then:                     *)
RefreshLostKeepsTokens(c) ==
  /\ At(c, "refresh")
  /\ \E k \in Jti : ServeRotate(call[c].token, k)
  /\ isRefreshing' = FALSE
  /\ Fail(c)
  /\ UNCHANGED <<storage, signedOut, torn, form>>

RefreshLost(c) ==
  /\ At(c, "refresh")
  /\ \E k \in Jti : ServeRotate(call[c].token, k)
  /\ Goto(c, "clear_access")
  /\ UNCHANGED <<storage, isRefreshing, status, signedOut, torn, form>>

SaveAccess(c) ==
  /\ At(c, "save_access")
  /\ SaveAccessToken(call[c].new)
  /\ Goto(c, "save_refresh")
  /\ UNCHANGED <<server, isRefreshing, status, signedOut, torn, form>>

(* Should only the access token be saved, as saveAccessToken does:         *)
SaveRefreshSkipped(c) ==
  /\ At(c, "save_refresh")
  /\ Goto(c, "retry")
  /\ UNCHANGED <<torn, server, storage, isRefreshing, status, signedOut, form>>

SaveRefresh(c) ==
  /\ At(c, "save_refresh")
  /\ SaveRefreshToken(call[c].new) /\ torn' = {}
  /\ Goto(c, "retry")
  /\ UNCHANGED <<server, isRefreshing, status, signedOut, form>>

(* Whatever else happens, finally resets the flag.                         *)
RetryOk(c) ==
  /\ At(c, "retry")
  /\ call[c].new \in accepted
  /\ isRefreshing' = FALSE
  /\ Succeed(c)
  /\ UNCHANGED <<server, storage, signedOut, torn, form>>

(* The request fails again, with any error: the catch clears the tokens.   *)
RetryFails(c) ==
  /\ At(c, "retry")
  /\ Goto(c, "clear_access")
  /\ UNCHANGED <<server, storage, isRefreshing, status, signedOut, torn, form>>

ClearAccess(c) ==
  /\ At(c, "clear_access")
  /\ SaveAccessToken(None)
  /\ Goto(c, "clear_refresh")
  /\ UNCHANGED <<server, isRefreshing, status, signedOut, torn, form>>

(* Should the flag be reset only where the retry succeeds:                 *)
ClearRefreshKeepsFlag(c) ==
  /\ At(c, "clear_refresh")
  /\ SaveRefreshToken(None) /\ torn' = {}
  /\ Fail(c)
  /\ UNCHANGED <<server, isRefreshing, signedOut, form>>

ClearRefresh(c) ==
  /\ At(c, "clear_refresh")
  /\ SaveRefreshToken(None) /\ torn' = {}
  /\ isRefreshing' = FALSE
  /\ Fail(c)
  /\ UNCHANGED <<server, signedOut, form>>

-----------------------------------------------------------------------------
(* The user.                                                                *)

NobodyCalls == \A c \in Calls : At(c, "idle")

(* AuthCubit.login and register: they differ in nothing that is kept here. *)
LogIn ==
  /\ FormAt("idle")
  /\ status = "unauthenticated"
  /\ CallsApart => NobodyCalls
  /\ status' = "authenticating"
  /\ form' = [NoForm EXCEPT !.pc = "login"]
  /\ UNCHANGED <<server, storage, isRefreshing, signedOut, torn, call>>

LogInServed ==
  /\ FormAt("login")
  /\ \E k \in Jti : ServeOpen(k) /\ form' = [pc |-> "save_access", token |-> k]
  /\ UNCHANGED <<storage, isRefreshing, status, signedOut, torn, call>>

(* Refused, or not delivered: an ApiException.                             *)
LogInFails ==
  /\ FormAt("login")
  /\ status' = "unauthenticated"
  /\ form' = NoForm
  /\ UNCHANGED <<server, storage, isRefreshing, signedOut, torn, call>>

LogInSaveAccess ==
  /\ FormAt("save_access")
  /\ SaveAccessToken(form.token)
  /\ form' = [form EXCEPT !.pc = "save_refresh"]
  /\ signedOut' = FALSE
  /\ UNCHANGED <<torn, server, isRefreshing, status, call>>

LogInSaveRefresh ==
  /\ FormAt("save_refresh")
  /\ SaveRefreshToken(form.token)
  /\ torn' = {}
  /\ form' = NoForm
  /\ status' = "authenticated"
  /\ UNCHANGED <<server, isRefreshing, signedOut, call>>

(* The drawer of the home screen: AuthRepository.logout reads the token ... *)
LogOut ==
  /\ FormAt("idle")
  /\ status \in {"unknown", "authenticated"}
  /\ CallsApart => NobodyCalls
  /\ form' = [NoForm EXCEPT !.pc = "logout"]
  /\ UNCHANGED <<server, storage, isRefreshing, status, signedOut, torn, call>>

LogOutRead ==
  /\ FormAt("logout")
  /\ form' = IF refresh = None THEN [form EXCEPT !.pc = "clear_access"]
             ELSE [pc |-> "logout_sent", token |-> refresh]
  /\ UNCHANGED <<server, storage, isRefreshing, status, signedOut, torn, call>>

(* ... gives it to POST /auth/logout ...                                   *)
LogOutServed ==
  /\ FormAt("logout_sent")
  /\ ServeClose(form.token)
  /\ form' = [form EXCEPT !.pc = "clear_access"]
  /\ UNCHANGED <<storage, isRefreshing, status, signedOut, torn, call>>

(* Should an error of the request end the logout:                          *)
LogOutGivesUp ==
  /\ FormAt("logout_sent")
  /\ form' = NoForm
  /\ UNCHANGED <<server, storage, isRefreshing, status, signedOut, torn, call>>

(* ... which may fail, or have nothing to do ...                           *)
LogOutNotServed ==
  /\ FormAt("logout_sent")
  /\ form' = [form EXCEPT !.pc = "clear_access"]
  /\ UNCHANGED <<server, storage, isRefreshing, status, signedOut, torn, call>>

(* ... and clears the storage either way.                                  *)
LogOutClearAccess ==
  /\ FormAt("clear_access")
  /\ SaveAccessToken(None)
  /\ form' = [form EXCEPT !.pc = "clear_refresh"]
  /\ UNCHANGED <<server, isRefreshing, status, signedOut, torn, call>>

(* Should a logout the server did not hear of keep its token for later:    *)
LogOutKeepsLive ==
  /\ FormAt("clear_refresh")
  /\ SaveRefreshToken(IF form.token # None /\ state[form.token] = "live" THEN form.token ELSE None)
  /\ torn' = {}
  /\ form' = NoForm
  /\ status' = "unauthenticated"
  /\ signedOut' = TRUE
  /\ UNCHANGED <<server, isRefreshing, call>>

LogOutClearRefresh ==
  /\ FormAt("clear_refresh")
  /\ SaveRefreshToken(None)
  /\ torn' = {}
  /\ form' = NoForm
  /\ status' = "unauthenticated"
  /\ signedOut' = TRUE
  /\ UNCHANGED <<server, isRefreshing, call>>

-----------------------------------------------------------------------------
(* The environment.                                                         *)

AccessExpires(j) ==
  /\ j \in accepted
  /\ accepted' = accepted \ {j}
  /\ UNCHANGED <<state, root, storage, isRefreshing, status, signedOut, torn, call, form>>

(* Logout-all on another device: what is live is as good as spent.         *)
EndedElsewhere(j) ==
  /\ Close(j)
  /\ accepted' = {k \in accepted : root[k] # root[j]}
  /\ UNCHANGED <<storage, isRefreshing, status, signedOut, torn, call, form>>

HalfSaved == FormAt("save_access") \/ FormAt("save_refresh")
               \/ \E c \in Calls : call[c].pc \in Saving

Clearing == \E c \in Calls : call[c].pc \in {"clear_access", "clear_refresh"}

(* The app is stopped and started again: only the storage is left.         *)
Restart ==
  /\ call' \in Booting
  /\ torn' = torn \cup {s \in Stops : IF s = "saving" THEN HalfSaved ELSE Clearing}
  /\ form' = NoForm
  /\ isRefreshing' = FALSE
  /\ status' = "unknown"
  /\ UNCHANGED <<server, storage, signedOut>>

CallProgress(c) ==
  \/ Attach(c) \/ ServedOk(c) \/ Served401(c) \/ ServedError(c)
  \/ OnError401(c) \/ OnErrorPassesOn(c) \/ ReadNoRefreshToken(c) \/ ReadRefreshToken(c)
  \/ RefreshServed(c) \/ RefreshFails(c) \/ RefreshLost(c)
  \/ SaveAccess(c) \/ SaveRefresh(c) \/ RetryOk(c) \/ RetryFails(c)
  \/ ClearAccess(c) \/ ClearRefresh(c)

FormProgress ==
  \/ LogInServed \/ LogInFails \/ LogInSaveAccess \/ LogInSaveRefresh
  \/ LogOutRead \/ LogOutServed \/ LogOutNotServed
  \/ LogOutClearAccess \/ LogOutClearRefresh

Next == \/ \E c \in Calls : Begin(c) \/ CallProgress(c)
        \/ LogIn \/ LogOut \/ FormProgress
        \/ \E j \in Jti : AccessExpires(j) \/ EndedElsewhere(j)
        \/ Restart

Spec == Init /\ [][Next]_vars

(* What has begun goes on: the event loop of Dart runs whatever is ready,   *)
(* and a request is answered or fails.  Nobody has to use the app, and      *)
(* nothing has to expire.                                                   *)
FairSpec == Spec /\ (\A c \in Calls : WF_vars(CallProgress(c))) /\ WF_vars(FormProgress)

-----------------------------------------------------------------------------

(* The flag is up only while a request is being refreshed, whichever way   *)
(* the refresh or the retry ends: were it left up, no 401 would ever be     *)
(* recovered from again (auth_interceptor.dart:38-55).                      *)
FlagMeansRefreshing ==
  isRefreshing => \E c \in Calls : call[c].pc \in Refreshing

(* The app does not go on with a token it was given a successor of: the     *)
(* refresh token it holds is not one that was exchanged for another that is *)
(* still live, even if two requests refreshed at the same time.  There are  *)
(* two ways to be left with such a token, and each lasts only until the     *)
(* next pair is saved or cleared.  One is a stop of the app while it saves  *)
(* a pair.  The other is a lost answer: the API has committed the exchange  *)
(* (auth.py:126-130), the app has the spent token and nobody the live one,  *)
(* until the catch has cleared both tokens, or a stop is in its way         *)
(* (auth_interceptor.dart:38-55, token_storage.dart:16-19 and 24-27).       *)
HoldsSuccessor ==
  refresh # None /\ state[refresh] = "spent" /\ ~HalfSaved /\ ~Clearing /\ torn = {}
    => LiveIn(root[refresh]) = {}

(* The two tokens in the storage are of one pair when nobody is writing    *)
(* them, nor was when the app was last stopped, whatever refreshes were     *)
(* going on at the same time                                                *)
(* (token_storage.dart:16-27).                                             *)
StoredTokensMatch ==
  /\ "saving" \notin torn
  /\ form.pc \notin Saving \cup {"clear_refresh"}
  /\ \A c \in Calls : call[c].pc \notin Saving \cup {"clear_refresh"}
  /\ access # None
  /\ refresh # None
  => access = refresh

(* "Best-effort: still clear local tokens even if the server call fails."  *)
(* (auth_repository.dart:64): from a logout to the next login there is no   *)
(* token in the storage.                                                    *)
SignedOutHoldsNothing == signedOut => access = None /\ refresh = None

(* After a start the app learns whether there is a session, whatever becomes *)
(* of the request made then and of the refresh it may need: the status does *)
(* not stay unknown, unless the app is stopped again and again              *)
(* (auth_cubit.dart:15-23, main.dart:38-40).                                *)
StatusSettles == []<>(status # "unknown") \/ []<><<Restart>>_vars

(* "still clear local tokens even if the server call fails"                 *)
(* (auth_repository.dart:64): a logout that has begun ends with the user    *)
(* signed out and the storage cleared, unless the app is stopped before.    *)
LogOutEnds == FormAt("logout") /\ status = "authenticated" ~> signedOut \/ status = "unknown"
=============================================================================
