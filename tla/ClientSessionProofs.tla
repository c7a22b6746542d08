------------------------- MODULE ClientSessionProofs -------------------------
(***************************************************************************)
(* Theorems about ClientSession, and the two about SessionStore that they   *)
(* rest on, for any set of tokens and any number of requests in flight.     *)
(***************************************************************************)
EXTENDS ClientSession, TLAPS

USE DEF Saving, Refreshing

-----------------------------------------------------------------------------
(* The session store.                                                       *)

Issued(j) == state[j] # "unissued"

(* Every token that was issued belongs to a session that was opened.        *)
RootsIssued ==
  \A j \in Jti : IF Issued(j) THEN root[j] \in Jti /\ Issued(root[j]) ELSE root[j] = None

StoreWellFormed == StoreTypeOK /\ RootsIssued /\ OneLive

LEMMA InitStoreWellFormed == StoreInit => StoreWellFormed
  BY ClientAssumption
  DEF StoreInit, StoreWellFormed, StoreTypeOK, TokenStates, RootsIssued, Issued, OneLive

LEMMA NextStoreWellFormed ==
  ASSUME StoreWellFormed, [StoreNext]_storeVars
  PROVE  StoreWellFormed'
  <1>1. CASE UNCHANGED storeVars
    BY <1>1 DEF storeVars, StoreWellFormed, StoreTypeOK, RootsIssued, Issued, OneLive
  <1>2. ASSUME NEW k \in Jti, Open(k)  PROVE StoreWellFormed'
    BY <1>2, ClientAssumption
    DEF Open, StoreWellFormed, StoreTypeOK, TokenStates, RootsIssued, Issued, OneLive
  <1>3. ASSUME NEW j \in Jti, NEW k \in Jti, Rotate(j, k)  PROVE StoreWellFormed'
    BY <1>3, ClientAssumption
    DEF Rotate, StoreWellFormed, StoreTypeOK, TokenStates, RootsIssued, Issued, OneLive
  <1>4. ASSUME NEW j \in Jti, Close(j)  PROVE StoreWellFormed'
    BY <1>4, ClientAssumption
    DEF Close, StoreWellFormed, StoreTypeOK, TokenStates, RootsIssued, Issued, OneLive
  <1>. QED  BY <1>1, <1>2, <1>3, <1>4 DEF StoreNext

(* Exchanging a token leaves one live token in its session, however often   *)
(* it is done and whatever else is opened and closed.                       *)
THEOREM StoreOneLive == StoreSpec => []OneLive
  <1>1. StoreWellFormed => OneLive
    BY DEF StoreWellFormed
  <1>. QED  BY <1>1, InitStoreWellFormed, NextStoreWellFormed, PTL DEF StoreSpec

(* A session without a live token is over for good: only a live token is    *)
(* exchanged, and a new session has a new root.                             *)
THEOREM StoreDeadStaysDead == StoreSpec => DeadStaysDead
  <1> DEFINE StaysDead ==
        \A r \in Jti : state[r] # "unissued" /\ LiveIn(r) = {} => LiveIn(r)' = {}
  <1>1. StoreWellFormed /\ [StoreNext]_storeVars => [StaysDead]_storeVars
    <2> SUFFICES ASSUME StoreWellFormed, StoreNext, NEW r \in Jti, state[r] # "unissued",
                        LiveIn(r) = {}
                 PROVE  LiveIn(r)' = {}
      OBVIOUS
    <2>1. ASSUME NEW k \in Jti, Open(k)  PROVE LiveIn(r)' = {}
      BY <2>1 DEF Open, LiveIn, StoreWellFormed, StoreTypeOK
    <2>2. ASSUME NEW j \in Jti, NEW k \in Jti, Rotate(j, k)  PROVE LiveIn(r)' = {}
      BY <2>2 DEF Rotate, LiveIn, StoreWellFormed, StoreTypeOK
    <2>3. ASSUME NEW j \in Jti, Close(j)  PROVE LiveIn(r)' = {}
      BY <2>3 DEF Close, LiveIn, StoreWellFormed, StoreTypeOK
    <2>. QED  BY <2>1, <2>2, <2>3 DEF StoreNext
  <1>2. StoreSpec => []StoreWellFormed
    BY InitStoreWellFormed, NextStoreWellFormed, PTL DEF StoreSpec
  <1>. QED  BY <1>1, <1>2, PTL DEF StoreSpec, DeadStaysDead

(* The newest token of its session: live, or no token of the session is.    *)
Last(k) == k \in Jti /\ Issued(k) /\ (state[k] = "live" \/ LiveIn(root[k]) = {})

(* A token that is not exchanged stays the newest.                          *)
LEMMA LastStays ==
  ASSUME StoreWellFormed, [StoreNext]_storeVars, NEW k, Last(k),
         \A j, l \in Jti : Rotate(j, l) => j # k
  PROVE  Last(k)'
  <1>1. CASE UNCHANGED storeVars
    BY <1>1 DEF storeVars, Last, Issued, LiveIn
  <1>2. ASSUME NEW l \in Jti, Open(l)  PROVE Last(k)'
    BY <1>2 DEF Open, Last, Issued, LiveIn, StoreWellFormed, StoreTypeOK, RootsIssued
  <1>3. ASSUME NEW j \in Jti, NEW l \in Jti, Rotate(j, l)  PROVE Last(k)'
    <2>1. j # k /\ state[j] = "live"
      BY <1>3 DEF Rotate
    <2>2. root[j] # root[k]
      BY <2>1 DEF Last, LiveIn, StoreWellFormed, OneLive
    <2>. QED
      BY <1>3, <2>1, <2>2 DEF Rotate, Last, Issued, LiveIn, StoreWellFormed, StoreTypeOK
  <1>4. ASSUME NEW j \in Jti, Close(j)  PROVE Last(k)'
    BY <1>4 DEF Close, Last, Issued, LiveIn, StoreWellFormed, StoreTypeOK, OneLive
  <1>. QED  BY <1>1, <1>2, <1>3, <1>4 DEF StoreNext

-----------------------------------------------------------------------------
(* The app.                                                                 *)

(* What is between the awaits of a request, or of a login or logout.        *)
Holds(q) == /\ q.pc = "refresh" => q.token \in Jti
            /\ q.pc \in Saving \cup {"retry"} => q.new \in Jti

FormHolds == form.pc \in Saving \cup {"logout_sent"} => form.token \in Jti

WellFormed == /\ TypeOK /\ StoreWellFormed
              /\ \A c \in Calls : Holds(call[c])
              /\ FormHolds

(* A request goes on: it only refreshes with the token that it reads, and   *)
(* only saves what it was given for one.                                    *)
CallStep(c) ==
  \E q \in Call :
    /\ call' = [call EXCEPT ![c] = q]
    /\ Holds(q)
    /\ q.pc = "refresh" => q.token = refresh
    /\ q.pc \in Saving =>
         \/ SaveAccess(c) /\ q.pc = "save_refresh" /\ q.new = call[c].new
         \/ At(c, "refresh") /\ q.pc = "save_access" /\ Rotate(call[c].token, q.new)

LEMMA BootingIdles ==
  ASSUME NEW f \in Booting
  PROVE  f \in [Calls -> Call] /\ \A c \in Calls : f[c].pc \in {"idle", "attach"}
  <1>1. NoCall \in Call /\ NoCall.pc = "idle"
    BY DEF NoCall, Call, CallPCs, Token
  <1>2. PICK q \in Call : q = [NoCall EXCEPT !.pc = "attach", !.boot = TRUE]
    BY DEF NoCall, Call, CallPCs, Token
  <1>3. q.pc = "attach"
    BY <1>2 DEF NoCall
  <1>4. PICK b \in Calls : f = [c \in Calls |-> IF c = b THEN q ELSE NoCall]
    BY <1>2 DEF Booting
  <1>. QED  BY <1>1, <1>3, <1>4

LEMMA InitWellFormed == Init => WellFormed
  <1> SUFFICES ASSUME Init  PROVE WellFormed
    OBVIOUS
  <1>1. call \in [Calls -> Call] /\ \A c \in Calls : Holds(call[c])
    BY BootingIdles DEF Init, Holds
  <1>2. TypeOK /\ StoreWellFormed /\ FormHolds
    BY <1>1, InitStoreWellFormed
    DEF Init, TypeOK, StoreWellFormed, FormHolds, NoForm, Token, Statuses, Form, FormPCs
  <1>. QED  BY <1>1, <1>2 DEF WellFormed

(* The parts of a request that most steps leave alone.                      *)
LEMMA GotoIsCallStep ==
  ASSUME WellFormed, NEW c \in Calls, NEW pc \in CallPCs, Goto(c, pc),
         pc # "refresh", pc # "save_access",
         pc = "save_refresh" => SaveAccess(c),
         pc = "retry" => At(c, "save_refresh")
  PROVE  CallStep(c)
  <1>1. [call[c] EXCEPT !.pc = pc] \in Call
    BY DEF WellFormed, TypeOK, Call
  <1>2. PICK q \in Call : q = [call[c] EXCEPT !.pc = pc]
    BY <1>1
  <1>3. q.pc = pc /\ q.new = call[c].new
    BY <1>2 DEF WellFormed, TypeOK, Call
  <1>4. call' = [call EXCEPT ![c] = q]
    BY <1>2 DEF Goto, WellFormed, TypeOK
  <1>5. Holds(call[c])
    BY DEF WellFormed
  <1>. QED  BY <1>3, <1>4, <1>5 DEF CallStep, Holds, SaveAccess, At

LEMMA EndIsCallStep ==
  ASSUME WellFormed, NEW c \in Calls, NEW result, End(c, result)
  PROVE  CallStep(c)
  <1>1. NoCall \in Call /\ NoCall.pc = "idle"
    BY DEF NoCall, Call, CallPCs, Token
  <1>2. call' = [call EXCEPT ![c] = NoCall]
    BY DEF End
  <1>. QED  BY <1>1, <1>2 DEF CallStep, Holds

LEMMA AttachIsCallStep ==
  ASSUME WellFormed, NEW c \in Calls, Attach(c)
  PROVE  CallStep(c)
  <1>1. [call[c] EXCEPT !.pc = "sent", !.token = access] \in Call
    BY DEF WellFormed, TypeOK, Call, CallPCs
  <1>2. PICK q \in Call : q = [call[c] EXCEPT !.pc = "sent", !.token = access]
    BY <1>1
  <1>3. q.pc = "sent"
    BY <1>2 DEF WellFormed, TypeOK, Call
  <1>4. call' = [call EXCEPT ![c] = q]
    BY <1>2 DEF Attach, WellFormed, TypeOK
  <1>. QED  BY <1>3, <1>4 DEF CallStep, Holds

LEMMA ReadIsCallStep ==
  ASSUME WellFormed, NEW c \in Calls, ReadRefreshToken(c)
  PROVE  CallStep(c)
  <1>1. [call[c] EXCEPT !.pc = "refresh", !.token = refresh] \in Call
    BY DEF WellFormed, TypeOK, Call, CallPCs
  <1>2. PICK q \in Call : q = [call[c] EXCEPT !.pc = "refresh", !.token = refresh]
    BY <1>1
  <1>3. q.pc = "refresh" /\ q.token = refresh /\ refresh \in Jti
    BY <1>2 DEF ReadRefreshToken, WellFormed, TypeOK, Call, Token
  <1>4. call' = [call EXCEPT ![c] = q]
    BY <1>2 DEF ReadRefreshToken, WellFormed, TypeOK
  <1>. QED  BY <1>3, <1>4 DEF CallStep, Holds

LEMMA ServedIsCallStep ==
  ASSUME WellFormed, NEW c \in Calls, RefreshServed(c)
  PROVE  CallStep(c)
  <1>1. PICK k \in Jti :
          /\ Rotate(call[c].token, k)
          /\ call' = [call EXCEPT ![c].pc = "save_access", ![c].new = k]
    BY DEF RefreshServed, ServeRotate
  <1>2. [call[c] EXCEPT !.pc = "save_access", !.new = k] \in Call
    BY DEF WellFormed, TypeOK, Call, CallPCs, Token
  <1>3. PICK q \in Call : q = [call[c] EXCEPT !.pc = "save_access", !.new = k]
    BY <1>2
  <1>4. q.pc = "save_access" /\ q.new = k
    BY <1>3 DEF WellFormed, TypeOK, Call
  <1>5. call' = [call EXCEPT ![c] = q]
    BY <1>1, <1>3 DEF WellFormed, TypeOK
  <1>. QED  BY <1>1, <1>4, <1>5 DEF CallStep, Holds, RefreshServed, At

LEMMA NextCall ==
  ASSUME WellFormed, [Next]_vars
  PROVE  \/ UNCHANGED call
         \/ \E c \in Calls : CallStep(c)
         \/ Restart
  <1>1. ASSUME NEW c \in Calls, Begin(c) \/ CallProgress(c)  PROVE CallStep(c)
    <2>1. CASE \/ Begin(c) \/ Served401(c) \/ OnError401(c) \/ RefreshFails(c)
               \/ RefreshLost(c) \/ SaveAccess(c) \/ SaveRefresh(c) \/ RetryFails(c)
               \/ ClearAccess(c)
      BY <2>1, GotoIsCallStep
      DEF Begin, Served401, OnError401, RefreshFails, RefreshLost, SaveAccess, SaveRefresh,
          RetryFails, ClearAccess, CallPCs
    <2>2. CASE \/ ServedOk(c) \/ ServedError(c) \/ OnErrorPassesOn(c)
               \/ ReadNoRefreshToken(c) \/ RetryOk(c) \/ ClearRefresh(c)
      BY <2>2, EndIsCallStep
      DEF ServedOk, ServedError, OnErrorPassesOn, ReadNoRefreshToken, RetryOk, ClearRefresh,
          Succeed, Fail
    <2>. QED
      BY <1>1, <2>1, <2>2, AttachIsCallStep, ReadIsCallStep, ServedIsCallStep
      DEF CallProgress
  <1>. QED
    BY <1>1
    DEF Next, LogIn, LogOut, FormProgress, LogInServed, LogInFails, LogInSaveAccess,
        LogInSaveRefresh, LogOutRead, LogOutServed, LogOutNotServed, LogOutClearAccess,
        LogOutClearRefresh, AccessExpires, EndedElsewhere, vars

(* The API exchanges the token, whether or not the answer arrives.          *)
Refreshes(c) == RefreshServed(c) \/ RefreshLost(c)

(* What the API does for the app, and for another device.                   *)
LEMMA NextStore ==
  ASSUME WellFormed, [Next]_vars
  PROVE  \/ UNCHANGED storeVars
         \/ \E k \in Jti : Open(k) /\ LogInServed
         \/ \E k \in Jti, c \in Calls : Rotate(call[c].token, k) /\ Refreshes(c)
         \/ \E j \in Jti : Close(j)
  <1>1. ASSUME NEW c \in Calls, Begin(c) \/ CallProgress(c)
        PROVE  \/ UNCHANGED storeVars
               \/ \E k \in Jti : Rotate(call[c].token, k) /\ Refreshes(c)
    <2>1. CASE RefreshServed(c)
      BY <2>1 DEF RefreshServed, ServeRotate, Refreshes
    <2>2. CASE RefreshLost(c)
      BY <2>2 DEF RefreshLost, ServeRotate, Refreshes
    <2>3. CASE UNCHANGED server
      BY <2>3 DEF server, storeVars
    <2>. QED
      BY <1>1, <2>1, <2>2, <2>3
      DEF Begin, CallProgress, Attach, ServedOk, Served401, ServedError, OnError401,
          OnErrorPassesOn, ReadNoRefreshToken, ReadRefreshToken, RefreshFails, SaveAccess,
          SaveRefresh, RetryOk, RetryFails, ClearAccess, ClearRefresh
  <1>2. ASSUME LogIn \/ LogOut \/ FormProgress
        PROVE  \/ UNCHANGED storeVars
               \/ \E k \in Jti : Open(k) /\ LogInServed
               \/ \E j \in Jti : Close(j)
    <2>1. CASE LogInServed
      BY <2>1 DEF LogInServed, ServeOpen
    <2>2. CASE LogOutServed
      BY <2>2 DEF LogOutServed, ServeClose, FormAt, WellFormed, FormHolds
    <2>3. CASE UNCHANGED server
      BY <2>3 DEF server, storeVars
    <2>. QED
      BY <1>2, <2>1, <2>2, <2>3
      DEF LogIn, LogOut, FormProgress, LogInFails, LogInSaveAccess, LogInSaveRefresh,
          LogOutRead, LogOutNotServed, LogOutClearAccess, LogOutClearRefresh
  <1>. QED
    BY <1>1, <1>2 DEF Next, AccessExpires, EndedElsewhere, Restart, server, storeVars, vars

(* With several requests refreshing at once the API sees nothing but        *)
(* sessions that are opened, continued and closed: a spent token is refused. *)
LEMMA NextStoreNext ==
  ASSUME WellFormed, [Next]_vars  PROVE [StoreNext]_storeVars
  <1>1. ASSUME NEW c \in Calls, Refreshes(c)  PROVE call[c].token \in Jti
    BY <1>1 DEF Refreshes, RefreshServed, RefreshLost, At, WellFormed, Holds
  <1>. QED  BY <1>1, NextStore DEF StoreNext

LEMMA NextForm ==
  ASSUME WellFormed, [Next]_vars
  PROVE  /\ form' \in Form /\ FormHolds'
         /\ form'.pc \in Saving =>
              \/ form.pc \in Saving /\ form'.token = form.token
              \/ LogInServed /\ Open(form'.token)
  <1>1. CASE UNCHANGED form
    BY <1>1 DEF WellFormed, TypeOK, FormHolds
  <1>2. ASSUME NEW c \in Calls, Begin(c) \/ CallProgress(c)  PROVE UNCHANGED form
    BY <1>2
    DEF Begin, CallProgress, Attach, ServedOk, Served401, ServedError, OnError401,
        OnErrorPassesOn, ReadNoRefreshToken, ReadRefreshToken, RefreshServed, RefreshFails,
        RefreshLost, SaveAccess, SaveRefresh, RetryOk, RetryFails, ClearAccess, ClearRefresh
  <1>3. CASE LogIn \/ LogOut \/ LogInFails \/ LogInSaveRefresh \/ LogOutClearRefresh \/ Restart
    BY <1>3 DEF LogIn, LogOut, LogInFails, LogInSaveRefresh, LogOutClearRefresh, Restart,
       NoForm, Form, FormPCs, Token, FormHolds
  <1>4. CASE LogInServed
    <2>1. PICK k \in Jti : Open(k) /\ form' = [pc |-> "save_access", token |-> k]
      BY <1>4 DEF LogInServed, ServeOpen
    <2>. QED  BY <1>4, <2>1 DEF Form, FormPCs, Token, FormHolds
  <1>5. CASE \/ LogInSaveAccess \/ LogOutRead \/ LogOutServed \/ LogOutNotServed
             \/ LogOutClearAccess
    BY <1>5 DEF LogInSaveAccess, LogOutRead, LogOutServed, LogOutNotServed,
       LogOutClearAccess, FormAt, WellFormed, TypeOK, Form, FormPCs, Token, FormHolds
  <1>. QED
    BY <1>1, <1>2, <1>3, <1>4, <1>5
    DEF Next, FormProgress, AccessExpires, EndedElsewhere, vars

(* Who writes the two tokens, and what.                                     *)
LEMMA NextStorage ==
  ASSUME WellFormed, [Next]_vars
  PROVE  /\ \/ access' \in {access, None}
            \/ \E c \in Calls : SaveAccess(c) /\ access' = call[c].new
            \/ LogInSaveAccess /\ access' = form.token
         /\ \/ UNCHANGED refresh
            \/ refresh' = None
            \/ \E c \in Calls : SaveRefresh(c) /\ refresh' = call[c].new
            \/ LogInSaveRefresh /\ refresh' = form.token
  <1>1. ASSUME NEW c \in Calls, Begin(c) \/ CallProgress(c)
        PROVE  \/ UNCHANGED storage
               \/ SaveAccess(c) /\ access' = call[c].new /\ UNCHANGED refresh
               \/ SaveRefresh(c) /\ refresh' = call[c].new /\ UNCHANGED access
               \/ access' = None /\ UNCHANGED refresh
               \/ refresh' = None /\ UNCHANGED access
    BY <1>1
    DEF Begin, CallProgress, Attach, ServedOk, Served401, ServedError, OnError401,
        OnErrorPassesOn, ReadNoRefreshToken, ReadRefreshToken, RefreshServed, RefreshFails,
        RefreshLost, SaveAccess, SaveRefresh, RetryOk, RetryFails, ClearAccess, ClearRefresh,
        SaveAccessToken, SaveRefreshToken
  <1>2. ASSUME LogIn \/ LogOut \/ FormProgress
        PROVE  \/ UNCHANGED storage
               \/ LogInSaveAccess /\ access' = form.token /\ UNCHANGED refresh
               \/ LogInSaveRefresh /\ refresh' = form.token /\ UNCHANGED access
               \/ access' = None /\ UNCHANGED refresh
               \/ refresh' = None /\ UNCHANGED access
    BY <1>2
    DEF LogIn, LogOut, FormProgress, LogInServed, LogInFails, LogInSaveAccess,
        LogInSaveRefresh, LogOutRead, LogOutServed, LogOutNotServed, LogOutClearAccess,
        LogOutClearRefresh, SaveAccessToken, SaveRefreshToken
  <1>. QED
    BY <1>1, <1>2 DEF Next, AccessExpires, EndedElsewhere, Restart, storage, vars

LEMMA NextOthers ==
  ASSUME WellFormed, [Next]_vars
  PROVE  /\ accepted' \subseteq Jti
         /\ isRefreshing' \in BOOLEAN /\ status' \in Statuses
         /\ signedOut' \in BOOLEAN /\ torn' \subseteq Stops
  <1>1. ASSUME NEW c \in Calls, Begin(c) \/ CallProgress(c)
        PROVE  /\ accepted' \subseteq Jti
               /\ isRefreshing' \in BOOLEAN /\ status' \in Statuses
               /\ UNCHANGED signedOut /\ torn' \in {torn, {}}
    <2> USE DEF WellFormed, TypeOK, Statuses
    <2>1. CASE Begin(c) \/ Attach(c) \/ Served401(c) \/ OnError401(c) \/ ReadRefreshToken(c)
      BY <2>1 DEF Begin, Attach, Served401, OnError401, ReadRefreshToken, server
    <2>2. CASE \/ ServedOk(c) \/ ServedError(c) \/ OnErrorPassesOn(c)
               \/ ReadNoRefreshToken(c) \/ RetryOk(c) \/ ClearRefresh(c)
      BY <2>2 DEF ServedOk, ServedError, OnErrorPassesOn, ReadNoRefreshToken, RetryOk,
         ClearRefresh, Succeed, Fail, End, server
    <2>3. CASE \/ RefreshServed(c) \/ RefreshFails(c) \/ RefreshLost(c) \/ SaveAccess(c)
               \/ SaveRefresh(c) \/ RetryFails(c) \/ ClearAccess(c)
      BY <2>3 DEF RefreshServed, RefreshFails, RefreshLost, SaveAccess, SaveRefresh,
         RetryFails, ClearAccess, ServeRotate, server
    <2>. QED  BY <1>1, <2>1, <2>2, <2>3 DEF CallProgress
  <1>2. ASSUME LogIn \/ LogOut \/ FormProgress
        PROVE  /\ accepted' \subseteq Jti
               /\ UNCHANGED isRefreshing /\ status' \in Statuses
               /\ signedOut' \in BOOLEAN /\ torn' \in {torn, {}}
    BY <1>2
    DEF LogIn, LogOut, FormProgress, LogInServed, LogInFails, LogInSaveAccess,
        LogInSaveRefresh, LogOutRead, LogOutServed, LogOutNotServed, LogOutClearAccess,
        LogOutClearRefresh, ServeOpen, ServeClose, server, WellFormed, TypeOK, Statuses
  <1>3. CASE Restart
    BY <1>3 DEF Restart, server, WellFormed, TypeOK, Statuses
  <1>. QED
    BY <1>1, <1>2, <1>3
    DEF Next, AccessExpires, EndedElsewhere, vars, WellFormed, TypeOK

LEMMA NextWellFormed == WellFormed /\ [Next]_vars => WellFormed'
  <1> SUFFICES ASSUME WellFormed, [Next]_vars  PROVE WellFormed'
    OBVIOUS
  <1>1. StoreWellFormed'
    BY NextStoreNext, NextStoreWellFormed DEF WellFormed
  <1>2. call' \in [Calls -> Call] /\ \A c \in Calls : Holds(call[c])'
    <2>1. CASE UNCHANGED call
      BY <2>1 DEF WellFormed, TypeOK, Holds
    <2>2. ASSUME NEW c \in Calls, CallStep(c)
          PROVE  call' \in [Calls -> Call] /\ \A d \in Calls : Holds(call[d])'
      <3>1. PICK q \in Call : call' = [call EXCEPT ![c] = q] /\ Holds(q)
        BY <2>2 DEF CallStep
      <3>2. \A d \in Calls : call'[d] = q \/ call'[d] = call[d]
        BY <3>1 DEF WellFormed, TypeOK
      <3>. QED  BY <3>1, <3>2 DEF WellFormed, TypeOK, Holds
    <2>3. CASE Restart
      BY <2>3, BootingIdles DEF Restart, Booting, Holds
    <2>. QED  BY <2>1, <2>2, <2>3, NextCall
  <1>3. access' \in Token /\ refresh' \in Token
    <2>1. ASSUME NEW c \in Calls, SaveAccess(c) \/ SaveRefresh(c)  PROVE call[c].new \in Token
      BY <2>1 DEF SaveAccess, SaveRefresh, At, WellFormed, Holds, Token
    <2>2. ASSUME LogInSaveAccess \/ LogInSaveRefresh  PROVE form.token \in Token
      BY <2>2 DEF LogInSaveAccess, LogInSaveRefresh, FormAt, WellFormed, FormHolds, Token
    <2>3. access \in Token /\ refresh \in Token /\ None \in Token
      BY DEF WellFormed, TypeOK, Token
    <2>4. access' \in Token
      BY <2>1, <2>2, <2>3, NextStorage
    <2>5. refresh' \in Token
      BY <2>1, <2>2, <2>3, NextStorage
    <2>. QED  BY <2>4, <2>5
  <1>. QED
    BY <1>1, <1>2, <1>3, NextForm, NextOthers DEF WellFormed, TypeOK, StoreWellFormed

(* Between two awaits a request has the tokens that its next step uses, and *)
(* the sessions are those of a store.                                       *)
THEOREM AlwaysWellFormed == Spec => []WellFormed
  <1>. QED  BY InitWellFormed, NextWellFormed, PTL DEF Spec

(* Every variable keeps its type, with any number of requests in flight.   *)
THEOREM TypeCorrect == Spec => []TypeOK
  <1>1. WellFormed => TypeOK
    BY DEF WellFormed
  <1>. QED  BY <1>1, AlwaysWellFormed, PTL

(* The app uses the session store as the API offers it: the promises of the *)
(* store hold of the tokens that the requests race for.                     *)
THEOREM ClientUsesStore == Spec => StoreSpec
  <1>1. Init => StoreInit
    BY DEF Init
  <1>2. WellFormed /\ [Next]_vars => [StoreNext]_storeVars
    BY NextStoreNext
  <1>. QED  BY <1>1, <1>2, AlwaysWellFormed, PTL DEF Spec, StoreSpec

-----------------------------------------------------------------------------

(* The flag comes down with the request that put it up, whichever way its   *)
(* refresh ends: no way out of a refresh leaves it standing.                *)
THEOREM FlagTheorem == Spec => []FlagMeansRefreshing
  <1>1. Init => FlagMeansRefreshing
    BY DEF Init, FlagMeansRefreshing
  <1>2. WellFormed /\ FlagMeansRefreshing /\ [Next]_vars => FlagMeansRefreshing'
    <2> SUFFICES ASSUME WellFormed, FlagMeansRefreshing, [Next]_vars, isRefreshing'
                 PROVE  \E c \in Calls : call'[c].pc \in Refreshing
      BY DEF FlagMeansRefreshing
    <2>1. ASSUME NEW c \in Calls, Begin(c) \/ CallProgress(c)
          PROVE  \/ call'[c].pc \in Refreshing
                 \/ /\ UNCHANGED isRefreshing /\ call[c].pc \notin Refreshing
                    /\ \A d \in Calls \ {c} : call'[d] = call[d]
      BY <2>1
      DEF Begin, CallProgress, Attach, ServedOk, Served401, ServedError, OnError401,
          OnErrorPassesOn, ReadNoRefreshToken, ReadRefreshToken, RefreshServed, RefreshFails,
          RefreshLost, SaveAccess, SaveRefresh, RetryOk, RetryFails, ClearAccess,
          ClearRefresh, Goto, Succeed, Fail, End, At, WellFormed, TypeOK, Call
    <2>2. ASSUME NEW c \in Calls, Begin(c) \/ CallProgress(c)
          PROVE  \E d \in Calls : call'[d].pc \in Refreshing
      BY <2>1, <2>2 DEF FlagMeansRefreshing
    <2>3. CASE UNCHANGED <<call, isRefreshing>>
      BY <2>3 DEF FlagMeansRefreshing
    <2>. QED
      BY <2>2, <2>3
      DEF Next, LogIn, LogOut, FormProgress, LogInServed, LogInFails, LogInSaveAccess,
          LogInSaveRefresh, LogOutRead, LogOutServed, LogOutNotServed, LogOutClearAccess,
          LogOutClearRefresh, AccessExpires, EndedElsewhere, Restart, vars
  <1>. QED  BY <1>1, <1>2, AlwaysWellFormed, PTL DEF Spec

-----------------------------------------------------------------------------
(* What the app may still present to the API is in Known.  What a refresh   *)
(* or a login was given, and has not stored yet, is known to nobody else:   *)
(* so it stays the newest of its session until it is stored.                *)

Known == {refresh} \cup {call[c].token : c \in {d \in Calls : At(d, "refresh")}}

Saves(c) == call[c].pc \in Saving

Fresh(k) == Last(k) /\ k \notin Known

KnownIssued == \A j \in Known \ {None} : j \in Jti /\ Issued(j)

CallsSaveFresh ==
  \A c \in Calls : Saves(c) =>
    /\ Fresh(call[c].new)
    /\ \A d \in Calls \ {c} : Saves(d) => call[d].new # call[c].new

FormSavesFresh ==
  form.pc \in Saving =>
    /\ Fresh(form.token)
    /\ \A c \in Calls : Saves(c) => call[c].new # form.token

HoldsLast == refresh # None /\ ~HalfSaved /\ ~Clearing /\ torn = {} => Last(refresh)

Track == KnownIssued /\ CallsSaveFresh /\ FormSavesFresh /\ HoldsLast

LEMMA InitTrack == Init => Track
  <1> SUFFICES ASSUME Init  PROVE Track
    OBVIOUS
  <1>1. \A c \in Calls : call[c].pc \in {"idle", "attach"}
    BY BootingIdles DEF Init
  <1>. QED
    BY <1>1
    DEF Init, NoForm, Track, KnownIssued, CallsSaveFresh, FormSavesFresh, HoldsLast, Known,
        Saves, At

LEMMA NextKnown ==
  ASSUME WellFormed, [Next]_vars, NEW j \in Known', j # None
  PROVE  \/ j \in Known
         \/ \E c \in Calls : SaveRefresh(c) /\ j = call[c].new
         \/ LogInSaveRefresh /\ j = form.token
  <1>1. CASE j = refresh'
    BY <1>1, NextStorage DEF Known
  <1>2. CASE j # refresh'
    <2>1. PICK c \in Calls : call'[c].pc = "refresh" /\ j = call'[c].token
      BY <1>2 DEF Known, At
    <2>2. CASE call'[c] = call[c]
      BY <2>1, <2>2 DEF Known, At
    <2>3. CASE CallStep(c) /\ call'[c] # call[c]
      <3>1. j = refresh
        BY <2>1, <2>3 DEF CallStep, WellFormed, TypeOK
      <3>. QED  BY <3>1 DEF Known
    <2>4. ASSUME NEW d \in Calls, CallStep(d)  PROVE d = c \/ call'[c] = call[c]
      BY <2>4 DEF CallStep, WellFormed, TypeOK
    <2>5. ~ Restart
      BY <2>1, BootingIdles DEF Restart
    <2>. QED  BY <2>2, <2>3, <2>4, <2>5, NextCall
  <1>. QED  BY <1>1, <1>2

LEMMA NextSaves ==
  ASSUME WellFormed, [Next]_vars, NEW c \in Calls, Saves(c)'
  PROVE  \/ Saves(c) /\ call'[c].new = call[c].new
         \/ /\ At(c, "refresh") /\ Rotate(call[c].token, call'[c].new)
            /\ \A d \in Calls \ {c} : call'[d] = call[d]
  <1>1. CASE call'[c] = call[c]
    BY <1>1 DEF Saves
  <1>2. CASE CallStep(c)
    <2>1. PICK q \in Call :
            /\ call' = [call EXCEPT ![c] = q]
            /\ q.pc \in Saving =>
                 \/ SaveAccess(c) /\ q.pc = "save_refresh" /\ q.new = call[c].new
                 \/ At(c, "refresh") /\ q.pc = "save_access" /\ Rotate(call[c].token, q.new)
      BY <1>2 DEF CallStep
    <2>2. call'[c] = q /\ \A d \in Calls \ {c} : call'[d] = call[d]
      BY <2>1 DEF WellFormed, TypeOK
    <2>. QED  BY <2>1, <2>2 DEF Saves, SaveAccess, At
  <1>3. ASSUME NEW d \in Calls, CallStep(d)  PROVE d = c \/ call'[c] = call[c]
    BY <1>3 DEF CallStep, WellFormed, TypeOK
  <1>4. ~ Restart
    BY BootingIdles DEF Restart, Saves
  <1>. QED  BY <1>1, <1>2, <1>3, <1>4, NextCall

(* Only a token that the app knows is exchanged.                            *)
LEMMA RotatesKnown ==
  ASSUME WellFormed, [Next]_vars, NEW j \in Jti, NEW l \in Jti, Rotate(j, l)
  PROVE  /\ ~ LogInServed
         /\ \E c \in Calls : Refreshes(c) /\ j = call[c].token
         /\ j \in Known
  <1>1. state[j] = "live" /\ state'[j] = "spent" /\ state[l] = "unissued" /\ state'[l] = "live"
    BY DEF Rotate, WellFormed, TypeOK, StoreTypeOK
  <1>2. ASSUME NEW k \in Jti, Open(k)  PROVE FALSE
    BY <1>1, <1>2 DEF Open, WellFormed, TypeOK, StoreTypeOK
  <1>3. ASSUME NEW k \in Jti, Close(k)  PROVE FALSE
    BY <1>1, <1>3 DEF Close, WellFormed, TypeOK, StoreTypeOK
  <1>4. PICK k \in Jti, c \in Calls : Rotate(call[c].token, k) /\ Refreshes(c)
    BY <1>1, <1>2, <1>3, NextStore DEF storeVars
  <1>5. j = call[c].token /\ At(c, "refresh")
    BY <1>1, <1>4 DEF Rotate, Refreshes, RefreshServed, RefreshLost, WellFormed, TypeOK,
       StoreTypeOK
  <1>6. ~ LogInServed
    BY <1>2 DEF LogInServed, ServeOpen
  <1>. QED  BY <1>4, <1>5, <1>6 DEF Known

(* What nobody knows stays the newest.                                      *)
LEMMA FreshStaysLast ==
  ASSUME WellFormed, [Next]_vars, NEW k, Fresh(k)
  PROVE  Last(k)'
  BY NextStoreNext, RotatesKnown, LastStays DEF Fresh, WellFormed

(* When a pair is only half in the storage, or on its way out of it, the    *)
(* step that ends this either stores or clears a refresh token, or is a     *)
(* restart and torn says so.                                                *)
Busy == HalfSaved \/ Clearing

LEMMA NextTorn ==
  ASSUME WellFormed, [Next]_vars
  PROVE  \/ torn' = torn /\ (HalfSaved => HalfSaved') /\ (Busy => Busy')
         \/ \E c \in Calls : SaveRefresh(c)
         \/ LogInSaveRefresh
         \/ refresh' = None
         \/ /\ torn \subseteq torn' /\ (HalfSaved => "saving" \in torn')
            /\ Busy => torn' # {}
  <1>1. ASSUME NEW c \in Calls, Begin(c) \/ CallProgress(c)
        PROVE  \/ SaveRefresh(c)
               \/ refresh' = None
               \/ /\ UNCHANGED <<torn, form>>
                  /\ call[c].pc \in Saving => call'[c].pc \in Saving
                  /\ call[c].pc = "clear_access" => call'[c].pc = "clear_refresh"
                  /\ call[c].pc # "clear_refresh"
                  /\ \A d \in Calls \ {c} : call'[d] = call[d]
    BY <1>1
    DEF Begin, CallProgress, Attach, ServedOk, Served401, ServedError, OnError401,
        OnErrorPassesOn, ReadNoRefreshToken, ReadRefreshToken, RefreshServed, RefreshFails,
        RefreshLost, SaveAccess, RetryOk, RetryFails, ClearAccess, ClearRefresh, Goto,
        Succeed, Fail, End, At, SaveRefreshToken, WellFormed, TypeOK, Call
  <1>2. ASSUME NEW c \in Calls, UNCHANGED <<torn, form>>,
               call[c].pc \in Saving => call'[c].pc \in Saving,
               call[c].pc = "clear_access" => call'[c].pc = "clear_refresh",
               call[c].pc # "clear_refresh",
               \A d \in Calls \ {c} : call'[d] = call[d]
        PROVE  torn' = torn /\ (HalfSaved => HalfSaved') /\ (Busy => Busy')
    <2>1. HalfSaved => HalfSaved'
      BY <1>2 DEF HalfSaved, FormAt
    <2>2. Clearing => Clearing'
      BY <1>2 DEF Clearing
    <2>. QED  BY <1>2, <2>1, <2>2 DEF Busy
  <1>3. ASSUME LogIn \/ LogOut \/ FormProgress
        PROVE  \/ LogInSaveRefresh
               \/ refresh' = None
               \/ /\ UNCHANGED <<torn, call>>
                  /\ form.pc \in Saving => form'.pc \in Saving
    BY <1>3
    DEF LogIn, LogOut, FormProgress, LogInServed, LogInFails, LogInSaveAccess, LogOutRead,
        LogOutServed, LogOutNotServed, LogOutClearAccess, LogOutClearRefresh, FormAt,
        SaveRefreshToken, WellFormed, TypeOK, Form
  <1>4. ASSUME UNCHANGED <<torn, call>>, form.pc \in Saving => form'.pc \in Saving
        PROVE  torn' = torn /\ (HalfSaved => HalfSaved') /\ (Busy => Busy')
    BY <1>4 DEF HalfSaved, FormAt, Busy, Clearing
  <1>5. ASSUME UNCHANGED <<torn, call, form>>
        PROVE  torn' = torn /\ (HalfSaved => HalfSaved') /\ (Busy => Busy')
    BY <1>5 DEF HalfSaved, FormAt, Busy, Clearing
  <1>6. ASSUME Restart
        PROVE  /\ torn \subseteq torn' /\ (HalfSaved => "saving" \in torn')
               /\ Busy => torn' # {}
    <2>1. torn' = torn \cup {s \in Stops : IF s = "saving" THEN HalfSaved ELSE Clearing}
      BY <1>6 DEF Restart
    <2>2. (HalfSaved => "saving" \in torn') /\ (Clearing => "clearing" \in torn')
      BY <2>1 DEF Stops
    <2>. QED  BY <2>1, <2>2 DEF Busy
  <1>. QED
    BY <1>1, <1>2, <1>3, <1>4, <1>5, <1>6 DEF Next, AccessExpires, EndedElsewhere, Restart, vars

LEMMA NextTrack ==
  ASSUME WellFormed, WellFormed', Track, [Next]_vars
  PROVE  Track'
  <1> USE DEF Track
  <1>1. ASSUME NEW j \in Jti, Issued(j)  PROVE Issued(j)'
    BY <1>1, NextStoreNext
    DEF StoreNext, Open, Rotate, Close, storeVars, Issued, WellFormed, TypeOK, StoreTypeOK
  <1>2. ASSUME NEW c \in Calls, SaveRefresh(c)  PROVE Saves(c) /\ ~Saves(c)'
    BY <1>2 DEF SaveRefresh, Saves, At, Goto, WellFormed, TypeOK, Call
  <1>3. LogInSaveRefresh => form.pc \in Saving /\ form'.pc \notin Saving
    BY DEF LogInSaveRefresh, FormAt, NoForm
  <1>4. ASSUME NEW k, Fresh(k)  PROVE k \in Jti /\ k # None /\ Issued(k) /\ k \notin Known
    BY <1>4, ClientAssumption DEF Fresh, Last
  <1>5. KnownIssued'
    <2> SUFFICES ASSUME NEW j \in Known' \ {None}  PROVE j \in Jti /\ Issued(j)'
      BY DEF KnownIssued
    <2>1. j \in Jti /\ Issued(j)
      BY <1>2, <1>3, <1>4, NextKnown DEF KnownIssued, CallsSaveFresh, FormSavesFresh
    <2>. QED  BY <1>1, <2>1
  (* What is saved is not known before it is stored.                        *)
  <1>6. ASSUME NEW k, Fresh(k),
               \A c \in Calls : SaveRefresh(c) => call[c].new # k,
               LogInSaveRefresh => form.token # k
        PROVE  Fresh(k)'
    <2>1. Last(k)'
      BY <1>6, FreshStaysLast
    <2>2. k \notin Known'
      BY <1>4, <1>6, NextKnown
    <2>. QED  BY <2>1, <2>2 DEF Fresh
  (* A token that was just issued is fresh.                                 *)
  <1>7. ASSUME NEW k \in Jti, state[k] = "unissued", state'[k] = "live"
        PROVE  /\ Fresh(k)'
               /\ \A c \in Calls : Saves(c) => call[c].new # k
               /\ form.pc \in Saving => form.token # k
    <2>1. /\ \A c \in Calls : Saves(c) => call[c].new # k
          /\ form.pc \in Saving => form.token # k
      BY <1>4, <1>7 DEF Issued, CallsSaveFresh, FormSavesFresh
    <2>2. k \notin Known
      BY <1>7, ClientAssumption DEF KnownIssued, Issued
    <2>3. k \notin Known'
      BY <1>2, <1>3, <1>7, <2>1, <2>2, ClientAssumption, NextKnown
    <2>. QED  BY <1>7, <2>1, <2>3 DEF Fresh, Last, Issued
  <1>8. ASSUME NEW j \in Jti, NEW k \in Jti, Rotate(j, k)
        PROVE  state[k] = "unissued" /\ state'[k] = "live"
    BY <1>8 DEF Rotate, WellFormed, TypeOK, StoreTypeOK
  <1>9. ASSUME NEW k \in Jti, Open(k)
        PROVE  state[k] = "unissued" /\ state'[k] = "live"
    BY <1>9 DEF Open, WellFormed, TypeOK, StoreTypeOK
  <1>10. ASSUME NEW c \in Calls, Saves(c)'
         PROVE  \/ Saves(c) /\ call'[c].new = call[c].new
                \/ \E j \in Jti : /\ Rotate(j, call'[c].new) /\ call'[c].new \in Jti
                                  /\ \A d \in Calls \ {c} : call'[d] = call[d]
    <2>1. call'[c].new \in Jti
      BY <1>10 DEF Saves, WellFormed, Holds
    <2>2. At(c, "refresh") => call[c].token \in Jti
      BY DEF At, WellFormed, Holds
    <2>. QED  BY <1>10, <2>1, <2>2, NextSaves
  <1>11. CallsSaveFresh'
    <2> SUFFICES ASSUME NEW c \in Calls, Saves(c)'
                 PROVE  /\ Fresh(call[c].new)'
                        /\ \A d \in Calls \ {c} : Saves(d)' => call'[d].new # call'[c].new
      BY DEF CallsSaveFresh
    <2>1. Fresh(call[c].new)'
      <3>1. CASE Saves(c) /\ call'[c].new = call[c].new
        <4>1. PICK k : k = call[c].new
          OBVIOUS
        <4>2. /\ Fresh(k)
              /\ \A d \in Calls : SaveRefresh(d) => call[d].new # k
              /\ LogInSaveRefresh => form.token # k
          BY <1>2, <1>3, <3>1, <4>1 DEF CallsSaveFresh, FormSavesFresh
        <4>3. Fresh(k)'
          BY <1>6, <4>2
        <4>. QED  BY <3>1, <4>1, <4>3 DEF Fresh, Last, Issued, LiveIn
      <3>2. CASE \E j \in Jti : Rotate(j, call'[c].new) /\ call'[c].new \in Jti
        <4>1. PICK k \in Jti : k = call'[c].new
          BY <3>2
        <4>2. state[k] = "unissued" /\ state'[k] = "live"
          BY <1>8, <3>2, <4>1
        <4>3. Fresh(k)'
          BY <1>7, <4>2
        <4>. QED  BY <4>1, <4>3 DEF Fresh, Last, Issued, LiveIn
      <3>. QED  BY <1>10, <3>1, <3>2
    <2>2. ASSUME NEW d \in Calls \ {c}, Saves(d)'  PROVE call'[d].new # call'[c].new
      <3>1. CASE /\ Saves(c) /\ call'[c].new = call[c].new
                 /\ Saves(d) /\ call'[d].new = call[d].new
        BY <3>1 DEF CallsSaveFresh
      <3>2. CASE \E j \in Jti : /\ Rotate(j, call'[c].new) /\ call'[c].new \in Jti
                                /\ \A e \in Calls \ {c} : call'[e] = call[e]
        BY <1>7, <1>8, <2>2, <3>2 DEF Saves
      <3>3. CASE \E j \in Jti : /\ Rotate(j, call'[d].new) /\ call'[d].new \in Jti
                                /\ \A e \in Calls \ {d} : call'[e] = call[e]
        BY <1>7, <1>8, <3>3 DEF Saves
      <3>. QED  BY <1>10, <2>2, <3>1, <3>2, <3>3
    <2>. QED  BY <2>1, <2>2
  <1>12. FormSavesFresh'
    <2> SUFFICES ASSUME form'.pc \in Saving
                 PROVE  /\ Fresh(form.token)'
                        /\ \A c \in Calls : Saves(c)' => call'[c].new # form'.token
      BY DEF FormSavesFresh
    <2>1. PICK k \in Jti : k = form'.token
      BY DEF WellFormed, FormHolds
    <2>2. CASE form.pc \in Saving /\ form'.token = form.token
      <3>1. /\ Fresh(k)
            /\ \A c \in Calls : SaveRefresh(c) => call[c].new # k
            /\ ~ LogInSaveRefresh
        BY <1>2, <1>3, <2>1, <2>2 DEF FormSavesFresh
      <3>2. Fresh(k)'
        BY <1>6, <3>1
      <3>3. ASSUME NEW c \in Calls, Saves(c)'  PROVE call'[c].new # k
        BY <1>7, <1>8, <1>10, <2>1, <2>2, <3>3 DEF FormSavesFresh
      <3>. QED  BY <2>1, <3>2, <3>3 DEF Fresh, Last, Issued, LiveIn
    <2>3. CASE LogInServed /\ Open(form'.token)
      <3>1. state[k] = "unissued" /\ state'[k] = "live"
        BY <1>9, <2>1, <2>3
      <3>2. Fresh(k)' /\ \A c \in Calls : Saves(c) => call[c].new # k
        BY <1>7, <3>1
      <3>3. ASSUME NEW c \in Calls, Saves(c)'  PROVE call'[c].new # k
        BY <1>10, <2>3, <3>2, <3>3, RotatesKnown
      <3>. QED  BY <2>1, <3>2, <3>3 DEF Fresh, Last, Issued, LiveIn
    <2>. QED  BY <2>2, <2>3, NextForm
  <1>13. HoldsLast'
    <2> SUFFICES ASSUME refresh' # None, ~HalfSaved', ~Clearing', torn' = {}
                 PROVE  Last(refresh)'
      BY DEF HoldsLast
    <2>1. CASE \E c \in Calls : SaveRefresh(c)
      <3>1. PICK c \in Calls : SaveRefresh(c)
        BY <2>1
      <3>2. refresh' = call[c].new /\ Fresh(call[c].new)
        BY <1>2, <3>1 DEF SaveRefresh, SaveRefreshToken, CallsSaveFresh
      <3>3. PICK k : k = refresh' /\ Fresh(k)
        BY <3>2
      <3>4. Last(k)'
        BY <3>3, FreshStaysLast
      <3>. QED  BY <3>3, <3>4 DEF Last, Issued, LiveIn
    <2>2. CASE LogInSaveRefresh
      <3>1. refresh' = form.token /\ Fresh(form.token)
        BY <1>3, <2>2 DEF LogInSaveRefresh, SaveRefreshToken, FormSavesFresh
      <3>2. PICK k : k = refresh' /\ Fresh(k)
        BY <3>1
      <3>3. Last(k)'
        BY <3>2, FreshStaysLast
      <3>. QED  BY <3>2, <3>3 DEF Last, Issued, LiveIn
    <2>3. CASE UNCHANGED refresh /\ ~ Busy /\ torn = {}
      <3>1. PICK k : k = refresh /\ k = refresh' /\ Last(k)
        BY <2>3 DEF HoldsLast, Busy
      <3>2. ASSUME NEW j \in Jti, NEW l \in Jti, Rotate(j, l)  PROVE FALSE
        <4>1. PICK c \in Calls : Refreshes(c)
          BY <3>2, RotatesKnown
        <4>2. CASE RefreshServed(c)
          <5>1. call'[c].pc = "save_access"
            BY <4>2 DEF RefreshServed, WellFormed, TypeOK, Call
          <5>. QED  BY <5>1 DEF HalfSaved
        <4>3. CASE RefreshLost(c)
          <5>1. call'[c].pc = "clear_access"
            BY <4>3 DEF RefreshLost, Goto, WellFormed, TypeOK, Call
          <5>. QED  BY <5>1 DEF Clearing
        <4>. QED  BY <4>1, <4>2, <4>3 DEF Refreshes
      <3>3. Last(k)'
        BY <3>1, <3>2, LastStays, NextStoreNext DEF WellFormed
      <3>. QED  BY <3>1, <3>3 DEF Last, Issued, LiveIn
    <2>4. UNCHANGED refresh \/ (\E c \in Calls : SaveRefresh(c)) \/ LogInSaveRefresh
      BY NextStorage
    <2>5. ~ Busy'
      BY DEF Busy
    <2>. QED  BY <2>1, <2>2, <2>3, <2>4, <2>5, NextTorn
  <1>. QED  BY <1>5, <1>11, <1>12, <1>13

(* Whatever requests race, and even if the user logs in or out meanwhile,   *)
(* the refresh token in the storage was not exchanged for one that is still *)
(* live, but for an answer that was lost, until the tokens are cleared for  *)
(* it, and for a stop while the tokens are saved or cleared: a fresh token  *)
(* is known to nobody until it is stored.                                   *)
THEOREM SuccessorTheorem == Spec => []HoldsSuccessor
  <1>1. Track => HoldsSuccessor
    BY DEF Track, HoldsLast, Last, HoldsSuccessor
  <1>2. Init => WellFormed /\ Track
    BY InitWellFormed, InitTrack
  <1>3. WellFormed /\ Track /\ [Next]_vars => (WellFormed /\ Track)'
    BY NextWellFormed, NextTrack
  <1>. QED  BY <1>1, <1>2, <1>3, PTL DEF Spec

-----------------------------------------------------------------------------
(* What is gained when no request is in flight while the user logs in or    *)
(* out.                                                                     *)

Apart == FormAt("idle") \/ NobodyCalls

LEMMA ProgressNotIdle ==
  ASSUME NEW c \in Calls, CallProgress(c)  PROVE ~ At(c, "idle")
  BY DEF CallProgress, Attach, ServedOk, Served401, ServedError, OnError401, OnErrorPassesOn,
     ReadNoRefreshToken, ReadRefreshToken, RefreshServed, RefreshFails, RefreshLost,
     SaveAccess, SaveRefresh, RetryOk, RetryFails, ClearAccess, ClearRefresh, At

LEMMA CallLeavesForm ==
  ASSUME NEW c \in Calls, Begin(c) \/ CallProgress(c)
  PROVE  UNCHANGED <<form, signedOut>>
  BY DEF Begin, CallProgress, Attach, ServedOk, Served401, ServedError, OnError401,
     OnErrorPassesOn, ReadNoRefreshToken, ReadRefreshToken, RefreshServed, RefreshFails,
     RefreshLost, SaveAccess, SaveRefresh, RetryOk, RetryFails, ClearAccess, ClearRefresh

LEMMA FormLeavesCalls ==
  ASSUME LogIn \/ LogOut \/ FormProgress
  PROVE  UNCHANGED call /\ ((LogIn \/ LogOut) <=> FormAt("idle"))
  BY DEF LogIn, LogOut, FormProgress, LogInServed, LogInFails, LogInSaveAccess,
     LogInSaveRefresh, LogOutRead, LogOutServed, LogOutNotServed, LogOutClearAccess,
     LogOutClearRefresh, FormAt

LEMMA NextApart ==
  ASSUME CallsApart, Apart, [Next]_vars  PROVE Apart'
  <1>1. ASSUME NEW c \in Calls, Begin(c) \/ CallProgress(c)  PROVE FormAt("idle")'
    <2>1. FormAt("idle")
      BY <1>1, ProgressNotIdle DEF Begin, Apart, NobodyCalls
    <2>. QED  BY <1>1, <2>1, CallLeavesForm DEF FormAt
  <1>2. ASSUME LogIn \/ LogOut \/ FormProgress  PROVE NobodyCalls'
    <2>1. NobodyCalls
      BY <1>2, FormLeavesCalls DEF Apart, LogIn, LogOut
    <2>. QED  BY <1>2, <2>1, FormLeavesCalls DEF NobodyCalls, At
  <1>3. CASE UNCHANGED <<call, form>>
    BY <1>3 DEF Apart, NobodyCalls, At, FormAt
  <1>4. Restart => FormAt("idle")'
    BY DEF Restart, NoForm, FormAt
  <1>. QED
    BY <1>1, <1>2, <1>3, <1>4 DEF Apart, Next, AccessExpires, EndedElsewhere, vars

(* A refresh puts an end to what the other requests know: at most one of    *)
(* them saves a pair at a time.                                             *)
LiveKnown(j) == j \in Known \cap Jti /\ state[j] = "live"

OneKnown == \A j, l \in Jti : LiveKnown(j) /\ LiveKnown(l) => j = l

OneSaves ==
  \A c \in Calls : Saves(c) =>
    /\ \A j \in Jti : ~ LiveKnown(j)
    /\ \A d \in Calls : Saves(d) => d = c

LEMMA NextOne ==
  ASSUME WellFormed, Track, Apart, OneKnown, OneSaves, [Next]_vars
  PROVE  OneKnown' /\ OneSaves'
  <1>1. ASSUME NEW j \in Jti, LiveKnown(j)', ~ LiveKnown(j)
        PROVE  \/ \E c \in Calls : SaveRefresh(c) /\ j = call[c].new
               \/ LogInSaveRefresh /\ j = form.token
    <2>1. ASSUME Issued(j)  PROVE state[j] = "live"
      BY <1>1, <2>1, NextStoreNext
      DEF LiveKnown, StoreNext, Open, Rotate, Close, storeVars, Issued, WellFormed, TypeOK,
          StoreTypeOK
    <2>2. j \in Known'/\ j # None
      BY <1>1, ClientAssumption DEF LiveKnown
    <2>3. j \notin Known
      BY <1>1, <2>1, <2>2 DEF LiveKnown, Track, KnownIssued
    <2>. QED  BY <2>2, <2>3, NextKnown
  <1>2. ASSUME LogInSaveRefresh
        PROVE  /\ \A c \in Calls : ~ Saves(c)'
               /\ \A j \in Known' : j = form.token
    <2>1. NobodyCalls /\ UNCHANGED call /\ refresh' = form.token
      BY <1>2 DEF LogInSaveRefresh, FormAt, Apart, SaveRefreshToken
    <2>. QED  BY <2>1 DEF NobodyCalls, Saves, Known, At
  <1>3. ASSUME NEW c \in Calls, SaveRefresh(c)  PROVE Saves(c) /\ ~Saves(c)'
    BY <1>3 DEF SaveRefresh, Saves, At, Goto, WellFormed, TypeOK, Call
  <1>4. OneKnown'
    <2>1. CASE LogInSaveRefresh
      BY <1>2, <2>1 DEF OneKnown, LiveKnown
    <2>2. CASE \E c \in Calls : SaveRefresh(c)
      BY <1>1, <1>2, <1>3, <2>2 DEF OneKnown, OneSaves, LiveKnown
    <2>3. CASE \A j \in Jti : LiveKnown(j)' => LiveKnown(j)
      BY <2>3 DEF OneKnown
    <2>. QED  BY <1>1, <2>1, <2>2, <2>3
  <1>5. OneSaves'
    <2> SUFFICES ASSUME NEW c \in Calls, Saves(c)'
                 PROVE  /\ \A j \in Jti : ~ LiveKnown(j)'
                        /\ \A d \in Calls : Saves(d)' => d = c
      BY DEF OneSaves
    <2>1. CASE \E d \in Calls : Saves(d) /\ Saves(d)'
      <3>1. PICK d \in Calls : Saves(d) /\ Saves(d)'
        BY <2>1
      <3>2. \A j \in Jti : ~ LiveKnown(j)
        BY <3>1 DEF OneSaves
      <3>3. ASSUME NEW e \in Calls, Saves(e)'  PROVE e = d
        <4>1. CASE Saves(e)
          BY <3>1, <4>1 DEF OneSaves
        <4>2. CASE At(e, "refresh") /\ Rotate(call[e].token, call'[e].new)
          <5>1. call[e].token \in Jti /\ call[e].token \in Known
            BY <4>2 DEF At, Known, WellFormed, Holds
          <5>. QED  BY <3>2, <4>2, <5>1 DEF Rotate, LiveKnown
        <4>. QED  BY <3>3, <4>1, <4>2, NextSaves
      <3>4. ~ LogInSaveRefresh /\ \A e \in Calls : ~ SaveRefresh(e)
        BY <1>2, <1>3, <3>1 DEF OneSaves
      <3>. QED  BY <1>1, <3>2, <3>3, <3>4
    <2>2. CASE ~ \E d \in Calls : Saves(d) /\ Saves(d)'
      <3>1. /\ At(c, "refresh") /\ Rotate(call[c].token, call'[c].new)
            /\ \A d \in Calls \ {c} : call'[d] = call[d]
        BY <2>2, NextSaves
      <3>2. PICK t \in Jti : t = call[c].token
        BY <3>1 DEF At, WellFormed, Holds
      <3>3. LiveKnown(t) /\ ~ LiveKnown(t)'
        BY <3>1, <3>2 DEF Rotate, LiveKnown, Known, WellFormed, TypeOK, StoreTypeOK
      <3>4. \A d \in Calls : ~ Saves(d) /\ ~ SaveRefresh(d)
        BY <1>3, <3>3 DEF OneSaves
      <3>5. ~ LogInSaveRefresh
        BY <1>2
      <3>6. \A j \in Jti : LiveKnown(j)' => LiveKnown(j)
        BY <1>1, <3>4, <3>5
      <3>7. \A j \in Jti : ~ LiveKnown(j)'
        BY <3>3, <3>6 DEF OneKnown
      <3>8. \A d \in Calls \ {c} : ~ Saves(d)'
        BY <3>1, <3>4 DEF Saves
      <3>. QED  BY <3>7, <3>8
    <2>. QED  BY <2>1, <2>2
  <1>. QED  BY <1>4, <1>5

(* A pair is in the storage, or on its way there by one saver.              *)
Match ==
  /\ "saving" \notin torn /\ ~HalfSaved => access = None \/ refresh = None \/ access = refresh
  /\ \A c \in Calls : At(c, "save_refresh") => access \in {None, call[c].new}
  /\ FormAt("save_refresh") => access = form.token

(* While a login or logout stands at one point nobody writes.               *)
LEMMA FormAlone ==
  ASSUME WellFormed, Apart, [Next]_vars, NEW pc \in FormPCs \ {"idle"},
         FormAt(pc), FormAt(pc)'
  PROVE  UNCHANGED access /\ form'.token = form.token
  <1>1. NobodyCalls /\ form \in Form
    BY DEF FormAt, Apart, WellFormed, TypeOK
  <1>2. ASSUME NEW c \in Calls, Begin(c) \/ CallProgress(c)
        PROVE  UNCHANGED access /\ form'.token = form.token
    BY <1>1, <1>2, ProgressNotIdle DEF NobodyCalls, Begin, storage
  <1>3. ASSUME LogIn \/ LogOut \/ FormProgress  PROVE FALSE
    BY <1>1, <1>3
    DEF LogIn, LogOut, FormProgress, LogInServed, LogInFails, LogInSaveAccess,
        LogInSaveRefresh, LogOutRead, LogOutServed, LogOutNotServed, LogOutClearAccess,
        LogOutClearRefresh, NoForm, FormAt, Form
  <1>. QED
    BY <1>2, <1>3
    DEF Next, AccessExpires, EndedElsewhere, Restart, NoForm, FormAt, storage, vars

LEMMA FormArrives ==
  ASSUME WellFormed, [Next]_vars
  PROVE  /\ FormAt("save_refresh")' =>
              \/ FormAt("save_refresh")
              \/ LogInSaveAccess
         /\ FormAt("clear_refresh")' =>
              \/ FormAt("clear_refresh")
              \/ LogOutClearAccess
  <1>1. ASSUME NEW c \in Calls, Begin(c) \/ CallProgress(c)  PROVE UNCHANGED form
    BY <1>1, CallLeavesForm
  <1>2. ASSUME LogIn \/ LogOut \/ FormProgress, ~LogInSaveAccess, ~LogOutClearAccess
        PROVE  ~FormAt("save_refresh")' /\ ~FormAt("clear_refresh")'
    BY <1>2
    DEF LogIn, LogOut, FormProgress, LogInServed, LogInFails, LogInSaveRefresh, LogOutRead,
        LogOutServed, LogOutNotServed, LogOutClearRefresh, NoForm, FormAt, WellFormed, TypeOK,
        Form
  <1>3. LogInSaveAccess => ~FormAt("clear_refresh")'
    BY DEF LogInSaveAccess, FormAt, WellFormed, TypeOK, Form
  <1>4. LogOutClearAccess => ~FormAt("save_refresh")'
    BY DEF LogOutClearAccess, FormAt, WellFormed, TypeOK, Form
  <1>. QED
    BY <1>1, <1>2, <1>3, <1>4
    DEF Next, AccessExpires, EndedElsewhere, Restart, NoForm, FormAt, vars

LEMMA SavesRefreshNext ==
  ASSUME WellFormed, [Next]_vars, NEW c \in Calls, At(c, "save_refresh")'
  PROVE  /\ At(c, "save_refresh") \/ SaveAccess(c)
         /\ call'[c].new = call[c].new
  <1>1. CASE call'[c] = call[c]
    BY <1>1 DEF At
  <1>2. CASE CallStep(c)
    BY <1>2 DEF CallStep, At, WellFormed, TypeOK
  <1>3. ASSUME NEW d \in Calls, CallStep(d)  PROVE d = c \/ call'[c] = call[c]
    BY <1>3 DEF CallStep, WellFormed, TypeOK
  <1>4. ~ Restart
    BY BootingIdles DEF Restart, At
  <1>. QED  BY <1>1, <1>2, <1>3, <1>4, NextCall

LEMMA NextMatch ==
  ASSUME WellFormed, Apart, OneSaves, Match, [Next]_vars
  PROVE  Match'
  <1>1. ASSUME NEW c \in Calls, SaveAccess(c)
        PROVE  At(c, "save_access") /\ HalfSaved' /\ access' = call[c].new
    BY <1>1 DEF SaveAccess, SaveAccessToken, Goto, At, HalfSaved, WellFormed, TypeOK, Call
  <1>2. ASSUME LogInSaveAccess
        PROVE  /\ FormAt("save_access") /\ FormAt("save_refresh")' /\ UNCHANGED call
               /\ access' = form.token /\ form'.token = form.token
    BY <1>2 DEF LogInSaveAccess, SaveAccessToken, FormAt, WellFormed, TypeOK, Form
  <1>3. "saving" \notin torn' /\ ~HalfSaved'
          => access' = None \/ refresh' = None \/ access' = refresh'
    <2> SUFFICES ASSUME "saving" \notin torn', ~HalfSaved', refresh' # None
                 PROVE  access' = None \/ access' = refresh'
      OBVIOUS
    <2>1. access' \in {access, None}
      BY <1>1, <1>2, NextStorage DEF HalfSaved
    <2>2. ASSUME NEW c \in Calls, SaveRefresh(c)  PROVE access' = None \/ access' = refresh'
      BY <2>2 DEF SaveRefresh, SaveRefreshToken, Match
    <2>3. CASE LogInSaveRefresh
      BY <2>3 DEF LogInSaveRefresh, SaveRefreshToken, Match
    <2>4. CASE UNCHANGED refresh /\ "saving" \notin torn /\ ~HalfSaved
      BY <2>1, <2>4 DEF Match
    <2>. QED  BY <2>2, <2>3, <2>4, NextStorage, NextTorn
  <1>4. ASSUME NEW c \in Calls, At(c, "save_refresh")'
        PROVE  access' \in {None, call'[c].new}
    <2>1. CASE SaveAccess(c)
      BY <1>1, <1>4, <2>1, SavesRefreshNext
    <2>2. CASE At(c, "save_refresh") /\ access' \in {access, None}
      BY <1>4, <2>2, SavesRefreshNext DEF Match
    <2>3. ASSUME At(c, "save_refresh"), NEW d \in Calls, SaveAccess(d)  PROVE FALSE
      BY <1>1, <2>3 DEF OneSaves, Saves, At
    <2>4. ASSUME At(c, "save_refresh"), LogInSaveAccess  PROVE FALSE
      BY <1>2, <2>4 DEF Apart, NobodyCalls, FormAt, At
    <2>. QED  BY <1>4, <2>1, <2>2, <2>3, <2>4, SavesRefreshNext, NextStorage
  <1>5. FormAt("save_refresh")' => access' = form'.token
    <2>1. "save_refresh" \in FormPCs \ {"idle"}
      BY DEF FormPCs
    <2>. QED  BY <1>2, <2>1, FormAlone, FormArrives DEF Match
  <1>. QED  BY <1>3, <1>4, <1>5 DEF Match

(* The two tokens in the storage are of one pair as long as requests do not *)
(* go on over a login or logout: only one of them saves a pair at a time,   *)
(* and one that clears takes both.                                          *)
THEOREM StoredTokensTheorem == ASSUME CallsApart PROVE Spec => []StoredTokensMatch
  <1> DEFINE Inv == WellFormed /\ Track /\ Apart /\ OneKnown /\ OneSaves /\ Match
  <1>1. Init => Inv
    <2> SUFFICES ASSUME Init  PROVE Apart /\ OneKnown /\ OneSaves /\ Match
      BY InitWellFormed, InitTrack
    <2>1. \A c \in Calls : call[c].pc \in {"idle", "attach"}
      BY BootingIdles DEF Init
    <2>. QED
      BY <2>1 DEF Init, StoreInit, NoForm, Apart, FormAt, OneKnown, LiveKnown, OneSaves,
         Saves, Match, At
  <1>2. Inv /\ [Next]_vars => Inv'
    <2> SUFFICES ASSUME Inv, [Next]_vars  PROVE Inv'
      OBVIOUS
    <2>1. WellFormed'
      BY NextWellFormed
    <2>. QED  BY <2>1, NextTrack, NextApart, NextOne, NextMatch
  <1>3. Inv => StoredTokensMatch
    BY DEF Match, StoredTokensMatch, HalfSaved, FormAt
  <1>. QED  BY <1>1, <1>2, <1>3, PTL DEF Spec

(* Nothing is stored after a logout, and no request has a token left.       *)
Empty ==
  /\ signedOut => /\ access = None /\ refresh = None
                  /\ ~FormAt("save_refresh")
                  /\ \A c \in Calls : /\ call[c].pc \in {"idle", "attach", "sent"}
                                      /\ At(c, "sent") => call[c].token = None
  /\ FormAt("clear_refresh") => access = None

(* A request without a token is not answered 401, and so never refreshes.   *)
LEMMA CallEmpty ==
  ASSUME WellFormed, Empty, signedOut, NEW c \in Calls, Begin(c) \/ CallProgress(c)
  PROVE  /\ UNCHANGED <<access, refresh>>
         /\ \A d \in Calls : /\ call'[d].pc \in {"idle", "attach", "sent"}
                             /\ At(d, "sent")' => call'[d].token = None
  <1>1. Begin(c) \/ Attach(c) \/ ServedOk(c) \/ ServedError(c)
    BY ClientAssumption
    DEF Empty, CallProgress, Served401, OnError401, OnErrorPassesOn, ReadNoRefreshToken,
        ReadRefreshToken, RefreshServed, RefreshFails, RefreshLost, SaveAccess, SaveRefresh,
        RetryOk, RetryFails, ClearAccess, ClearRefresh, At
  <1>2. UNCHANGED <<access, refresh>>
    BY <1>1 DEF Begin, Attach, ServedOk, ServedError, storage
  <1>3. /\ call'[c].pc \in {"idle", "attach", "sent"}
        /\ call'[c].pc = "sent" => call'[c].token = None
    <2>1. Begin(c) => call'[c].pc = "attach"
      BY DEF Begin, Goto, WellFormed, TypeOK, Call
    <2>2. Attach(c) => call'[c].pc = "sent" /\ call'[c].token = None
      BY DEF Attach, Empty, WellFormed, TypeOK, Call
    <2>3. ServedOk(c) \/ ServedError(c) => call'[c].pc = "idle"
      <3>1. NoCall.pc = "idle"
        BY DEF NoCall
      <3>2. ServedOk(c) \/ ServedError(c) => call'[c] = NoCall
        BY DEF ServedOk, ServedError, Succeed, Fail, End, WellFormed, TypeOK
      <3>. QED  BY <3>1, <3>2
    <2>. QED  BY <1>1, <2>1, <2>2, <2>3
  <1>4. \A d \in Calls \ {c} : call'[d] = call[d]
    BY <1>1 DEF Begin, Attach, ServedOk, ServedError, Goto, Succeed, Fail, End,
       WellFormed, TypeOK
  <1>. QED  BY <1>2, <1>3, <1>4 DEF Empty, At

LEMMA NextEmpty ==
  ASSUME WellFormed, Apart, Empty, [Next]_vars
  PROVE  Empty'
  <1>1. FormAt("clear_refresh")' => access' = None
    <2>1. LogOutClearAccess => access' = None
      BY DEF LogOutClearAccess, SaveAccessToken
    <2>2. "clear_refresh" \in FormPCs \ {"idle"}
      BY DEF FormPCs
    <2>. QED  BY <2>1, <2>2, FormAlone, FormArrives DEF Empty
  <1> DEFINE Nothing(s) ==
        s => /\ access' = None /\ refresh' = None
             /\ ~FormAt("save_refresh")'
             /\ \A c \in Calls : /\ call'[c].pc \in {"idle", "attach", "sent"}
                                 /\ At(c, "sent")' => call'[c].token = None
  <1>2. ASSUME NEW c \in Calls, Begin(c) \/ CallProgress(c)  PROVE Nothing(signedOut')
    BY <1>2, CallEmpty, CallLeavesForm DEF Empty, FormAt
  <1>3. CASE LogOutClearRefresh
    <2>1. NobodyCalls /\ access = None /\ UNCHANGED <<access, call>> /\ refresh' = None
      BY <1>3 DEF LogOutClearRefresh, SaveRefreshToken, FormAt, Apart, Empty
    <2>2. ~FormAt("save_refresh")'
      BY <1>3 DEF LogOutClearRefresh, NoForm, FormAt
    <2>. QED  BY <1>1, <2>1, <2>2 DEF NobodyCalls, At, Empty
  <1>4. ASSUME LogIn \/ LogOut \/ FormProgress, ~ LogOutClearRefresh  PROVE Nothing(signedOut')
    <2>1. UNCHANGED call /\ (signedOut' => signedOut)
      BY <1>4 DEF LogIn, LogOut, FormProgress, LogInServed, LogInFails, LogInSaveAccess,
         LogInSaveRefresh, LogOutRead, LogOutServed, LogOutNotServed, LogOutClearAccess,
         WellFormed, TypeOK
    <2>2. ASSUME signedOut'  PROVE ~FormAt("save_refresh")' /\ access' = None /\ refresh' = None
      BY <1>4, <2>1, <2>2
      DEF Empty, LogIn, LogOut, FormProgress, LogInServed, LogInFails, LogInSaveAccess,
          LogInSaveRefresh, LogOutRead, LogOutServed, LogOutNotServed, LogOutClearAccess,
          SaveAccessToken, SaveRefreshToken, storage, NoForm, FormAt, WellFormed, TypeOK, Form
    <2>. QED  BY <2>1, <2>2 DEF Empty, At
  <1>5. CASE Restart
    BY <1>5, BootingIdles DEF Restart, NoForm, FormAt, At, storage, Empty
  <1>6. CASE UNCHANGED <<access, refresh, signedOut, call, form>>
    BY <1>6 DEF Empty, FormAt, At
  <1>. QED
    BY <1>1, <1>2, <1>3, <1>4, <1>5, <1>6
    DEF Next, AccessExpires, EndedElsewhere, storage, vars, Empty

(* From a logout to the next login there is no token in the storage, as     *)
(* long as no request goes on over the logout; restarts do not matter.      *)
THEOREM SignedOutTheorem == ASSUME CallsApart PROVE Spec => []SignedOutHoldsNothing
  <1> DEFINE Inv == WellFormed /\ Apart /\ Empty
  <1>1. Init => Inv
    BY InitWellFormed DEF Init, NoForm, Apart, FormAt, Empty
  <1>2. Inv /\ [Next]_vars => Inv'
    BY NextWellFormed, NextApart, NextEmpty
  <1>3. Inv => SignedOutHoldsNothing
    BY DEF Empty, SignedOutHoldsNothing
  <1>. QED  BY <1>1, <1>2, <1>3, PTL DEF Spec

=============================================================================
