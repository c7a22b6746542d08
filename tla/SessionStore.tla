---------------------------- MODULE SessionStore ----------------------------
(***************************************************************************)
(* What the API promises about refresh tokens, with no database, no         *)
(* handlers and no interleaving.  A refresh token is unissued, then live,   *)
(* then spent.  A session is opened by a login or a registration; rotating  *)
(* it exchanges its live token for a fresh one in one atomic step; closing  *)
(* it spends the live token and leaves none.                                *)
(***************************************************************************)

CONSTANTS Jti,   \* refresh-token ids
          None   \* the session of a token that has not been issued

VARIABLES state, \* [Jti -> TokenStates]
          root   \* the token that opened the session a token belongs to

storeVars == <<state, root>>

TokenStates == {"unissued", "live", "spent"}

StoreTypeOK == /\ state \in [Jti -> TokenStates]
               /\ root \in [Jti -> Jti \cup {None}]

StoreInit == /\ state = [j \in Jti |-> "unissued"]
             /\ root = [j \in Jti |-> None]

Open(k) == /\ state[k] = "unissued"
           /\ state' = [state EXCEPT ![k] = "live"]
           /\ root' = [root EXCEPT ![k] = k]

Rotate(j, k) == /\ state[j] = "live"
                /\ state[k] = "unissued"
                /\ state' = [state EXCEPT ![j] = "spent", ![k] = "live"]
                /\ root' = [root EXCEPT ![k] = root[j]]

Close(j) == /\ state[j] = "live"
            /\ state' = [state EXCEPT ![j] = "spent"]
            /\ UNCHANGED root

StoreNext == \/ \E k \in Jti : Open(k)
             \/ \E j, k \in Jti : Rotate(j, k)
             \/ \E j \in Jti : Close(j)

StoreSpec == StoreInit /\ [][StoreNext]_storeVars

-----------------------------------------------------------------------------

LiveIn(r) == {j \in Jti : state[j] = "live" /\ root[j] = r}

(* A session never has two live refresh tokens.                            *)
OneLive == \A j, k \in Jti :
             /\ state[j] = "live"
             /\ state[k] = "live"
             /\ root[j] = root[k]
             => j = k

(* A session that was opened and has no live token left never has one      *)
(* again.                                                                  *)
DeadStaysDead ==
  [][\A r \in Jti : state[r] # "unissued" /\ LiveIn(r) = {} => LiveIn(r)' = {}]_storeVars
=============================================================================
