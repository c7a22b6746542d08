------------------------------- MODULE Social -------------------------------
(***************************************************************************)
(* Friendships and shares: api/app/api/v1/routers/friends.py and shares.py  *)
(* over the tables friendships and shares.                                  *)
(*                                                                          *)
(* As in Auth, one action is the code of a handler from one await to the    *)
(* next, and what it read earlier may be stale.  Writes are by primary key: *)
(* an UPDATE of a row that is gone fails, a DELETE of one does nothing.     *)
(* The rows that db.refresh reads back after the commit only go into the    *)
(* response and are left out, and so is the lookup of the other party by    *)
(* email: the users taken here have an account, and no account is deleted.  *)
(***************************************************************************)
EXTENDS Naturals, FiniteSets

CONSTANTS Users,
          Resources,     \* ids of clothing items and outfits
          Owner,         \* owner_id of each resource, never changed
          Fid,           \* primary keys of table friendships, never drawn twice
          Sid,           \* primary keys of table shares, never drawn twice
          Handlers,      \* bound: requests in flight at a time
          None           \* absent value

ASSUME SocialAssumption == /\ Owner \in [Resources -> Users]
                           /\ None \notin Users \cup Resources \cup Fid \cup Sid

VARIABLES friendship,   \* the rows of friendships by id
          acceptedOnce, \* history: the rows that have been accepted at some time
          share,        \* the rows of shares by id
          exists,       \* the resources that have not been deleted
          req,          \* the request each handler is serving, and what it has read
          overtaken     \* history: the handlers about to write what another has written

vars == <<friendship, acceptedOnce, share, exists, req, overtaken>>

-----------------------------------------------------------------------------

(* "absent" before the row is inserted, "deleted" after it was removed.    *)
InTable == {"pending", "accepted", "declined"}
Friendship == [from : Users \cup {None}, to : Users \cup {None},
               status : InTable \cup {"absent", "deleted"}]

Share == [res : Resources \cup {None}, to : Users \cup {None},
          status : {"absent", "shared", "deleted"}]

PCs == {"idle", "send", "send_insert", "accept", "accept_commit",
        "decline", "decline_commit", "remove", "remove_commit",
        "share", "share_friends", "share_existing", "share_insert",
        "unshare", "unshare_read", "unshare_commit"}

Request == [pc : PCs, user : Users \cup {None}, peer : Users \cup {None},
            res : Resources \cup {None}, row : Fid \cup Sid \cup {None}]

Asked(op, u, v, r, f) == [pc |-> op, user |-> u, peer |-> v, res |-> r, row |-> f]

Idle == Asked("idle", None, None, None, None)

TypeOK == /\ friendship \in [Fid -> Friendship]
          /\ acceptedOnce \subseteq Fid
          /\ share \in [Sid -> Share]
          /\ exists \subseteq Resources
          /\ req \in [Handlers -> Request]
          /\ overtaken \subseteq Handlers

Init == /\ friendship = [f \in Fid |-> [from |-> None, to |-> None, status |-> "absent"]]
        /\ acceptedOnce = {}
        /\ share = [s \in Sid |-> [res |-> None, to |-> None, status |-> "absent"]]
        /\ exists = Resources
        /\ req = [h \in Handlers |-> Idle]
        /\ overtaken = {}

-----------------------------------------------------------------------------
(* What the selects return.                                                 *)

Between(f, u, v) == \/ friendship[f].from = u /\ friendship[f].to = v
                    \/ friendship[f].from = v /\ friendship[f].to = u

Rows(u, v) == {f \in Fid : friendship[f].status \in InTable /\ Between(f, u, v)}

AcceptedRows(u, v) == {f \in Rows(u, v) : friendship[f].status = "accepted"}

(* Should any row do for a friendship:                                     *)
FriendsAnyStatus(u, v) == Cardinality(Rows(u, v)) = 1

(* _are_friends: scalar_one_or_none raises when two rows match.            *)
AreFriends(u, v) == Cardinality(AcceptedRows(u, v)) = 1

SharesOf(r, u) == {s \in Sid : /\ share[s].status = "shared"
                               /\ share[s].res = r
                               /\ share[s].to = u}

Owns(u, r) == r \in exists /\ Owner[r] = u

(* Should the request be looked up with a condition less:                  *)
IncomingAnyStatus(f, u) == friendship[f].to = u /\ friendship[f].status \in InTable

(* _get_incoming_request: to this user, and not answered yet.              *)
Incoming(f, u) == friendship[f].to = u /\ friendship[f].status = "pending"

(* The unique constraints on the ordered pair of a friendship and on a      *)
(* share, checked when the INSERT is committed; and the lack of one.        *)
NoIndex(x, y) == TRUE

PairIndexAdmits(u, v) ==
  \A f \in Fid : ~(/\ friendship[f].status \in InTable
                   /\ friendship[f].from = u
                   /\ friendship[f].to = v)

ShareIndexAdmits(r, u) == SharesOf(r, u) = {}

(* The row is there for an UPDATE by primary key to match; should the      *)
(* write put it back where it is not:                                      *)
Upserted(f) == TRUE

InFriendships(f) == friendship[f].status \in InTable

-----------------------------------------------------------------------------

At(h, pc) == req[h].pc = pc

Goto(h, pc) == req' = [req EXCEPT ![h].pc = pc] /\ UNCHANGED overtaken

Answer(h) == req' = [req EXCEPT ![h] = Idle] /\ overtaken' = overtaken \ {h}

Answering(h) == At(h, "accept_commit") \/ At(h, "decline_commit")

Overtake(h, others) ==
  /\ req' = [req EXCEPT ![h] = Idle]
  /\ overtaken' = (overtaken \cup others) \ {h}

AnswerAndOvertake(h) ==
  Overtake(h, {g \in Handlers : Answering(g) /\ req[g].row = req[h].row})

(* The others that are about to insert a row between the same two users.   *)
SendingToo(h) ==
  {g \in Handlers : At(g, "send_insert")
                      /\ {req[g].user, req[g].peer} = {req[h].user, req[h].peer}}

UnchangedDb == UNCHANGED <<friendship, acceptedOnce, share, exists>>

Receive(h) ==
  /\ At(h, "idle")
  /\ \E u \in Users :
       \/ \E v \in Users :
            req' = [req EXCEPT ![h] = Asked("send", u, v, None, None)]
       \/ \E op \in {"accept", "decline", "remove"}, f \in Fid :
            /\ InFriendships(f)
            /\ req' = [req EXCEPT ![h] = Asked(op, u, None, None, f)]
       \/ \E op \in {"share", "unshare"}, r \in Resources, v \in Users :
            req' = [req EXCEPT ![h] = Asked(op, u, v, r, None)]
  /\ UnchangedDb /\ UNCHANGED overtaken

-----------------------------------------------------------------------------
(* POST /friends/requests                                                   *)

(* Should only one direction be looked at:                                 *)
SentAlready(u, v) == \E f \in Rows(u, v) : friendship[f].from = u

Related(u, v) == Rows(u, v) # {}

(* 400 for oneself, 409 for a row in either direction (500 for two).       *)
SendCheck(h) ==
  /\ At(h, "send")
  /\ LET u == req[h].user
         v == req[h].peer IN
       IF u = v \/ Related(u, v) THEN Answer(h) ELSE Goto(h, "send_insert")
  /\ UnchangedDb

SendInsert(h) ==
  /\ At(h, "send_insert")
  /\ PairIndexAdmits(req[h].user, req[h].peer)
  /\ \E f \in Fid :
       /\ friendship[f].status = "absent"
       /\ friendship' = [friendship EXCEPT ![f] =
            [from |-> req[h].user, to |-> req[h].peer, status |-> "pending"]]
  /\ Overtake(h, SendingToo(h))
  /\ UNCHANGED <<acceptedOnce, share, exists>>

(* The same request twice: IntegrityError, answered 500.                   *)
SendInsertFails(h) ==
  /\ At(h, "send_insert")
  /\ ~PairIndexAdmits(req[h].user, req[h].peer)
  /\ Answer(h)
  /\ UnchangedDb

-----------------------------------------------------------------------------
(* POST /friends/requests/{id}/accept and /decline                          *)

AnswerRead(h) ==
  /\ At(h, "accept") \/ At(h, "decline")
  /\ IF Incoming(req[h].row, req[h].user)
     THEN Goto(h, IF At(h, "accept") THEN "accept_commit" ELSE "decline_commit")
     ELSE Answer(h)
  /\ UnchangedDb

(* UPDATE friendships SET status WHERE id, whatever the status has become. *)
AcceptCommit(h) ==
  /\ At(h, "accept_commit")
  /\ InFriendships(req[h].row)
  /\ friendship' = [friendship EXCEPT ![req[h].row].status = "accepted"]
  /\ acceptedOnce' = acceptedOnce \cup {req[h].row}
  /\ AnswerAndOvertake(h)
  /\ UNCHANGED <<share, exists>>

(* Should declining use the status the enum has but no code sets:          *)
DeclineBlocks(h) ==
  /\ At(h, "decline_commit")
  /\ InFriendships(req[h].row)
  /\ friendship' = [friendship EXCEPT ![req[h].row].status = "blocked"]
  /\ AnswerAndOvertake(h)
  /\ UNCHANGED <<acceptedOnce, share, exists>>

DeclineCommit(h) ==
  /\ At(h, "decline_commit")
  /\ InFriendships(req[h].row)
  /\ friendship' = [friendship EXCEPT ![req[h].row].status = "declined"]
  /\ AnswerAndOvertake(h)
  /\ UNCHANGED <<acceptedOnce, share, exists>>

(* The row was removed meanwhile: no row matched, StaleDataError, 500.     *)
AnswerCommitFails(h) ==
  /\ Answering(h)
  /\ ~InFriendships(req[h].row)
  /\ Answer(h)
  /\ UnchangedDb

-----------------------------------------------------------------------------
(* DELETE /friends/{id}: by either party, in any status.                    *)

RemoveRead(h) ==
  /\ At(h, "remove")
  /\ LET f == req[h].row IN
       IF /\ InFriendships(f)
          /\ req[h].user \in {friendship[f].from, friendship[f].to}
       THEN Goto(h, "remove_commit")
       ELSE Answer(h)
  /\ UnchangedDb

RemoveCommit(h) ==
  /\ At(h, "remove_commit")
  /\ friendship' = [friendship EXCEPT ![req[h].row].status = "deleted"]
  /\ Answer(h)
  /\ UNCHANGED <<acceptedOnce, share, exists>>

-----------------------------------------------------------------------------
(* POST /clothes/{id}/share and /outfits/{id}/share                         *)

(* 404 for a resource of somebody else, 400 for sharing with oneself.      *)
ShareOwned(h) ==
  /\ At(h, "share")
  /\ IF Owns(req[h].user, req[h].res) /\ req[h].peer # req[h].user
     THEN Goto(h, "share_friends")
     ELSE Answer(h)
  /\ UnchangedDb

(* 400 when they are not friends, 500 when they are twice.                 *)
ShareFriends(h) ==
  /\ At(h, "share_friends")
  /\ IF AreFriends(req[h].user, req[h].peer)
     THEN Goto(h, "share_existing")
     ELSE Answer(h)
  /\ UnchangedDb

ShareExisting(h) ==
  /\ At(h, "share_existing")
  /\ IF SharesOf(req[h].res, req[h].peer) = {}
     THEN Goto(h, "share_insert")
     ELSE Answer(h)
  /\ UnchangedDb

(* The table has no foreign key on the resource: only the index can refuse. *)
ShareInsert(h) ==
  /\ At(h, "share_insert")
  /\ ShareIndexAdmits(req[h].res, req[h].peer)
  /\ \E s \in Sid :
       /\ share[s].status = "absent"
       /\ share' = [share EXCEPT ![s] =
            [res |-> req[h].res, to |-> req[h].peer, status |-> "shared"]]
  /\ Answer(h)
  /\ UNCHANGED <<friendship, acceptedOnce, exists>>

ShareInsertFails(h) ==
  /\ At(h, "share_insert")
  /\ ~ShareIndexAdmits(req[h].res, req[h].peer)
  /\ Answer(h)
  /\ UnchangedDb

-----------------------------------------------------------------------------
(* DELETE /clothes/{id}/share/{user} and /outfits/{id}/share/{user}         *)

(* 404 for a resource of somebody else ...                                 *)
UnshareOwned(h) ==
  /\ At(h, "unshare")
  /\ IF Owns(req[h].user, req[h].res) THEN Goto(h, "unshare_read") ELSE Answer(h)
  /\ UnchangedDb

(* ... and where there is no share.                                        *)
UnshareRead(h) ==
  /\ At(h, "unshare_read")
  /\ LET found == SharesOf(req[h].res, req[h].peer) IN
       IF found # {}
       THEN /\ \E s \in found : req' = [req EXCEPT ![h].pc = "unshare_commit", ![h].row = s]
            /\ UNCHANGED overtaken
       ELSE Answer(h)
  /\ UnchangedDb

UnshareCommit(h) ==
  /\ At(h, "unshare_commit")
  /\ share' = [share EXCEPT ![req[h].row].status = "deleted"]
  /\ Answer(h)
  /\ UNCHANGED <<friendship, acceptedOnce, exists>>

-----------------------------------------------------------------------------

(* DELETE of the item or outfit, by the routers that own it: the shares    *)
(* stay behind.                                                            *)
DeleteResource(r) ==
  /\ r \in exists
  /\ exists' = exists \ {r}
  /\ UNCHANGED <<friendship, acceptedOnce, share, req, overtaken>>

(* The process stops and restarts: what was not committed is gone.         *)
Crash == /\ \E h \in Handlers : ~At(h, "idle")
         /\ req' = [h \in Handlers |-> Idle]
         /\ overtaken' = {}
         /\ UnchangedDb

Step(h) ==
  \/ Receive(h)
  \/ SendCheck(h) \/ SendInsert(h) \/ SendInsertFails(h)
  \/ AnswerRead(h) \/ AcceptCommit(h) \/ DeclineCommit(h) \/ AnswerCommitFails(h)
  \/ RemoveRead(h) \/ RemoveCommit(h)
  \/ ShareOwned(h) \/ ShareFriends(h) \/ ShareExisting(h)
  \/ ShareInsert(h) \/ ShareInsertFails(h)
  \/ UnshareOwned(h) \/ UnshareRead(h) \/ UnshareCommit(h)

Next == \/ \E h \in Handlers : Step(h)
        \/ \E r \in Resources : DeleteResource(r)
        \/ Crash

Spec == Init /\ [][Next]_vars

-----------------------------------------------------------------------------

(* Nobody holds a share of a resource unless its owner and they have been   *)
(* friends, by a request the addressee accepted, at some time before        *)
(* (shares.py:47-69, however the handlers of both interleave).             *)
ShareFollowsFriendship ==
  \A s \in Sid : share[s].status = "shared" =>
    \E f \in acceptedOnce : Between(f, Owner[share[s].res], share[s].to)

(* Two users get a second row between them only by requests that crossed:   *)
(* the second had looked before the first was inserted (friends.py:41-60,   *)
(* for the unique index sees one direction).                                *)
SecondRowOnlyByCrossing ==
  [][\A h \in Handlers :
       SendInsert(h) /\ Rows(req[h].user, req[h].peer) # {} => h \in overtaken]_vars

(* Two concurrent shares of one resource with one user, which both found   *)
(* none, leave one row: two would make every later read of it fail with    *)
(* MultipleResultsFound (shares.py:52-69, models/share.py:22-26).          *)
ShareUnique == \A r \in Resources, u \in Users : Cardinality(SharesOf(r, u)) <= 1

(* A friendship that one party removed is not brought back by an answer    *)
(* that read it before (friends.py:93-96, 107-110, 156-157).               *)
RemovedStaysRemoved ==
  [][\A f \in Fid : friendship[f].status = "deleted"
                      => friendship'[f].status = "deleted"]_vars

(* The addressee's answer is final: only a request that is pending can be  *)
(* accepted or declined, and the answer changes only through another that  *)
(* had found it pending too (friends.py:73-84, 93-96, 107-110).            *)
AnswerIsFinal ==
  [][\A f \in Fid : friendship[f].status \in {"accepted", "declined"} =>
       \/ friendship'[f].status \in {friendship[f].status, "deleted"}
       \/ \E h \in overtaken : req[h].row = f /\ (AcceptCommit(h) \/ DeclineCommit(h))]_vars

(* "sharing is only allowed between accepted friends" (api/README.md): a    *)
(* share that is granted is granted to a friend.                           *)
GrantedToFriends ==
  [][\A h \in Handlers : ShareInsert(h)
       => AcceptedRows(req[h].user, req[h].peer) # {}]_vars
=============================================================================
