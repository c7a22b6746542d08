---------------------------- MODULE SocialProofs ----------------------------
(***************************************************************************)
(* Theorems about Social, for any sets of users, resources, rows and        *)
(* requests in flight.                                                      *)
(***************************************************************************)
EXTENDS Social, FiniteSetTheorems, TLAPS

(* A row that was ever inserted names two different users; it is accepted  *)
(* only once it has been accepted, and never goes back to not inserted.    *)
FriendshipsWellFormed ==
  /\ \A f \in Fid : friendship[f].status # "absent" =>
       /\ friendship[f].from \in Users /\ friendship[f].to \in Users
       /\ friendship[f].from # friendship[f].to
  /\ \A f \in Fid : friendship[f].status = "accepted" => f \in acceptedOnce
  /\ \A f \in acceptedOnce : friendship[f].status # "absent"

SharesWellFormed ==
  \A s \in Sid : share[s].status # "absent"
                   => share[s].res \in Resources /\ share[s].to \in Users

HaveBeenFriends(u, v) == \E f \in acceptedOnce : Between(f, u, v)

AsksFriendship == {"accept", "accept_commit", "decline", "decline_commit",
                   "remove", "remove_commit"}
AsksResource == {"share", "share_friends", "share_existing", "share_insert",
                 "unshare", "unshare_read"}
AsksPeer == AsksResource \cup {"send", "send_insert"}
PastOwner == {"share_friends", "share_existing", "share_insert"}
PastFriends == {"share_existing", "share_insert"}

(* What a handler that stands at pc may rely on, whatever the others write  *)
(* between two of its awaits: that a resource is the user's, and that user  *)
(* and peer have been friends, are never undone.                            *)
Holds(pc, q) ==
  /\ pc \in AsksPeer => q.user \in Users /\ q.peer \in Users
  /\ pc = "send_insert" => q.user # q.peer
  /\ pc \in AsksFriendship => q.row \in Fid /\ friendship[q.row].status # "absent"
  /\ pc \in AsksResource => q.res \in Resources
  /\ pc \in PastOwner => Owner[q.res] = q.user
  /\ pc \in PastFriends => HaveBeenFriends(q.user, q.peer)
  /\ pc = "unshare_commit" => q.row \in Sid /\ share[q.row].status # "absent"

RequestsWellFormed == \A h \in Handlers : Holds(req[h].pc, req[h])

WellFormed == TypeOK /\ FriendshipsWellFormed /\ SharesWellFormed /\ RequestsWellFormed

USE DEF AsksFriendship, AsksResource, AsksPeer, PastOwner, PastFriends

(* No row is ever taken back to "absent", and its parties never change.     *)
DbGrows ==
  /\ acceptedOnce \subseteq acceptedOnce'
  /\ \A f \in Fid : friendship[f].status # "absent" =>
       /\ friendship'[f].status # "absent"
       /\ friendship'[f].from = friendship[f].from
       /\ friendship'[f].to = friendship[f].to
  /\ \A s \in Sid : share[s].status # "absent" =>
       /\ share'[s].status # "absent"
       /\ share'[s].res = share[s].res
       /\ share'[s].to = share[s].to

TablesTyped == /\ friendship \in [Fid -> Friendship]
               /\ acceptedOnce \subseteq Fid
               /\ share \in [Sid -> Share]
               /\ exists \subseteq Resources

(* What every step does to the tables.                                      *)
TablesGrow == DbGrows /\ TablesTyped' /\ FriendshipsWellFormed' /\ SharesWellFormed'

LEMMA InitWellFormed == Init => WellFormed
  BY DEF Init, WellFormed, TypeOK, FriendshipsWellFormed, SharesWellFormed,
         RequestsWellFormed, Holds, Friendship, Share, InTable, Request, PCs, Idle, Asked

-----------------------------------------------------------------------------
(* What the writes do to the tables.                                        *)

LEMMA UnchangedDbGrows ==
  ASSUME WellFormed, UnchangedDb
  PROVE  TablesGrow
  BY DEF UnchangedDb, TablesGrow, TablesTyped, DbGrows, WellFormed, TypeOK,
         FriendshipsWellFormed, SharesWellFormed

(* Setting the status of a row of friendships that has been inserted.       *)
LEMMA FriendshipUpdateGrows ==
  ASSUME WellFormed, NEW f \in Fid, NEW st \in {"accepted", "declined", "deleted"},
         friendship[f].status # "absent",
         friendship' = [friendship EXCEPT ![f].status = st],
         acceptedOnce' = IF st = "accepted" THEN acceptedOnce \cup {f} ELSE acceptedOnce,
         UNCHANGED <<share, exists>>
  PROVE  TablesGrow
  <1> USE DEF WellFormed, TypeOK, TablesGrow, TablesTyped, Friendship, InTable
  <1>1. /\ friendship'[f].status = st
        /\ friendship'[f].from = friendship[f].from
        /\ friendship'[f].to = friendship[f].to
        /\ \A g \in Fid \ {f} : friendship'[g] = friendship[g]
    OBVIOUS
  <1>2. friendship' \in [Fid -> Friendship]
    OBVIOUS
  <1>3. acceptedOnce' \subseteq Fid /\ acceptedOnce \subseteq acceptedOnce'
    OBVIOUS
  <1>4. DbGrows
    BY <1>1, <1>3 DEF DbGrows
  <1>5. FriendshipsWellFormed'
    BY <1>1, <1>3 DEF FriendshipsWellFormed
  <1>. QED  BY <1>2, <1>3, <1>4, <1>5 DEF SharesWellFormed

LEMMA SendInsertGrows ==
  ASSUME WellFormed, NEW h \in Handlers, SendInsert(h)
  PROVE  TablesGrow
  <1> USE DEF WellFormed, TypeOK, TablesGrow, TablesTyped
  <1>1. /\ req[h].user \in Users /\ req[h].peer \in Users /\ req[h].user # req[h].peer
        /\ acceptedOnce' = acceptedOnce /\ share' = share /\ exists' = exists
    BY DEF SendInsert, At, RequestsWellFormed, Holds
  <1>2. PICK f \in Fid :
          /\ friendship[f].status = "absent"
          /\ friendship' = [friendship EXCEPT ![f] =
               [from |-> req[h].user, to |-> req[h].peer, status |-> "pending"]]
    BY DEF SendInsert
  <1>3. /\ friendship'[f] = [from |-> req[h].user, to |-> req[h].peer, status |-> "pending"]
        /\ \A g \in Fid \ {f} : friendship'[g] = friendship[g]
    BY <1>2
  <1>4. friendship' \in [Fid -> Friendship]
    BY <1>1, <1>2 DEF Friendship, InTable
  <1>5. DbGrows
    BY <1>1, <1>2, <1>3 DEF DbGrows
  <1>6. FriendshipsWellFormed'
    BY <1>1, <1>2, <1>3 DEF FriendshipsWellFormed
  <1>. QED  BY <1>1, <1>4, <1>5, <1>6 DEF SharesWellFormed

LEMMA ShareInsertGrows ==
  ASSUME WellFormed, NEW h \in Handlers, ShareInsert(h)
  PROVE  TablesGrow
  <1> USE DEF WellFormed, TypeOK, TablesGrow, TablesTyped
  <1>1. /\ req[h].res \in Resources /\ req[h].peer \in Users
        /\ friendship' = friendship /\ acceptedOnce' = acceptedOnce /\ exists' = exists
    BY DEF ShareInsert, At, RequestsWellFormed, Holds
  <1>2. PICK s \in Sid :
          /\ share[s].status = "absent"
          /\ share' = [share EXCEPT ![s] =
               [res |-> req[h].res, to |-> req[h].peer, status |-> "shared"]]
    BY DEF ShareInsert
  <1>3. /\ share'[s] = [res |-> req[h].res, to |-> req[h].peer, status |-> "shared"]
        /\ \A t \in Sid \ {s} : share'[t] = share[t]
    BY <1>2
  <1>4. share' \in [Sid -> Share]
    BY <1>1, <1>2 DEF Share
  <1>5. DbGrows /\ SharesWellFormed'
    BY <1>1, <1>2, <1>3 DEF DbGrows, SharesWellFormed
  <1>. QED  BY <1>1, <1>4, <1>5 DEF FriendshipsWellFormed

LEMMA UnshareCommitGrows ==
  ASSUME WellFormed, NEW h \in Handlers, UnshareCommit(h)
  PROVE  TablesGrow
  <1> USE DEF WellFormed, TypeOK, TablesGrow, TablesTyped
  <1> DEFINE s == req[h].row
  <1>1. /\ s \in Sid /\ share[s].status # "absent"
        /\ share' = [share EXCEPT ![s].status = "deleted"]
        /\ friendship' = friendship /\ acceptedOnce' = acceptedOnce /\ exists' = exists
    BY DEF UnshareCommit, At, RequestsWellFormed, Holds
  <1>2. /\ share'[s].status = "deleted"
        /\ share'[s].res = share[s].res /\ share'[s].to = share[s].to
        /\ \A t \in Sid \ {s} : share'[t] = share[t]
    BY <1>1 DEF Share
  <1>3. share' \in [Sid -> Share]
    BY <1>1 DEF Share
  <1>. QED  BY <1>1, <1>2, <1>3 DEF DbGrows, SharesWellFormed, FriendshipsWellFormed

-----------------------------------------------------------------------------
(* What the handlers do to the requests.                                    *)

LEMMA HoldsStable ==
  ASSUME DbGrows, TypeOK, FriendshipsWellFormed
  PROVE  \A q : Holds(q.pc, q) => Holds(q.pc, q)'
  <1>1. ASSUME NEW u, NEW v, HaveBeenFriends(u, v)  PROVE HaveBeenFriends(u, v)'
    BY <1>1 DEF HaveBeenFriends, Between, DbGrows, TypeOK, FriendshipsWellFormed
  <1>2. ASSUME NEW q, Holds(q.pc, q)  PROVE Holds(q.pc, q)'
    BY <1>1, <1>2 DEF Holds, DbGrows
  <1>. QED  BY <1>2

(* One handler gets the request q, or is idle again; the others keep theirs. *)
LEMMA MoveWellFormed ==
  ASSUME WellFormed, TablesGrow, NEW h \in Handlers, NEW q \in Request, Holds(q.pc, q),
         req' = [req EXCEPT ![h] = q], overtaken' \subseteq Handlers
  PROVE  WellFormed'
  <1>1. req' \in [Handlers -> Request]
    BY DEF WellFormed, TypeOK
  <1>2. ASSUME NEW g \in Handlers  PROVE Holds(req[g].pc, req[g])' 
    <2>1. Holds(req'[g].pc, req'[g])
      BY DEF WellFormed, TypeOK, RequestsWellFormed
    <2>. QED  BY <2>1, HoldsStable DEF WellFormed, TablesGrow
  <1>. QED  BY <1>1, <1>2 DEF WellFormed, TypeOK, TablesGrow, TablesTyped, RequestsWellFormed

(* An answer needs nothing of the handler.                                  *)
LEMMA AnswerWellFormed ==
  ASSUME WellFormed, TablesGrow, NEW h \in Handlers,
         Answer(h) \/ \E others \in SUBSET Handlers : Overtake(h, others)
  PROVE  WellFormed'
  <1>1. req' = [req EXCEPT ![h] = Idle] /\ overtaken' \subseteq Handlers
    BY DEF Answer, Overtake, WellFormed, TypeOK
  <1>2. Idle \in Request /\ Holds(Idle.pc, Idle)
    BY DEF Idle, Asked, Request, PCs, Holds
  <1>. QED  BY <1>1, <1>2, MoveWellFormed

(* Going on to a point that the handler has what it takes for.              *)
LEMMA GotoWellFormed ==
  ASSUME WellFormed, NEW h \in Handlers, NEW pc \in PCs, Goto(h, pc), UnchangedDb,
         Holds(pc, req[h])
  PROVE  WellFormed'
  <1> DEFINE q == [req[h] EXCEPT !.pc = pc]
  <1>1. /\ q \in Request /\ q.pc = pc /\ q.user = req[h].user /\ q.peer = req[h].peer
        /\ q.res = req[h].res /\ q.row = req[h].row
    BY DEF WellFormed, TypeOK, Request
  <1>2. Holds(q.pc, q)
    BY <1>1 DEF Holds
  <1>3. req' = [req EXCEPT ![h] = q] /\ overtaken' \subseteq Handlers
    BY DEF Goto, WellFormed, TypeOK
  <1>. QED  BY <1>1, <1>2, <1>3, UnchangedDbGrows, MoveWellFormed

LEMMA RejectWellFormed ==
  ASSUME WellFormed, NEW h \in Handlers, Answer(h), UnchangedDb
  PROVE  WellFormed'
  BY AnswerWellFormed, UnchangedDbGrows

-----------------------------------------------------------------------------
(* One lemma per request, then the step of Next.                            *)

LEMMA ReceiveWellFormed ==
  ASSUME WellFormed, NEW h \in Handlers, Receive(h)
  PROVE  WellFormed'
  <1>1. PICK u \in Users :
          \/ \E v \in Users :
               req' = [req EXCEPT ![h] = Asked("send", u, v, None, None)]
          \/ \E op \in {"accept", "decline", "remove"}, f \in Fid :
               /\ InFriendships(f)
               /\ req' = [req EXCEPT ![h] = Asked(op, u, None, None, f)]
          \/ \E op \in {"share", "unshare"}, r \in Resources, v \in Users :
               req' = [req EXCEPT ![h] = Asked(op, u, v, r, None)]
    BY DEF Receive
  <1>2. TablesGrow /\ overtaken' \subseteq Handlers
    BY UnchangedDbGrows DEF Receive, WellFormed, TypeOK
  <1> USE DEF Asked, Request, PCs, Holds
  <1>3. ASSUME NEW v \in Users, req' = [req EXCEPT ![h] = Asked("send", u, v, None, None)]
        PROVE  WellFormed'
    <2> DEFINE q == Asked("send", u, v, None, None)
    <2>1. q \in Request /\ Holds(q.pc, q)
      OBVIOUS
    <2>. QED  BY <1>2, <1>3, <2>1, MoveWellFormed
  <1>4. ASSUME NEW op \in {"accept", "decline", "remove"}, NEW f \in Fid, InFriendships(f),
               req' = [req EXCEPT ![h] = Asked(op, u, None, None, f)]
        PROVE  WellFormed'
    <2> DEFINE q == Asked(op, u, None, None, f)
    <2>1. q \in Request /\ Holds(q.pc, q)
      BY <1>4 DEF InFriendships, InTable
    <2>. QED  BY <1>2, <1>4, <2>1, MoveWellFormed
  <1>5. ASSUME NEW op \in {"share", "unshare"}, NEW r \in Resources, NEW v \in Users,
               req' = [req EXCEPT ![h] = Asked(op, u, v, r, None)]
        PROVE  WellFormed'
    <2> DEFINE q == Asked(op, u, v, r, None)
    <2>1. q \in Request /\ Holds(q.pc, q)
      OBVIOUS
    <2>. QED  BY <1>2, <1>5, <2>1, MoveWellFormed
  <1>. QED  BY <1>1, <1>3, <1>4, <1>5

LEMMA SendWellFormed ==
  ASSUME WellFormed, NEW h \in Handlers,
         SendCheck(h) \/ SendInsert(h) \/ SendInsertFails(h)
  PROVE  WellFormed'
  <1>1. CASE SendCheck(h)
    <2>1. CASE req[h].user = req[h].peer \/ Related(req[h].user, req[h].peer)
      BY <1>1, <2>1, RejectWellFormed DEF SendCheck
    <2>2. CASE ~(req[h].user = req[h].peer \/ Related(req[h].user, req[h].peer))
      <3>1. Goto(h, "send_insert") /\ UnchangedDb /\ Holds("send_insert", req[h])
        BY <1>1, <2>2 DEF SendCheck, At, WellFormed, RequestsWellFormed, Holds
      <3>. QED  BY <3>1, GotoWellFormed DEF PCs
    <2>. QED  BY <2>1, <2>2
  <1>2. CASE SendInsert(h)
    <2>1. SendingToo(h) \in SUBSET Handlers /\ Overtake(h, SendingToo(h))
      BY <1>2 DEF SendInsert, SendingToo
    <2>. QED  BY <1>2, <2>1, SendInsertGrows, AnswerWellFormed
  <1>3. CASE SendInsertFails(h)
    BY <1>3, RejectWellFormed DEF SendInsertFails
  <1>. QED  BY <1>1, <1>2, <1>3

(* What the commit of an answer or of a removal does to its row.            *)
LEMMA FriendshipCommit ==
  ASSUME WellFormed, NEW h \in Handlers,
         AcceptCommit(h) \/ DeclineCommit(h) \/ RemoveCommit(h)
  PROVE  /\ req[h].row \in Fid /\ friendship[req[h].row].status # "absent"
         /\ TablesGrow
  <1>1. req[h].row \in Fid /\ friendship[req[h].row].status # "absent"
    BY DEF AcceptCommit, DeclineCommit, RemoveCommit, At, WellFormed, RequestsWellFormed, Holds
  <1>2. TablesGrow
    BY <1>1, FriendshipUpdateGrows DEF AcceptCommit, DeclineCommit, RemoveCommit
  <1>. QED  BY <1>1, <1>2

LEMMA RespondWellFormed ==
  ASSUME WellFormed, NEW h \in Handlers,
         AnswerRead(h) \/ AcceptCommit(h) \/ DeclineCommit(h) \/ AnswerCommitFails(h)
  PROVE  WellFormed'
  <1>1. CASE AnswerRead(h)
    <2>1. CASE Incoming(req[h].row, req[h].user)
      <3> DEFINE pc == IF At(h, "accept") THEN "accept_commit" ELSE "decline_commit"
      <3>1. pc \in PCs /\ Goto(h, pc) /\ UnchangedDb
        BY <1>1, <2>1 DEF AnswerRead, PCs
      <3>2. Holds(pc, req[h])
        BY <1>1 DEF AnswerRead, At, WellFormed, RequestsWellFormed, Holds
      <3>. QED  BY <3>1, <3>2, GotoWellFormed
    <2>2. CASE ~Incoming(req[h].row, req[h].user)
      BY <1>1, <2>2, RejectWellFormed DEF AnswerRead
    <2>. QED  BY <2>1, <2>2
  <1>2. CASE AcceptCommit(h) \/ DeclineCommit(h)
    <2>1. PICK others \in SUBSET Handlers : Overtake(h, others)
      BY <1>2 DEF AcceptCommit, DeclineCommit, AnswerAndOvertake
    <2>. QED  BY <1>2, <2>1, FriendshipCommit, AnswerWellFormed
  <1>3. CASE AnswerCommitFails(h)
    BY <1>3, RejectWellFormed DEF AnswerCommitFails
  <1>. QED  BY <1>1, <1>2, <1>3

LEMMA RemoveWellFormed ==
  ASSUME WellFormed, NEW h \in Handlers, RemoveRead(h) \/ RemoveCommit(h)
  PROVE  WellFormed'
  <1>1. CASE RemoveRead(h)
    <2>1. CASE Answer(h)
      BY <1>1, <2>1, RejectWellFormed DEF RemoveRead
    <2>2. CASE Goto(h, "remove_commit")
      <3>1. Holds("remove_commit", req[h])
        BY <1>1 DEF RemoveRead, At, WellFormed, RequestsWellFormed, Holds
      <3>. QED  BY <1>1, <2>2, <3>1, GotoWellFormed DEF RemoveRead, PCs
    <2>. QED  BY <1>1, <2>1, <2>2 DEF RemoveRead
  <1>2. CASE RemoveCommit(h)
    BY <1>2, FriendshipCommit, AnswerWellFormed DEF RemoveCommit
  <1>. QED  BY <1>1, <1>2

(* _are_friends found a row: it is accepted, hence has been.                 *)
LEMMA FriendsHaveBeen ==
  ASSUME WellFormed, NEW u, NEW v, AreFriends(u, v)
  PROVE  HaveBeenFriends(u, v)
  <1>1. AcceptedRows(u, v) # {}
    BY FS_EmptySet DEF AreFriends
  <1>. QED
    BY <1>1 DEF AcceptedRows, Rows, HaveBeenFriends, WellFormed, FriendshipsWellFormed

LEMMA ShareWellFormed ==
  ASSUME WellFormed, NEW h \in Handlers,
         \/ ShareOwned(h) \/ ShareFriends(h) \/ ShareExisting(h)
         \/ ShareInsert(h) \/ ShareInsertFails(h)
  PROVE  WellFormed'
  <1>1. Holds(req[h].pc, req[h])
    BY DEF WellFormed, RequestsWellFormed
  <1>2. CASE ShareOwned(h)
    <2>1. CASE Owns(req[h].user, req[h].res) /\ req[h].peer # req[h].user
      <3>1. Goto(h, "share_friends") /\ UnchangedDb /\ Holds("share_friends", req[h])
        BY <1>1, <1>2, <2>1 DEF ShareOwned, Owns, At, Holds
      <3>. QED  BY <3>1, GotoWellFormed DEF PCs
    <2>2. CASE ~(Owns(req[h].user, req[h].res) /\ req[h].peer # req[h].user)
      BY <1>2, <2>2, RejectWellFormed DEF ShareOwned
    <2>. QED  BY <2>1, <2>2
  <1>3. CASE ShareFriends(h)
    <2>1. CASE AreFriends(req[h].user, req[h].peer)
      <3>1. Goto(h, "share_existing") /\ UnchangedDb /\ Holds("share_existing", req[h])
        BY <1>1, <1>3, <2>1, FriendsHaveBeen DEF ShareFriends, At, Holds
      <3>. QED  BY <3>1, GotoWellFormed DEF PCs
    <2>2. CASE ~AreFriends(req[h].user, req[h].peer)
      BY <1>3, <2>2, RejectWellFormed DEF ShareFriends
    <2>. QED  BY <2>1, <2>2
  <1>4. CASE ShareExisting(h)
    <2>1. CASE SharesOf(req[h].res, req[h].peer) = {}
      <3>1. Goto(h, "share_insert") /\ UnchangedDb /\ Holds("share_insert", req[h])
        BY <1>1, <1>4, <2>1 DEF ShareExisting, At, Holds
      <3>. QED  BY <3>1, GotoWellFormed DEF PCs
    <2>2. CASE SharesOf(req[h].res, req[h].peer) # {}
      BY <1>4, <2>2, RejectWellFormed DEF ShareExisting
    <2>. QED  BY <2>1, <2>2
  <1>5. CASE ShareInsert(h)
    BY <1>5, ShareInsertGrows, AnswerWellFormed DEF ShareInsert
  <1>6. CASE ShareInsertFails(h)
    BY <1>6, RejectWellFormed DEF ShareInsertFails
  <1>. QED  BY <1>2, <1>3, <1>4, <1>5, <1>6

LEMMA UnshareWellFormed ==
  ASSUME WellFormed, NEW h \in Handlers,
         UnshareOwned(h) \/ UnshareRead(h) \/ UnshareCommit(h)
  PROVE  WellFormed'
  <1>1. CASE UnshareRead(h)
    <2> DEFINE found == SharesOf(req[h].res, req[h].peer)
    <2>1. CASE found # {}
      <3>1. PICK s \in found :
              req' = [req EXCEPT ![h].pc = "unshare_commit", ![h].row = s]
        BY <1>1, <2>1 DEF UnshareRead
      <3> DEFINE q == [req[h] EXCEPT !.pc = "unshare_commit", !.row = s]
      <3>2. s \in Sid /\ share[s].status = "shared"
        BY DEF SharesOf
      <3>3. q \in Request /\ q.pc = "unshare_commit" /\ q.row = s
        BY <3>2 DEF WellFormed, TypeOK, Request, PCs
      <3>4. Holds(q.pc, q)
        BY <3>2, <3>3 DEF Holds
      <3>5. req' = [req EXCEPT ![h] = q]
        BY <3>1 DEF WellFormed, TypeOK
      <3>6. TablesGrow /\ overtaken' \subseteq Handlers
        BY <1>1, <2>1, UnchangedDbGrows DEF UnshareRead, WellFormed, TypeOK
      <3> HIDE DEF q
      <3>. QED  BY <3>3, <3>4, <3>5, <3>6, MoveWellFormed
    <2>2. CASE found = {}
      BY <1>1, <2>2, RejectWellFormed DEF UnshareRead
    <2>. QED  BY <2>1, <2>2
  <1>2. CASE UnshareCommit(h)
    BY <1>2, UnshareCommitGrows, AnswerWellFormed DEF UnshareCommit
  <1>3. CASE UnshareOwned(h)
    <2>1. CASE Goto(h, "unshare_read")
      <3>1. UnchangedDb /\ Holds("unshare_read", req[h])
        BY <1>3 DEF UnshareOwned, At, WellFormed, RequestsWellFormed, Holds
      <3>. QED  BY <2>1, <3>1, GotoWellFormed DEF PCs
    <2>2. CASE Answer(h)
      BY <1>3, <2>2, RejectWellFormed DEF UnshareOwned
    <2>. QED  BY <1>3, <2>1, <2>2 DEF UnshareOwned
  <1>. QED  BY <1>1, <1>2, <1>3

(* The other routers, a restart, and steps that leave everything alone.     *)
LEMMA EnvironmentWellFormed ==
  ASSUME WellFormed, (\E r \in Resources : DeleteResource(r)) \/ Crash \/ UNCHANGED vars
  PROVE  WellFormed'
  <1>1. CASE (\E r \in Resources : DeleteResource(r)) \/ UNCHANGED vars
    BY <1>1 DEF DeleteResource, vars, WellFormed, TypeOK, FriendshipsWellFormed,
       SharesWellFormed, RequestsWellFormed, Holds, HaveBeenFriends, Between
  <1>2. CASE Crash
    BY <1>2 DEF Crash, UnchangedDb, WellFormed, TypeOK, FriendshipsWellFormed,
       SharesWellFormed, RequestsWellFormed, Holds, Idle, Asked, Request, PCs
  <1>. QED  BY <1>1, <1>2

LEMMA NextWellFormed == WellFormed /\ [Next]_vars => WellFormed'
  <1> SUFFICES ASSUME WellFormed, [Next]_vars  PROVE WellFormed'
    OBVIOUS
  <1>1. ASSUME NEW h \in Handlers, Step(h)  PROVE WellFormed'
    BY <1>1, ReceiveWellFormed, SendWellFormed, RespondWellFormed, RemoveWellFormed,
       ShareWellFormed, UnshareWellFormed DEF Step
  <1>. QED  BY <1>1, EnvironmentWellFormed DEF Next

(* What every handler relies on between two awaits holds in every state.   *)
THEOREM AlwaysWellFormed == Spec => []WellFormed
  <1>. QED  BY InitWellFormed, NextWellFormed, PTL DEF Spec

(* Every variable keeps its type, with any number of users and requests.   *)
THEOREM TypeCorrect == Spec => []TypeOK
  <1>1. WellFormed => TypeOK
    BY DEF WellFormed
  <1>. QED  BY <1>1, AlwaysWellFormed, PTL

-----------------------------------------------------------------------------
(* What a step does to the tables, whoever takes it.                        *)

KeepsFriendships == UNCHANGED <<friendship, acceptedOnce>>

FriendshipWrite(h) ==
  SendInsert(h) \/ AcceptCommit(h) \/ DeclineCommit(h) \/ RemoveCommit(h)

ShareWrite(h) == ShareInsert(h) \/ UnshareCommit(h)

(* A handler that writes also answers; the others write nothing.            *)
LEMMA WritesOrNot ==
  ASSUME NEW h \in Handlers, Step(h)
  PROVE  \/ FriendshipWrite(h) /\ UNCHANGED share
         \/ ShareWrite(h) /\ KeepsFriendships
         \/ KeepsFriendships /\ UNCHANGED share
  BY DEF Step, FriendshipWrite, ShareWrite, KeepsFriendships, Receive, SendCheck,
     SendInsert, SendInsertFails, AnswerRead, AcceptCommit, DeclineCommit,
     AnswerCommitFails, RemoveRead, RemoveCommit, ShareOwned, ShareFriends, ShareExisting,
     ShareInsert, ShareInsertFails, UnshareOwned, UnshareRead, UnshareCommit, UnchangedDb

LEMMA NextWrites ==
  ASSUME [Next]_vars
  PROVE  \/ \E h \in Handlers : FriendshipWrite(h) /\ UNCHANGED share
         \/ \E h \in Handlers : ShareWrite(h) /\ KeepsFriendships
         \/ KeepsFriendships /\ UNCHANGED share
  <1>1. CASE \E h \in Handlers : Step(h)
    BY <1>1, WritesOrNot
  <1>2. CASE (\E r \in Resources : DeleteResource(r)) \/ Crash \/ UNCHANGED vars
    BY <1>2 DEF DeleteResource, Crash, UnchangedDb, vars, KeepsFriendships
  <1>. QED  BY <1>1, <1>2 DEF Next

LEMMA NextDbGrows ==
  ASSUME WellFormed, [Next]_vars
  PROVE  DbGrows
  <1>1. CASE \E h \in Handlers : FriendshipWrite(h)
    BY <1>1, SendInsertGrows, FriendshipCommit DEF FriendshipWrite, TablesGrow
  <1>2. CASE \E h \in Handlers : ShareWrite(h)
    BY <1>2, ShareInsertGrows, UnshareCommitGrows DEF ShareWrite, TablesGrow
  <1>3. CASE KeepsFriendships /\ UNCHANGED share
    BY <1>3 DEF KeepsFriendships, DbGrows
  <1>. QED  BY <1>1, <1>2, <1>3, NextWrites

(* A share that a step grants is granted to a peer of the owner that is or  *)
(* has been a friend, and nobody held one of that resource yet.             *)
LEMMA SharedByInsert ==
  ASSUME WellFormed, [Next]_vars, NEW s \in Sid,
         share'[s].status = "shared", share'[s] # share[s]
  PROVE  /\ \A t \in Sid \ {s} : share'[t] = share[t]
         /\ HaveBeenFriends(Owner[share'[s].res], share'[s].to)
         /\ SharesOf(share'[s].res, share'[s].to) = {}
  <1>1. PICK h \in Handlers : ShareWrite(h)
    BY NextWrites
  <1>2. CASE UnshareCommit(h)
    BY <1>2 DEF UnshareCommit, At, WellFormed, TypeOK, Share, RequestsWellFormed, Holds
  <1>3. CASE ShareInsert(h)
    <2>1. PICK t \in Sid : share' = [share EXCEPT ![t] =
                              [res |-> req[h].res, to |-> req[h].peer, status |-> "shared"]]
      BY <1>3 DEF ShareInsert
    <2>2. /\ t = s /\ share'[s].res = req[h].res /\ share'[s].to = req[h].peer
          /\ \A u \in Sid \ {s} : share'[u] = share[u]
      BY <2>1 DEF WellFormed, TypeOK
    <2>3. /\ Owner[req[h].res] = req[h].user /\ HaveBeenFriends(req[h].user, req[h].peer)
          /\ SharesOf(req[h].res, req[h].peer) = {}
      BY <1>3 DEF ShareInsert, ShareIndexAdmits, At, WellFormed, RequestsWellFormed, Holds
    <2>. QED  BY <2>2, <2>3
  <1>. QED  BY <1>1, <1>2, <1>3 DEF ShareWrite

-----------------------------------------------------------------------------

(* Nobody holds a share without having been a friend of the owner: that     *)
(* both were friends when _are_friends looked is never undone, so it still  *)
(* holds when the share is inserted.                                        *)
THEOREM ShareFollowsTheorem == Spec => []ShareFollowsFriendship
  <1>1. Init => ShareFollowsFriendship
    BY DEF Init, ShareFollowsFriendship
  <1>2. WellFormed /\ ShareFollowsFriendship /\ [Next]_vars => ShareFollowsFriendship'
    <2> SUFFICES ASSUME WellFormed, ShareFollowsFriendship, [Next]_vars,
                        NEW s \in Sid, share'[s].status = "shared"
                 PROVE  \E f \in acceptedOnce' :
                          Between(f, Owner[share[s].res], share[s].to)'
      BY DEF ShareFollowsFriendship
    <2>1. HaveBeenFriends(Owner[share'[s].res], share'[s].to)
      BY SharedByInsert DEF ShareFollowsFriendship, HaveBeenFriends
    <2>2. PICK f \in acceptedOnce : Between(f, Owner[share'[s].res], share'[s].to)
      BY <2>1 DEF HaveBeenFriends
    <2>3. f \in acceptedOnce' /\ friendship'[f].from = friendship[f].from
          /\ friendship'[f].to = friendship[f].to
      BY NextDbGrows DEF DbGrows, WellFormed, TypeOK, FriendshipsWellFormed
    <2>. QED  BY <2>2, <2>3 DEF Between
  <1>. QED  BY <1>1, <1>2, AlwaysWellFormed, PTL DEF Spec

LEMMA AtMostOne ==
  ASSUME NEW S, \A x, y \in S : x = y
  PROVE  Cardinality(S) <= 1
  <1>1. CASE S = {}
    BY <1>1, FS_EmptySet
  <1>2. CASE S # {}
    <2>1. PICK x \in S : S = {x}
      BY <1>2
    <2>. QED  BY <2>1, FS_Singleton
  <1>. QED  BY <1>1, <1>2

SharesDistinct ==
  \A s, t \in Sid :
    /\ share[s].status = "shared" /\ share[t].status = "shared"
    /\ share[s].res = share[t].res /\ share[s].to = share[t].to
    => s = t

(* However many requests share one resource with one user at the same time, *)
(* the unique index leaves one row.                                         *)
THEOREM ShareUniqueTheorem == Spec => []ShareUnique
  <1>1. Init => SharesDistinct
    BY DEF Init, SharesDistinct
  <1>2. WellFormed /\ SharesDistinct /\ [Next]_vars => SharesDistinct'
    <2> SUFFICES ASSUME WellFormed, SharesDistinct, [Next]_vars
                 PROVE  SharesDistinct'
      OBVIOUS
    <2>1. ASSUME NEW s \in Sid, share'[s].status = "shared", share'[s] # share[s]
          PROVE  SharesDistinct'
      BY <2>1, SharedByInsert DEF SharesDistinct, SharesOf
    <2>2. CASE \A s \in Sid : share'[s].status = "shared" => share'[s] = share[s]
      BY <2>2 DEF SharesDistinct
    <2>. QED  BY <2>1, <2>2
  <1>3. SharesDistinct => ShareUnique
    BY AtMostOne DEF SharesDistinct, ShareUnique, SharesOf
  <1>. QED  BY <1>1, <1>2, <1>3, AlwaysWellFormed, PTL DEF Spec

-----------------------------------------------------------------------------
(* The rows of friendships.                                                 *)

(* A removed row is never written again: an answer that read it before it   *)
(* was removed finds no row to update.                                      *)
THEOREM RemovedStaysTheorem == Spec => RemovedStaysRemoved
  <1>1. WellFormed /\ [Next]_vars
          => [\A f \in Fid : friendship[f].status = "deleted"
                              => friendship'[f].status = "deleted"]_vars
    <2> SUFFICES ASSUME WellFormed, [Next]_vars, NEW f \in Fid,
                        friendship[f].status = "deleted"
                 PROVE  friendship'[f].status = "deleted"
      OBVIOUS
    <2>1. CASE \E h \in Handlers : FriendshipWrite(h)
      BY <2>1, FriendshipCommit DEF FriendshipWrite, SendInsert, AcceptCommit,
         DeclineCommit, RemoveCommit, InFriendships, InTable, WellFormed, TypeOK, Friendship
    <2>2. CASE KeepsFriendships
      BY <2>2 DEF KeepsFriendships
    <2>. QED  BY <2>1, <2>2, NextWrites
  <1>. QED  BY <1>1, AlwaysWellFormed, PTL DEF Spec, RemovedStaysRemoved

(* The step of one handler leaves the others where they are, and overtaken  *)
(* if they were; one that does not answer has written nothing.              *)
LEMMA StepOfOne ==
  ASSUME WellFormed, NEW h \in Handlers, Step(h)
  PROVE  /\ \A g \in Handlers \ {h} :
              req'[g] = req[g] /\ (g \in overtaken => g \in overtaken')
         /\ req'[h] = Idle \/ UnchangedDb
  BY DEF WellFormed, TypeOK, Step, Receive, SendCheck, SendInsert, SendInsertFails,
     AnswerRead, AcceptCommit, DeclineCommit, AnswerCommitFails, RemoveRead, RemoveCommit,
     ShareOwned, ShareFriends, ShareExisting, ShareInsert, ShareInsertFails, UnshareOwned,
     UnshareRead, UnshareCommit, Goto, Answer, Overtake, AnswerAndOvertake

(* A handler that is about to answer a request somebody else has answered.  *)
AnswerMarked ==
  \A h \in Handlers :
    Answering(h) /\ friendship[req[h].row].status \in {"accepted", "declined"}
      => h \in overtaken

(* A handler that is about to insert a row where somebody else has.          *)
CrossingMarked ==
  \A h \in Handlers :
    At(h, "send_insert") /\ Rows(req[h].user, req[h].peer) # {} => h \in overtaken

(* What the commit of an answer marks: all that were about to answer the    *)
(* same request.                                                            *)
LEMMA AnswerMarks ==
  ASSUME WellFormed, NEW h \in Handlers, AcceptCommit(h) \/ DeclineCommit(h),
         NEW g \in Handlers \ {h}, Answering(g), req[g].row = req[h].row
  PROVE  g \in overtaken'
  BY DEF AcceptCommit, DeclineCommit, AnswerAndOvertake, Overtake

LEMMA AnswerMarkedStep ==
  ASSUME WellFormed, AnswerMarked, NEW h \in Handlers, Step(h)
  PROVE  AnswerMarked'
  <1> SUFFICES ASSUME NEW g \in Handlers, Answering(g)',
                      friendship'[req'[g].row].status \in {"accepted", "declined"}
               PROVE  g \in overtaken'
    BY DEF AnswerMarked
  <1> DEFINE f == req[g].row
  <1>1. CASE g = h
    <2>1. req'[h] # Idle /\ UnchangedDb
      BY <1>1, StepOfOne DEF Answering, At, Idle, Asked
    <2>2. AnswerRead(h) /\ Incoming(f, req[h].user) /\ req'[h].row = f
      BY <1>1, <2>1 DEF Answering, At, WellFormed, TypeOK, Step, Receive, SendCheck,
         SendInsert, SendInsertFails, AnswerRead, AcceptCommit, DeclineCommit,
         AnswerCommitFails, RemoveRead, RemoveCommit, ShareOwned, ShareFriends,
         ShareExisting, ShareInsert, ShareInsertFails, UnshareOwned, UnshareRead,
         UnshareCommit, Goto, Answer, Overtake, AnswerAndOvertake, Idle, Asked, Request
    <2>. QED  BY <1>1, <2>1, <2>2 DEF Incoming, UnchangedDb
  <1>2. CASE g # h
    <2>1. req'[g] = req[g] /\ Answering(g) /\ (g \in overtaken => g \in overtaken')
      BY <1>2, StepOfOne DEF Answering, At
    <2>2. f \in Fid /\ friendship[f].status # "absent"
      BY <2>1 DEF Answering, At, WellFormed, RequestsWellFormed, Holds
    <2>3. CASE friendship'[f] = friendship[f]
      BY <2>1, <2>3 DEF AnswerMarked
    <2>4. CASE friendship'[f] # friendship[f]
      <3>1. FriendshipWrite(h)
        BY <2>4, WritesOrNot DEF KeepsFriendships
      <3>2. ~SendInsert(h)
        BY <2>2, <2>4 DEF SendInsert, WellFormed, TypeOK
      <3>3. f = req[h].row /\ ~RemoveCommit(h)
        BY <2>1, <2>2, <2>4, <3>1, <3>2 DEF FriendshipWrite, AcceptCommit, DeclineCommit,
           RemoveCommit, WellFormed, TypeOK, Friendship
      <3>. QED  BY <1>2, <2>1, <3>1, <3>2, <3>3, AnswerMarks DEF FriendshipWrite
    <2>. QED  BY <2>3, <2>4
  <1>. QED  BY <1>1, <1>2

LEMMA NextAnswerMarked ==
  WellFormed /\ AnswerMarked /\ [Next]_vars => AnswerMarked'
  <1> SUFFICES ASSUME WellFormed, AnswerMarked, [Next]_vars  PROVE AnswerMarked'
    OBVIOUS
  <1>1. CASE (\E r \in Resources : DeleteResource(r)) \/ UNCHANGED vars
    BY <1>1 DEF DeleteResource, vars, AnswerMarked, Answering, At
  <1>2. CASE Crash
    BY <1>2 DEF Crash, AnswerMarked, Answering, At, Idle, Asked
  <1>. QED  BY <1>1, <1>2, AnswerMarkedStep DEF Next

(* An answer is final unless another, overtaken one had read the request    *)
(* while it was pending too.                                                *)
THEOREM AnswerIsFinalTheorem == Spec => AnswerIsFinal
  <1> DEFINE Final(f) ==
        friendship[f].status \in {"accepted", "declined"} =>
          \/ friendship'[f].status \in {friendship[f].status, "deleted"}
          \/ \E h \in overtaken : req[h].row = f /\ (AcceptCommit(h) \/ DeclineCommit(h))
  <1>1. Init => AnswerMarked
    BY DEF Init, AnswerMarked, Answering, At, Idle, Asked
  <1>2. WellFormed /\ AnswerMarked /\ [Next]_vars => [\A f \in Fid : Final(f)]_vars
    <2> SUFFICES ASSUME WellFormed, AnswerMarked, [Next]_vars, NEW f \in Fid,
                        friendship[f].status \in {"accepted", "declined"},
                        friendship'[f].status \notin {friendship[f].status, "deleted"}
                 PROVE  \E h \in overtaken :
                          req[h].row = f /\ (AcceptCommit(h) \/ DeclineCommit(h))
      OBVIOUS
    <2>1. PICK h \in Handlers : FriendshipWrite(h)
      BY NextWrites DEF KeepsFriendships
    <2>2. ~SendInsert(h)
      BY DEF SendInsert, WellFormed, TypeOK
    <2>3. (AcceptCommit(h) \/ DeclineCommit(h)) /\ req[h].row = f
      BY <2>1, <2>2, FriendshipCommit DEF FriendshipWrite, AcceptCommit, DeclineCommit,
         RemoveCommit, WellFormed, TypeOK, Friendship
    <2>4. h \in overtaken
      BY <2>3 DEF AnswerMarked, AcceptCommit, DeclineCommit, Answering
    <2>. QED  BY <2>3, <2>4
  <1>. QED
    BY <1>1, <1>2, NextAnswerMarked, AlwaysWellFormed, PTL DEF Spec, AnswerIsFinal

-----------------------------------------------------------------------------
(* Two rows between the same users.                                         *)

(* The rows between two users after the step.                               *)
RowsAfter(u, v) ==
  {f \in Fid : /\ friendship'[f].status \in InTable
               /\ \/ friendship'[f].from = u /\ friendship'[f].to = v
                  \/ friendship'[f].from = v /\ friendship'[f].to = u}

(* Only an insert between the two gives them a row.                         *)
LEMMA RowsGrow ==
  ASSUME WellFormed, NEW h \in Handlers, Step(h), NEW u, NEW v,
         Rows(u, v) = {}, RowsAfter(u, v) # {}
  PROVE  SendInsert(h) /\ {req[h].user, req[h].peer} = {u, v}
  <1>1. PICK f \in Fid :
          /\ friendship'[f].status \in InTable
          /\ \/ friendship'[f].from = u /\ friendship'[f].to = v
             \/ friendship'[f].from = v /\ friendship'[f].to = u
    BY DEF RowsAfter
  <1>2. friendship[f].status \notin InTable \/ ~Between(f, u, v)
    BY DEF Rows
  <1>3. FriendshipWrite(h) /\ friendship'[f] # friendship[f]
    BY <1>1, <1>2, WritesOrNot DEF KeepsFriendships, Between
  <1>4. ~RemoveCommit(h)
    BY <1>1, <1>3, FriendshipCommit DEF RemoveCommit, InTable, WellFormed, TypeOK, Friendship
  <1>5. ~AcceptCommit(h) /\ ~DeclineCommit(h)
    <2> SUFFICES ASSUME AcceptCommit(h) \/ DeclineCommit(h)  PROVE FALSE
      OBVIOUS
    <2>1. f = req[h].row /\ friendship[f].status \in InTable
          /\ friendship'[f].from = friendship[f].from /\ friendship'[f].to = friendship[f].to
      BY <1>3, FriendshipCommit DEF AcceptCommit, DeclineCommit, InFriendships, WellFormed,
         TypeOK, Friendship
    <2>. QED  BY <1>1, <1>2, <2>1 DEF Between
  <1>6. SendInsert(h) /\ friendship'[f].from = req[h].user /\ friendship'[f].to = req[h].peer
    BY <1>3, <1>4, <1>5 DEF FriendshipWrite, SendInsert, WellFormed, TypeOK
  <1>. QED  BY <1>1, <1>6 DEF Between

LEMMA CrossingMarkedStep ==
  ASSUME WellFormed, CrossingMarked, NEW h \in Handlers, Step(h)
  PROVE  CrossingMarked'
  <1> SUFFICES ASSUME NEW g \in Handlers, At(g, "send_insert")',
                      Rows(req[g].user, req[g].peer)' # {}
               PROVE  g \in overtaken'
    BY DEF CrossingMarked
  <1>1. CASE g = h
    <2>1. req'[h] # Idle /\ UnchangedDb
      BY <1>1, StepOfOne DEF At, Idle, Asked
    <2>2. /\ ~Related(req[h].user, req[h].peer)
          /\ req'[h].user = req[h].user /\ req'[h].peer = req[h].peer
      BY <1>1, <2>1 DEF At, WellFormed, TypeOK, Step, Receive, SendCheck, SendInsert,
         SendInsertFails, AnswerRead, AcceptCommit, DeclineCommit, AnswerCommitFails,
         RemoveRead, RemoveCommit, ShareOwned, ShareFriends, ShareExisting, ShareInsert,
         ShareInsertFails, UnshareOwned, UnshareRead, UnshareCommit, Goto, Answer, Overtake,
         AnswerAndOvertake, Idle, Asked, Request
    <2>. QED  BY <1>1, <2>1, <2>2 DEF UnchangedDb, Related, Rows, Between
  <1>2. CASE g # h
    <2> DEFINE u == req[g].user
               v == req[g].peer
    <2>1. req'[g] = req[g] /\ At(g, "send_insert") /\ (g \in overtaken => g \in overtaken')
      BY <1>2, StepOfOne DEF At
    <2>2. CASE Rows(u, v) # {}
      BY <2>1, <2>2 DEF CrossingMarked
    <2>3. CASE Rows(u, v) = {}
      <3>1. RowsAfter(u, v) # {}
        BY <2>1 DEF RowsAfter, Rows, Between
      <3>2. SendInsert(h) /\ {req[h].user, req[h].peer} = {u, v}
        BY <2>3, <3>1, RowsGrow
      <3>3. g \in SendingToo(h)
        BY <2>1, <3>2 DEF SendingToo
      <3>. QED  BY <1>2, <3>2, <3>3 DEF SendInsert, Overtake
    <2>. QED  BY <2>2, <2>3
  <1>. QED  BY <1>1, <1>2

LEMMA NextCrossingMarked ==
  WellFormed /\ CrossingMarked /\ [Next]_vars => CrossingMarked'
  <1> SUFFICES ASSUME WellFormed, CrossingMarked, [Next]_vars  PROVE CrossingMarked'
    OBVIOUS
  <1>1. CASE (\E r \in Resources : DeleteResource(r)) \/ UNCHANGED vars
    BY <1>1 DEF DeleteResource, vars, CrossingMarked, At, Rows, Between
  <1>2. CASE Crash
    BY <1>2 DEF Crash, CrossingMarked, At, Idle, Asked
  <1>. QED  BY <1>1, <1>2, CrossingMarkedStep DEF Next

(* A second row between two users is inserted only by a request that looked *)
(* before the first was inserted.                                           *)
THEOREM CrossingTheorem == Spec => SecondRowOnlyByCrossing
  <1>1. Init => CrossingMarked
    BY DEF Init, CrossingMarked, At, Idle, Asked
  <1>2. CrossingMarked /\ [Next]_vars
          => [\A h \in Handlers : SendInsert(h) /\ Rows(req[h].user, req[h].peer) # {}
                                  => h \in overtaken]_vars
    BY DEF CrossingMarked, SendInsert
  <1>. QED
    BY <1>1, <1>2, NextCrossingMarked, AlwaysWellFormed, PTL DEF Spec, SecondRowOnlyByCrossing

=============================================================================
