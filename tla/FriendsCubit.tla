----------------------------- MODULE FriendsCubit -----------------------------
(***************************************************************************)
(* The friends of the app: friends_cubit.dart and the requests that         *)
(* friends_repository.dart makes for it, with the two lists of the API it   *)
(* shows (GET /friends and GET /friends/requests?direction=incoming in      *)
(* api/app/api/v1/routers/friends.py).                                      *)
(*                                                                          *)
(* loadAll asks for one list after the other, and the rows change between   *)
(* the two: the other users act, and so do the other methods of the cubit,  *)
(* for nothing keeps two from running at once.  accept and decline load     *)
(* again when they have been answered.  Each request is served at some      *)
(* moment between its start and its answer, and may fail before it is       *)
(* served or lose its answer.  A row is seen from the user of the app; two  *)
(* of them may be of one person, for a row may go and another come, and two *)
(* requests may cross.  Module Social has the handlers of the API await by  *)
(* await; here each is served at once, but for the one that sends a         *)
(* request, where what it has checked may be over when it commits.          *)
(*                                                                          *)
(* Left out: shares, which do not touch the two lists, other devices of the *)
(* user, and a request that is served after the app has given it up.        *)
(***************************************************************************)
EXTENDS FiniteSets

CONSTANTS Rows,  \* ids of friendships of the user, never drawn twice
          Users, \* the other users
          Calls, \* bound: methods running at a time
          None   \* absent value

ASSUME FriendsAssumption == None \notin Rows \cup Users

VARIABLES row,     \* the status of each friendship
          peer,    \* its other user
          mine,    \* the friendships that the user of the app has asked for
          crossed, \* history: users with a second row put beside the first
          shown,   \* state.friends and state.incomingRequests
          status,  \* state.status
          call     \* the methods that are running

table == <<row, peer, mine, crossed>>
vars == <<row, peer, mine, crossed, shown, status, call>>

-----------------------------------------------------------------------------

RowStates == {"absent", "pending", "accepted", "declined", "removed"}

Lists == {"accepted", "incoming"}

Statuses == {"initial", "loading", "loaded", "error"}

LoadPCs == {"load", "load_second", "load_answer"}

AnswerPCs == {"accept", "accept_answer", "decline", "decline_answer"}

SendPCs == {"send", "send_commit"}

(* id: the request this method answers; read: the lists it was answered;    *)
(* to: the user whom the API found to have no row with this one.            *)
Call == [pc : {"idle"} \cup LoadPCs \cup AnswerPCs \cup SendPCs, id : Rows \cup {None},
         read : [Lists -> SUBSET Rows], to : Users \cup {None}]

Nothing == [l \in Lists |-> {}]

NoCall == [pc |-> "idle", id |-> None, read |-> Nothing, to |-> None]

TypeOK == /\ row \in [Rows -> RowStates]
          /\ peer \in [Rows -> Users \cup {None}]
          /\ mine \subseteq Rows /\ crossed \subseteq Users
          /\ shown \in [Lists -> SUBSET Rows]
          /\ status \in Statuses
          /\ call \in [Calls -> Call]

Init == /\ row = [i \in Rows |-> "absent"]
        /\ peer = [i \in Rows |-> None]
        /\ mine = {} /\ crossed = {}
        /\ shown = Nothing
        /\ status = "initial"
        /\ call = [c \in Calls |-> NoCall]

-----------------------------------------------------------------------------

At(c, pc) == call[c].pc = pc

Goto(c, pc) == call' = [call EXCEPT ![c].pc = pc]

Done(c) == call' = [call EXCEPT ![c] = NoCall]

Loading(c) == call[c].pc \in LoadPCs

Present(i) == row[i] \notin {"absent", "removed"}

RowsOf(u) == {i \in Rows : Present(i) /\ peer[i] = u}

Listed(l) == {i \in Rows : IF l = "accepted" THEN row[i] = "accepted"
                           ELSE row[i] = "pending" /\ i \notin mine}

(* A row of the API changes from one status to another.                    *)
Becomes(i, from, to) == /\ row[i] = from
                        /\ row' = [row EXCEPT ![i] = to]
                        /\ UNCHANGED <<peer, mine, crossed>>

(* accept and decline find a pending request to this user.                 *)
Respond(i, to) == i \notin mine /\ Becomes(i, "pending", to)

(* A request between this user and u is put in the table, by this user or   *)
(* by u: the unique constraint takes one for each of the two.               *)
Insert(i, u, byMe) == /\ row[i] = "absent"
                      /\ \A k \in RowsOf(u) : (k \in mine) # byMe
                      /\ row' = [row EXCEPT ![i] = "pending"]
                      /\ peer' = [peer EXCEPT ![i] = u]
                      /\ mine' = IF byMe THEN mine \cup {i} ELSE mine
                      /\ crossed' = IF RowsOf(u) = {} THEN crossed ELSE crossed \cup {u}

(* Another user asks: the check of such a request may be as old as the time *)
(* when there were no rows, so it is the constraint that has a say; or      *)
(* answers a request of this user; or ends a friendship or a request.       *)
OtherUser(i) ==
  /\ \/ \E u \in Users : Insert(i, u, FALSE)
     \/ i \in mine /\ \E s \in {"accepted", "declined"} : Becomes(i, "pending", s)
     \/ Present(i) /\ Becomes(i, row[i], "removed")
  /\ UNCHANGED <<shown, status, call>>

-----------------------------------------------------------------------------
(* loadAll                                                                  *)

(* Should the requests be asked for first:                                 *)
RequestsFirst == <<"incoming", "accepted">>

Order == <<"accepted", "incoming">>

Read(c, l) == [call[c] EXCEPT !.read[l] = Listed(l)]

Load(c) ==
  /\ At(c, "idle")
  /\ Goto(c, "load")
  /\ status' = "loading"
  /\ UNCHANGED <<table, shown>>

LoadFirstServed(c) ==
  /\ At(c, "load")
  /\ call' = [call EXCEPT ![c] = [Read(c, Order[1]) EXCEPT !.pc = "load_second"]]
  /\ UNCHANGED <<table, shown, status>>

LoadSecondServed(c) ==
  /\ At(c, "load_second")
  /\ call' = [call EXCEPT ![c] = [Read(c, Order[2]) EXCEPT !.pc = "load_answer"]]
  /\ UNCHANGED <<table, shown, status>>

LoadAnswered(c) ==
  /\ At(c, "load_answer")
  /\ shown' = call[c].read
  /\ status' = "loaded"
  /\ Done(c)
  /\ UNCHANGED table

(* Should an error leave the status as it is:                              *)
LoadFailsQuietly(c) ==
  /\ Loading(c)
  /\ Done(c)
  /\ UNCHANGED <<table, shown, status>>

LoadFails(c) ==
  /\ Loading(c)
  /\ status' = "error"
  /\ Done(c)
  /\ UNCHANGED <<table, shown>>

-----------------------------------------------------------------------------
(* accept and decline: the buttons are there unless the spinner is.         *)

Answer(c) ==
  /\ At(c, "idle")
  /\ status \in {"loaded", "error"}
  /\ \E pc \in {"accept", "decline"}, i \in shown["incoming"] :
       call' = [call EXCEPT ![c].pc = pc, ![c].id = i]
  /\ UNCHANGED <<table, shown, status>>

AcceptServed(c) ==
  /\ At(c, "accept")
  /\ Respond(call[c].id, "accepted")
  /\ Goto(c, "accept_answer")
  /\ UNCHANGED <<shown, status>>

DeclineServed(c) ==
  /\ At(c, "decline")
  /\ Respond(call[c].id, "declined")
  /\ Goto(c, "decline_answer")
  /\ UNCHANGED <<shown, status>>

(* Should the lists be asked for without waiting for the answer:           *)
ReloadAtOnce(c) ==
  /\ call[c].pc \in {"accept", "decline", "accept_answer", "decline_answer"}
  /\ Goto(c, "load")
  /\ status' = "loading"
  /\ UNCHANGED <<table, shown>>

Reload(c) ==
  /\ call[c].pc \in {"accept_answer", "decline_answer"}
  /\ Goto(c, "load")
  /\ status' = "loading"
  /\ UNCHANGED <<table, shown>>

(* The request is not there any more, no connection, or the answer is lost. *)
AnswerFails(c) ==
  /\ call[c].pc \in AnswerPCs
  /\ Done(c)
  /\ UNCHANGED <<table, shown, status>>

-----------------------------------------------------------------------------
(* sendRequest: nothing is loaded afterwards, and an error changes nothing  *)
(* but the message.  The API looks for a row of the two users, of either    *)
(* direction, and commits later.                                            *)

Send(c) ==
  /\ At(c, "idle")
  /\ status # "initial"
  /\ Goto(c, "send")
  /\ UNCHANGED <<table, shown, status>>

SendChecked(c) ==
  /\ At(c, "send")
  /\ \E u \in Users :
       /\ RowsOf(u) = {}
       /\ call' = [call EXCEPT ![c].pc = "send_commit", ![c].to = u]
  /\ UNCHANGED <<table, shown, status>>

SendServed(c) ==
  /\ At(c, "send_commit")
  /\ \E i \in Rows : Insert(i, call[c].to, TRUE)
  /\ Done(c)
  /\ UNCHANGED <<shown, status>>

SendFails(c) ==
  /\ call[c].pc \in SendPCs
  /\ Done(c)
  /\ UNCHANGED <<table, shown, status>>

-----------------------------------------------------------------------------

(* What a method still has to do.                                          *)
Progress(c) == \/ LoadFirstServed(c) \/ LoadSecondServed(c) \/ LoadAnswered(c) \/ LoadFails(c)
               \/ AcceptServed(c) \/ DeclineServed(c) \/ Reload(c) \/ AnswerFails(c)
               \/ SendChecked(c) \/ SendServed(c) \/ SendFails(c)

Next == \/ \E c \in Calls : Load(c) \/ Answer(c) \/ Send(c) \/ Progress(c)
        \/ \E i \in Rows : OtherUser(i)

Spec == Init /\ [][Next]_vars

(* A method that has begun goes on: a request is answered or fails, and the *)
(* event loop runs what is ready.                                           *)
FairSpec == Spec /\ \A c \in Calls : WF_vars(Progress(c))

-----------------------------------------------------------------------------

(* A person is shown once, as a friend or as asking to be one.  The friends *)
(* are asked for first, so one who is accepted between the two reads is     *)
(* missed, and not in both lists.  Somebody is in both by two friendships   *)
(* only: if the one shown is over, and the next was asked for before the    *)
(* second list was read, or if two requests had crossed; and is in one list *)
(* twice only if they had (friends_cubit.dart:14-23, friends.py:33-48,      *)
(* 59-70, 119-138).                                                         *)
Once(lists) ==
  /\ \A i \in lists["accepted"], j \in lists["incoming"] :
       peer[i] = peer[j] => i # j /\ (row[i] = "removed" \/ peer[i] \in crossed)
  /\ \A l \in Lists : \A i, j \in lists[l] :
       peer[i] = peer[j] /\ i # j => peer[i] \in crossed

PersonShownOnce == Once(shown)

(* When accept or decline of a request is over and its load has been        *)
(* answered, the list it leaves does not have that request any more, and    *)
(* has the friend unless the row has changed again                          *)
(* (friends_cubit.dart:33-49).                                              *)
AnsweredRequestGoes ==
  [][\A c \in Calls :
       LoadAnswered(c) /\ call[c].id # None =>
         /\ call[c].id \notin shown'["incoming"]
         /\ row[call[c].id] = "accepted" => call[c].id \in shown'["accepted"]]_vars

(* The spinner comes down, however loads overlap and whichever of them      *)
(* fail: the buttons it hides are there again (friends_cubit.dart:14-23).   *)
SpinnerEnds == []<>(status # "loading")
=============================================================================
