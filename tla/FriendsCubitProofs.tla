-------------------------- MODULE FriendsCubitProofs --------------------------
(***************************************************************************)
(* Theorems about FriendsCubit, for any rows and any number of methods that *)
(* run at a time.                                                           *)
(***************************************************************************)
EXTENDS FriendsCubit, TLAPS

USE DEF LoadPCs, AnswerPCs, SendPCs

(* The statuses that a row which was answered can have from then on.        *)
Past == {"accepted", "declined", "removed"}

Answered == {"accept_answer", "decline_answer"}

USE DEF Past, Answered

(* What a method relies on while the rows change under it: a row that was   *)
(* listed among the friends is never pending again, so the second list has  *)
(* none of them, and nobody twice by two of them unless one is over or they *)
(* crossed; the request it answered stays answered, and is among the        *)
(* friends it was given if it still is one.                                 *)
Holds(q) ==
  /\ Once(q.read)
  /\ \A l \in Lists : \A i \in q.read[l] : row[i] # "absent"
  /\ \A i \in q.read["accepted"] : row[i] \in {"accepted", "removed"}
  /\ q.pc # "load_answer" => q.read["incoming"] = {}
  /\ q.pc \in {"idle"} \cup SendPCs => q.id = None
  /\ q.pc = "send_commit" => q.to \in Users
  /\ q.pc \in AnswerPCs => q.id \in Rows
  /\ q.pc \in LoadPCs \cup Answered /\ q.id # None =>
       /\ row[q.id] \in Past
       /\ q.id \notin q.read["incoming"]
  /\ q.pc \in {"load_second", "load_answer"} /\ q.id # None =>
       (row[q.id] = "accepted" => q.id \in q.read["accepted"])

(* Two rows of one user at a time are those of crossed requests.            *)
TwoRowsCrossed ==
  \A i, j \in Rows :
    Present(i) /\ Present(j) /\ peer[i] = peer[j] /\ i # j => peer[i] \in crossed

WellFormed == /\ TypeOK /\ TwoRowsCrossed
              /\ \A c \in Calls : Holds(call[c])
              /\ Once(shown)
              /\ \A l \in Lists : \A i \in shown[l] : row[i] # "absent"

(* The types of the rows are kept.                                          *)
TableTyped == /\ row' \in [Rows -> RowStates]
              /\ peer' \in [Rows -> Users \cup {None}]
              /\ mine' \subseteq Rows /\ crossed' \subseteq Users

(* A row that was answered is not asked for again, and is of one user for   *)
(* good.                                                                    *)
RowsAdvance == /\ TableTyped /\ TwoRowsCrossed'
               /\ \A i \in Rows : row[i] \in Past => row'[i] \in {row[i], "removed"}
               /\ \A i \in Rows : row[i] # "absent" => row'[i] # "absent"
               /\ \A i \in Rows : row[i] # "absent" => peer'[i] = peer[i]
               /\ crossed \subseteq crossed'

LEMMA InitWellFormed == Init => WellFormed
  <1>1. NoCall \in Call /\ NoCall.pc = "idle" /\ NoCall.id = None /\ NoCall.read = Nothing
    BY DEF NoCall, Call, Nothing
  <1>2. \A l \in Lists : Nothing[l] = {}
    BY DEF Nothing
  <1>3. Init => Once(Nothing) /\ TwoRowsCrossed
    BY <1>2 DEF Init, Once, Lists, TwoRowsCrossed, Present
  <1>4. Init => \A c \in Calls : Holds(call[c])
    BY <1>1, <1>2, <1>3 DEF Init, Holds, Lists
  <1>5. Init => TypeOK
    BY <1>1 DEF Init, TypeOK, Nothing, RowStates, Statuses
  <1>. QED  BY <1>2, <1>3, <1>4, <1>5 DEF Init, WellFormed

(* Nobody comes to be shown twice by lists that have been read.             *)
LEMMA OnceStays ==
  ASSUME NEW s \in [Lists -> SUBSET Rows], Once(s), RowsAdvance,
         \A l \in Lists : \A i \in s[l] : row[i] # "absent"
  PROVE  Once(s)' /\ \A l \in Lists : \A i \in s[l] : row'[i] # "absent"
  <1>1. \A l \in Lists : \A i \in s[l] : i \in Rows /\ row'[i] # "absent" /\ peer'[i] = peer[i]
    BY DEF RowsAdvance
  <1>2. \A i \in Rows : row[i] = "removed" => row'[i] = "removed"
    BY DEF RowsAdvance
  <1>3. ASSUME NEW i \in s["accepted"], NEW j \in s["incoming"], peer'[i] = peer'[j]
        PROVE  i # j /\ (row'[i] = "removed" \/ peer'[i] \in crossed')
    <2>1. peer'[i] = peer[i] /\ peer[i] = peer[j] /\ i \in Rows
      BY <1>1, <1>3 DEF Lists
    <2>. QED  BY <1>2, <2>1 DEF Once, RowsAdvance
  <1>4. ASSUME NEW l \in Lists, NEW i \in s[l], NEW j \in s[l], peer'[i] = peer'[j], i # j
        PROVE  peer'[i] \in crossed'
    <2>1. peer'[i] = peer[i] /\ peer[i] = peer[j]
      BY <1>1, <1>4
    <2>. QED  BY <1>4, <2>1 DEF Once, RowsAdvance
  <1>. QED  BY <1>1, <1>3, <1>4 DEF Once

LEMMA HoldsStays ==
  ASSUME NEW q \in Call, Holds(q), RowsAdvance, TypeOK
  PROVE  Holds(q)'
  <1>1. q.id \in Rows \cup {None} /\ q.read \in [Lists -> SUBSET Rows]
    BY DEF Call
  <1>2. \A i \in q.read["accepted"] : row'[i] \in {"accepted", "removed"}
    BY <1>1 DEF Holds, RowsAdvance, Lists
  <1>3. \A i \in Rows : row[i] \in Past =>
          row'[i] \in Past /\ (row'[i] = "accepted" => row[i] = "accepted")
    BY DEF RowsAdvance
  <1>4. PICK s \in [Lists -> SUBSET Rows] :
          /\ s = q.read /\ Once(s)
          /\ \A l \in Lists : \A i \in s[l] : row[i] # "absent"
    BY <1>1 DEF Holds
  <1>5. Once(s)' /\ \A l \in Lists : \A i \in s[l] : row'[i] # "absent"
    BY <1>4, OnceStays
  <1>6. Once(q.read)' /\ \A l \in Lists : \A i \in q.read[l] : row'[i] # "absent"
    BY <1>4, <1>5 DEF Once
  <1>. QED  BY <1>1, <1>2, <1>3, <1>6 DEF Holds

LEMMA ShownStays ==
  ASSUME WellFormed, RowsAdvance, UNCHANGED shown
  PROVE  Once(shown)' /\ \A l \in Lists : \A i \in shown'[l] : row'[i] # "absent"
  <1>1. PICK s \in [Lists -> SUBSET Rows] :
          /\ s = shown /\ Once(s)
          /\ \A l \in Lists : \A i \in s[l] : row[i] # "absent"
    BY DEF WellFormed, TypeOK
  <1>2. Once(s)' /\ \A l \in Lists : \A i \in s[l] : row'[i] # "absent"
    BY <1>1, OnceStays
  <1>. QED  BY <1>1, <1>2 DEF Once

(* What is shown is kept, or is what a method has read.                     *)
ShownFrom(c) ==
  \/ UNCHANGED shown
  \/ shown' = call[c].read

LEMMA MoveWellFormed ==
  ASSUME WellFormed, RowsAdvance, NEW c \in Calls, NEW q \in Call, Holds(q)',
         call' = [call EXCEPT ![c] = q], ShownFrom(c), status' \in Statuses
  PROVE  WellFormed'
  <1>1. /\ call' \in [Calls -> Call]
        /\ \A d \in Calls : call'[d] = IF d = c THEN q ELSE call[d]
    BY DEF WellFormed, TypeOK
  <1>2. ASSUME NEW d \in Calls
        PROVE  \E p \in Call : p = call[d] /\ Holds(p) /\ Holds(p)'
    <2>1. PICK p \in Call : p = call[d] /\ Holds(p)
      BY DEF WellFormed, TypeOK
    <2>. QED  BY <2>1, HoldsStays DEF WellFormed
  <1>3. ASSUME NEW d \in Calls  PROVE Holds(call[d])'
    <2>1. CASE d = c
      BY <1>1, <2>1 DEF Holds, Once
    <2>2. CASE d # c
      <3>1. PICK p \in Call : p = call'[d] /\ Holds(p)'
        BY <1>1, <1>2, <2>2
      <3>. QED  BY <3>1 DEF Holds, Once
    <2>. QED  BY <2>1, <2>2
  <1>4. /\ shown' \in [Lists -> SUBSET Rows] /\ Once(shown)'
        /\ \A l \in Lists : \A i \in shown'[l] : row'[i] # "absent"
    <2>1. CASE UNCHANGED shown
      BY <2>1, ShownStays DEF WellFormed, TypeOK
    <2>2. CASE shown' = call[c].read
      <3>1. PICK p \in Call : p = call[c] /\ Holds(p)'
        BY <1>2
      <3>2. p.read \in [Lists -> SUBSET Rows] /\ shown' = p.read
        BY <2>2, <3>1 DEF Call
      <3>. QED  BY <3>1, <3>2 DEF Holds, Once
    <2>. QED  BY <2>1, <2>2 DEF ShownFrom
  <1>. QED  BY <1>1, <1>3, <1>4 DEF WellFormed, TypeOK, RowsAdvance, TableTyped

LEMMA DoneWellFormed ==
  ASSUME WellFormed, RowsAdvance, NEW c \in Calls, Done(c), ShownFrom(c),
         status' \in Statuses
  PROVE  WellFormed'
  <1>1. NoCall \in Call /\ NoCall.pc = "idle" /\ NoCall.id = None /\ NoCall.read = Nothing
    BY DEF NoCall, Call, Nothing
  <1>2. PICK q \in Call : q = NoCall
    BY <1>1
  <1>3. q.pc = "idle" /\ q.id = None /\ q.read["accepted"] = {} /\ q.read["incoming"] = {}
    BY <1>1, <1>2 DEF Nothing, Lists
  <1>4. Holds(q)'
    BY <1>3 DEF Holds, Once, Lists
  <1>. QED  BY <1>2, <1>4, MoveWellFormed DEF Done

(* Going on to a point for which nothing more is needed than is there.      *)
LEMMA GotoWellFormed ==
  ASSUME WellFormed, RowsAdvance, NEW c \in Calls,
         NEW pc \in {"load", "send"} \cup Answered, Goto(c, pc),
         ~At(c, "load_answer"),
         pc \in Answered => call[c].id \in Rows,
         pc = "send" => call[c].id = None,
         pc \in {"load"} \cup Answered /\ call[c].id # None => row'[call[c].id] \in Past,
         ShownFrom(c), status' \in Statuses
  PROVE  WellFormed'
  <1>1. [call[c] EXCEPT !.pc = pc] \in Call
    BY DEF WellFormed, TypeOK, Call
  <1>2. PICK q \in Call : q = [call[c] EXCEPT !.pc = pc]
    BY <1>1
  <1>3. q.pc = pc /\ q.id = call[c].id /\ q.read = call[c].read
    BY <1>2 DEF WellFormed, TypeOK, Call
  <1>4. call' = [call EXCEPT ![c] = q]
    BY <1>2 DEF Goto, WellFormed, TypeOK
  <1>5. Holds(q)'
    <2>1. PICK p \in Call : p = call[c] /\ Holds(p)
      BY DEF WellFormed, TypeOK
    <2>2. Holds(p)' /\ p.read["incoming"] = {}
      BY <2>1, HoldsStays DEF WellFormed, Holds, At
    <2>. QED  BY <1>3, <2>1, <2>2 DEF Holds, Once
  <1>. QED  BY <1>4, <1>5, MoveWellFormed

-----------------------------------------------------------------------------
(* What happens to the rows.                                                *)

LEMMA TableStays == WellFormed /\ UNCHANGED table => RowsAdvance
  <1> SUFFICES ASSUME WellFormed, UNCHANGED table  PROVE RowsAdvance
    OBVIOUS
  <1>1. UNCHANGED <<row, peer, mine, crossed>>
    BY DEF table
  <1>2. TwoRowsCrossed'
    BY <1>1 DEF TwoRowsCrossed, Present, WellFormed
  <1>. QED  BY <1>1, <1>2 DEF RowsAdvance, TableTyped, WellFormed, TypeOK

LEMMA BecomesAdvances ==
  ASSUME WellFormed, NEW i \in Rows, NEW from, NEW to \in Past, Becomes(i, from, to),
         Present(i), from = "pending" \/ to = "removed"
  PROVE  RowsAdvance /\ row'[i] = to
  <1>1. /\ row[i] = from /\ row' = [row EXCEPT ![i] = to]
        /\ UNCHANGED <<peer, mine, crossed>>
    BY DEF Becomes
  <1>2. TableTyped
    BY <1>1 DEF TableTyped, RowStates, WellFormed, TypeOK
  <1>3. \A k \in Rows : Present(k)' => Present(k)
    BY <1>1 DEF Present, WellFormed, TypeOK
  <1>4. TwoRowsCrossed'
    BY <1>1, <1>3 DEF TwoRowsCrossed, WellFormed
  <1>5. \A k \in Rows : row'[k] = IF k = i THEN to ELSE row[k]
    BY <1>1 DEF WellFormed, TypeOK
  <1>. QED  BY <1>1, <1>2, <1>4, <1>5 DEF RowsAdvance, Present

LEMMA InsertAdvances ==
  ASSUME WellFormed, NEW i \in Rows, NEW u \in Users, NEW byMe \in BOOLEAN,
         Insert(i, u, byMe)
  PROVE  RowsAdvance
  <1>1. /\ row[i] = "absent" /\ row' = [row EXCEPT ![i] = "pending"]
        /\ peer' = [peer EXCEPT ![i] = u]
        /\ crossed \subseteq crossed' /\ crossed' \subseteq crossed \cup {u}
        /\ RowsOf(u) # {} => u \in crossed'
    BY DEF Insert
  <1>2. TableTyped
    BY <1>1 DEF Insert, TableTyped, RowStates, WellFormed, TypeOK
  <1>3. \A k \in Rows : /\ row'[k] = IF k = i THEN "pending" ELSE row[k]
                        /\ peer'[k] = IF k = i THEN u ELSE peer[k]
    BY <1>1 DEF WellFormed, TypeOK
  <1>4. TwoRowsCrossed'
    <2> SUFFICES ASSUME NEW j \in Rows, NEW k \in Rows, Present(j)', Present(k)',
                        peer'[j] = peer'[k], j # k
                 PROVE  peer'[j] \in crossed'
      BY DEF TwoRowsCrossed
    <2>1. CASE j # i /\ k # i
      BY <1>1, <1>3, <2>1 DEF TwoRowsCrossed, Present, WellFormed
    <2>2. CASE j = i
      BY <1>1, <1>3, <2>2 DEF RowsOf, Present
    <2>3. CASE k = i
      BY <1>1, <1>3, <2>3 DEF RowsOf, Present
    <2>. QED  BY <2>1, <2>2, <2>3
  <1>. QED  BY <1>1, <1>2, <1>3, <1>4 DEF RowsAdvance

-----------------------------------------------------------------------------
(* One lemma per method.                                                    *)

(* What is listed is what a list reads.                                     *)
LEMMA ReadTyped ==
  ASSUME WellFormed, NEW c \in Calls, NEW l \in Lists, NEW pc \in LoadPCs
  PROVE  \E q \in Call :
           /\ q = [Read(c, l) EXCEPT !.pc = pc]
           /\ q.pc = pc /\ q.id = call[c].id
           /\ q.read = [call[c].read EXCEPT ![l] = Listed(l)]
  <1>1. PICK p \in Call : p = call[c]
    BY DEF WellFormed, TypeOK
  <1>2. [p.read EXCEPT ![l] = Listed(l)] \in [Lists -> SUBSET Rows]
    BY DEF Call, Listed
  <1>3. PICK r \in [Lists -> SUBSET Rows] : r = [p.read EXCEPT ![l] = Listed(l)]
    BY <1>2
  <1>4. Read(c, l) = [p EXCEPT !.read = r]
    BY <1>1, <1>3 DEF Read, Call
  <1>5. [[p EXCEPT !.read = r] EXCEPT !.pc = pc] \in Call
    BY DEF Call
  <1>6. /\ [[p EXCEPT !.read = r] EXCEPT !.pc = pc].pc = pc
        /\ [[p EXCEPT !.read = r] EXCEPT !.pc = pc].id = p.id
        /\ [[p EXCEPT !.read = r] EXCEPT !.pc = pc].read = r
    BY DEF Call
  <1>. QED  BY <1>1, <1>3, <1>4, <1>5, <1>6

(* The friends first: nobody of them is asking when the requests are read.  *)
LEMMA LoadWellFormed ==
  ASSUME WellFormed, NEW c \in Calls,
         \/ Load(c) \/ LoadFirstServed(c) \/ LoadSecondServed(c) \/ LoadAnswered(c)
         \/ LoadFails(c)
  PROVE  WellFormed'
  <1>1. PICK p \in Call : p = call[c] /\ Holds(p)
    BY DEF WellFormed, TypeOK
  <1>2. RowsAdvance /\ UNCHANGED table
    BY TableStays
    DEF Load, LoadFirstServed, LoadSecondServed, LoadAnswered, LoadFails
  <1>3. p.id \in Rows \cup {None} /\ p.read \in [Lists -> SUBSET Rows]
    BY DEF Call
  <1>4. CASE Load(c)
    <2>1. status' \in Statuses /\ ShownFrom(c)
      BY <1>4 DEF Load, Statuses, ShownFrom
    <2>2. call[c].id # None => row'[call[c].id] \in Past
      BY <1>1, <1>4 DEF Load, At, Holds
    <2>. QED  BY <1>2, <1>4, <2>1, <2>2, GotoWellFormed DEF Load, At
  <1>5. CASE LoadFirstServed(c)
    <2>1. PICK q \in Call :
            /\ q = [Read(c, "accepted") EXCEPT !.pc = "load_second"]
            /\ q.pc = "load_second" /\ q.id = p.id
            /\ q.read = [p.read EXCEPT !["accepted"] = Listed("accepted")]
      BY <1>1, ReadTyped DEF Lists
    <2>2. call' = [call EXCEPT ![c] = q]
      BY <1>5, <2>1 DEF LoadFirstServed, Order
    <2>3. q.read["accepted"] = Listed("accepted") /\ q.read["incoming"] = {}
      BY <1>1, <1>3, <1>5, <2>1 DEF LoadFirstServed, At, Holds, Lists
    <2>4. p.id # None => row[p.id] \in Past /\ p.id \in Rows
      BY <1>1, <1>3, <1>5 DEF LoadFirstServed, At, Holds
    <2>5. \A i \in q.read["accepted"] : i \in Rows /\ row[i] = "accepted"
      BY <2>3 DEF Listed
    <2>6. Once(q.read)
      BY <2>3, <2>5 DEF Once, Lists, TwoRowsCrossed, Present, WellFormed
    <2>7. \A l \in Lists : \A i \in q.read[l] : row[i] # "absent"
      BY <2>3, <2>5 DEF Lists
    <2>8. p.id # None /\ row[p.id] = "accepted" => p.id \in q.read["accepted"]
      BY <2>3, <2>4 DEF Listed
    <2>9. Holds(q)
      BY <2>1, <2>3, <2>4, <2>5, <2>6, <2>7, <2>8 DEF Holds
    <2>. QED
      BY <1>2, <1>5, <2>2, <2>9, HoldsStays, MoveWellFormed
      DEF LoadFirstServed, ShownFrom, WellFormed, TypeOK
  <1>6. CASE LoadSecondServed(c)
    <2>1. PICK q \in Call :
            /\ q = [Read(c, "incoming") EXCEPT !.pc = "load_answer"]
            /\ q.pc = "load_answer" /\ q.id = p.id
            /\ q.read = [p.read EXCEPT !["incoming"] = Listed("incoming")]
      BY <1>1, ReadTyped DEF Lists
    <2>2. call' = [call EXCEPT ![c] = q]
      BY <1>6, <2>1 DEF LoadSecondServed, Order
    <2>3. q.read["accepted"] = p.read["accepted"] /\ q.read["incoming"] = Listed("incoming")
      BY <1>3, <2>1 DEF Lists
    <2>4. /\ \A i \in p.read["accepted"] : i \in Rows /\ row[i] \in {"accepted", "removed"}
          /\ \A i \in Listed("incoming") : i \in Rows /\ row[i] = "pending"
      BY <1>1, <1>3 DEF Holds, Listed, Lists
    <2>5. Once(q.read)
      <3>1. ASSUME NEW i \in p.read["accepted"], NEW j \in Listed("incoming"),
                   peer[i] = peer[j]
            PROVE  i # j /\ (row[i] = "removed" \/ peer[i] \in crossed)
        BY <2>4, <3>1 DEF TwoRowsCrossed, Present, WellFormed
      <3>2. ASSUME NEW i \in Listed("incoming"), NEW j \in Listed("incoming"),
                   peer[i] = peer[j], i # j
            PROVE  peer[i] \in crossed
        BY <2>4, <3>2 DEF TwoRowsCrossed, Present, WellFormed
      <3>3. \A i, j \in p.read["accepted"] :
              peer[i] = peer[j] /\ i # j => peer[i] \in crossed
        BY <1>1 DEF Holds, Once, Lists
      <3>. QED  BY <2>3, <3>1, <3>2, <3>3 DEF Once, Lists
    <2>6. \A l \in Lists : \A i \in q.read[l] : row[i] # "absent"
      BY <2>3, <2>4 DEF Lists
    <2>7. p.id # None => /\ row[p.id] \in Past
                         /\ row[p.id] = "accepted" => p.id \in p.read["accepted"]
      BY <1>1, <1>6 DEF LoadSecondServed, At, Holds
    <2>8. p.id # None => p.id \notin Listed("incoming")
      BY <2>7 DEF Listed
    <2>9. Holds(q)
      BY <2>1, <2>3, <2>4, <2>5, <2>6, <2>7, <2>8 DEF Holds
    <2>. QED
      BY <1>2, <1>6, <2>2, <2>9, HoldsStays, MoveWellFormed
      DEF LoadSecondServed, ShownFrom, WellFormed, TypeOK
  <1>7. CASE LoadAnswered(c) \/ LoadFails(c)
    <2>1. status' \in Statuses /\ ShownFrom(c)
      BY <1>7 DEF LoadAnswered, LoadFails, Statuses, ShownFrom
    <2>. QED  BY <1>2, <1>7, <2>1, DoneWellFormed DEF LoadAnswered, LoadFails
  <1>. QED  BY <1>4, <1>5, <1>6, <1>7

LEMMA AnswerWellFormed ==
  ASSUME WellFormed, NEW c \in Calls,
         Answer(c) \/ AcceptServed(c) \/ DeclineServed(c) \/ Reload(c) \/ AnswerFails(c)
  PROVE  WellFormed'
  <1>1. PICK p \in Call : p = call[c] /\ Holds(p)
    BY DEF WellFormed, TypeOK
  <1>2. status' \in Statuses /\ ShownFrom(c)
    BY DEF Answer, AcceptServed, DeclineServed, Reload, AnswerFails, Statuses, WellFormed,
       TypeOK, ShownFrom
  <1>3. CASE Answer(c)
    <2>1. PICK pc \in {"accept", "decline"}, i \in shown["incoming"] :
            call' = [call EXCEPT ![c].pc = pc, ![c].id = i]
      BY <1>3 DEF Answer
    <2>2. i \in Rows
      BY DEF WellFormed, TypeOK, Lists
    <2>3. [p EXCEPT !.pc = pc, !.id = i] \in Call
      BY <2>2 DEF Call
    <2>4. PICK q \in Call : q = [p EXCEPT !.pc = pc, !.id = i]
      BY <2>3
    <2>5. q.pc = pc /\ q.id = i /\ q.read = p.read
      BY <2>4 DEF Call
    <2>6. call' = [call EXCEPT ![c] = q]
      BY <1>1, <2>1, <2>4 DEF WellFormed, TypeOK
    <2>7. Holds(q)
      BY <1>1, <1>3, <2>2, <2>5 DEF Answer, At, Holds
    <2>8. RowsAdvance
      BY <1>3, TableStays DEF Answer
    <2>. QED  BY <1>2, <2>6, <2>7, <2>8, HoldsStays, MoveWellFormed DEF WellFormed
  <1>4. CASE AcceptServed(c) \/ DeclineServed(c)
    <2>1. p.id \in Rows /\ ~At(c, "load_answer")
      BY <1>1, <1>4 DEF AcceptServed, DeclineServed, At, Holds
    <2>2. PICK to \in Past : Becomes(p.id, "pending", to)
      BY <1>1, <1>4 DEF AcceptServed, DeclineServed, Respond
    <2>3. Present(p.id)
      BY <2>2 DEF Becomes, Present
    <2>4. RowsAdvance /\ row'[p.id] \in Past
      BY <2>1, <2>2, <2>3, BecomesAdvances
    <2>. QED
      BY <1>1, <1>2, <1>4, <2>1, <2>4, GotoWellFormed DEF AcceptServed, DeclineServed
  <1>5. CASE Reload(c)
    <2>1. (p.id \in Rows /\ row[p.id] \in Past) \/ p.id = None
      BY <1>1, <1>5, FriendsAssumption DEF Reload, Holds
    <2>2. RowsAdvance /\ UNCHANGED row
      BY <1>5, TableStays DEF Reload, table
    <2>. QED  BY <1>1, <1>2, <1>5, <2>1, <2>2, GotoWellFormed DEF Reload, At
  <1>6. CASE AnswerFails(c)
    <2>1. RowsAdvance
      BY <1>6, TableStays DEF AnswerFails
    <2>. QED  BY <1>2, <1>6, <2>1, DoneWellFormed DEF AnswerFails
  <1>. QED  BY <1>3, <1>4, <1>5, <1>6

LEMMA SendWellFormed ==
  ASSUME WellFormed, NEW c \in Calls,
         Send(c) \/ SendChecked(c) \/ SendServed(c) \/ SendFails(c)
  PROVE  WellFormed'
  <1>1. PICK p \in Call : p = call[c] /\ Holds(p)
    BY DEF WellFormed, TypeOK
  <1>2. status' \in Statuses /\ ShownFrom(c)
    BY DEF Send, SendChecked, SendServed, SendFails, WellFormed, TypeOK, ShownFrom
  <1>3. Send(c) \/ SendChecked(c) \/ SendFails(c) => RowsAdvance
    BY TableStays DEF Send, SendChecked, SendFails
  <1>4. CASE Send(c)
    <2>1. call[c].id = None
      BY <1>1, <1>4 DEF Send, At, Holds
    <2>. QED  BY <1>2, <1>3, <1>4, <2>1, GotoWellFormed DEF Send, At
  <1>5. CASE SendChecked(c)
    <2>1. PICK u \in Users : call' = [call EXCEPT ![c].pc = "send_commit", ![c].to = u]
      BY <1>5 DEF SendChecked
    <2>2. [p EXCEPT !.pc = "send_commit", !.to = u] \in Call
      BY DEF Call
    <2>3. PICK q \in Call : q = [p EXCEPT !.pc = "send_commit", !.to = u]
      BY <2>2
    <2>4. q.pc = "send_commit" /\ q.to = u /\ q.id = p.id /\ q.read = p.read
      BY <2>3 DEF Call
    <2>5. call' = [call EXCEPT ![c] = q]
      BY <1>1, <2>1, <2>3 DEF WellFormed, TypeOK
    <2>6. Holds(q)
      BY <1>1, <1>5, <2>4 DEF SendChecked, At, Holds
    <2>. QED  BY <1>2, <1>3, <1>5, <2>5, <2>6, HoldsStays, MoveWellFormed DEF WellFormed
  <1>6. CASE SendServed(c)
    <2>1. p.to \in Users
      BY <1>1, <1>6 DEF SendServed, At, Holds
    <2>2. RowsAdvance
      BY <1>1, <1>6, <2>1, InsertAdvances DEF SendServed
    <2>. QED  BY <1>2, <1>6, <2>2, DoneWellFormed DEF SendServed
  <1>7. CASE SendFails(c)
    BY <1>2, <1>3, <1>7, DoneWellFormed DEF SendFails
  <1>. QED  BY <1>4, <1>5, <1>6, <1>7

LEMMA NextWellFormed == WellFormed /\ [Next]_vars => WellFormed'
  <1> SUFFICES ASSUME WellFormed, [Next]_vars  PROVE WellFormed'
    OBVIOUS
  <1>1. ASSUME RowsAdvance, UNCHANGED <<shown, status, call>>  PROVE WellFormed'
    <2>1. ASSUME NEW c \in Calls  PROVE Holds(call[c])'
      <3>1. PICK p \in Call : p = call[c] /\ Holds(p)
        BY DEF WellFormed, TypeOK
      <3>2. Holds(p)' /\ p = call'[c]
        BY <1>1, <3>1, HoldsStays DEF WellFormed
      <3>. QED  BY <3>2 DEF Holds, Once
    <2>2. Once(shown)' /\ \A l \in Lists : \A i \in shown'[l] : row'[i] # "absent"
      BY <1>1, ShownStays
    <2>. QED  BY <1>1, <2>1, <2>2 DEF WellFormed, TypeOK, RowsAdvance, TableTyped
  <1>2. ASSUME NEW i \in Rows, OtherUser(i)  PROVE RowsAdvance
    <2>1. ASSUME NEW u \in Users, Insert(i, u, FALSE)  PROVE RowsAdvance
      BY <2>1, InsertAdvances
    <2>2. ASSUME NEW s \in {"accepted", "declined"}, Becomes(i, "pending", s)
          PROVE  RowsAdvance
      <3>1. Present(i)
        BY <2>2 DEF Becomes, Present
      <3>. QED  BY <2>2, <3>1, BecomesAdvances
    <2>3. CASE Present(i) /\ Becomes(i, row[i], "removed")
      BY <2>3, BecomesAdvances
    <2>. QED  BY <1>2, <2>1, <2>2, <2>3 DEF OtherUser
  <1>3. UNCHANGED table => RowsAdvance
    BY TableStays
  <1>. QED
    BY <1>1, <1>2, <1>3, LoadWellFormed, AnswerWellFormed, SendWellFormed
    DEF Next, Progress, OtherUser, table, vars

(* What every method relies on between two answers holds in every state.   *)
THEOREM AlwaysWellFormed == Spec => []WellFormed
  <1>. QED  BY InitWellFormed, NextWellFormed, PTL DEF Spec

-----------------------------------------------------------------------------

(* A person is shown once, however many loads, answers and other users run: *)
(* the second list is read after the first, and no row that was a friend's  *)
(* is pending again.  The exceptions are a person whose first friendship    *)
(* was over before the second list was read, and one whose request crossed  *)
(* one of the user's.                                                       *)
THEOREM PersonShownOnceTheorem == Spec => []PersonShownOnce
  <1>1. WellFormed => PersonShownOnce
    BY DEF WellFormed, PersonShownOnce
  <1>. QED  BY <1>1, AlwaysWellFormed, PTL

(* A load that accept or decline has asked for shows what they did: both    *)
(* lists were read after the request had been answered.                     *)
THEOREM AnsweredRequestTheorem == Spec => AnsweredRequestGoes
  <1> DEFINE Goes ==
        \A c \in Calls :
          LoadAnswered(c) /\ call[c].id # None =>
            /\ call[c].id \notin shown'["incoming"]
            /\ row[call[c].id] = "accepted" => call[c].id \in shown'["accepted"]
  <1>1. WellFormed => [Goes]_vars
    BY DEF LoadAnswered, At, WellFormed, Holds
  <1>. QED  BY <1>1, AlwaysWellFormed, PTL DEF Spec, AnsweredRequestGoes

=============================================================================
