--------------------------- MODULE WardrobeProofs ---------------------------
(***************************************************************************)
(* Theorems about Wardrobe, for any sets of users, items, keys and requests *)
(* in flight, and whichever items get their images from the app.            *)
(***************************************************************************)
EXTENDS Wardrobe, TLAPS

Confirms == {"confirm", "confirm_reject", "confirm_commit"}
PastKey == {"confirm_reject", "confirm_commit"}

USE DEF Confirms, PastKey

(* A key is bound to an item when it is drawn.                              *)
KeysWellFormed == \A k \in Keys : prefix[k] = None <=> phase[k] = "undrawn"

(* An item shows an image that was uploaded for it.                         *)
ImagesWellFormed == \A i \in Items : image[i] # None => prefix[image[i]] = i

(* What a handler that stands at pc may rely on.  The object is not part of *)
(* it: a client may have overwritten it since it was looked at.             *)
Holds(pc, q) ==
  /\ pc # "idle" => q.item \in Items
  /\ pc \in Confirms => /\ q.key \in Keys /\ Drawn(q.key)
                        /\ ByApp(q.key) => phase[q.key] = "confirmed"
  /\ pc \in PastKey => prefix[q.key] = q.item

RequestsWellFormed == \A h \in Handlers : Holds(req[h].pc, req[h])

WellFormed == TypeOK /\ KeysWellFormed /\ ImagesWellFormed /\ RequestsWellFormed

TablesTyped == /\ item \in [Items -> RowStates]
               /\ image \in [Items -> Keys \cup {None}]
               /\ prefix \in [Keys -> Items \cup {None}]
               /\ phase \in [Keys -> Phases]
               /\ object \in [Keys -> Objects]

(* A key is drawn once, and what was confirmed stays so.                    *)
KeysGrow ==
  \A k \in Keys : Drawn(k) => /\ prefix'[k] = prefix[k]
                              /\ phase'[k] # "undrawn"
                              /\ phase[k] = "confirmed" => phase'[k] = "confirmed"

(* What every step does to what is shared.                                  *)
SharedGrows == TablesTyped' /\ KeysGrow /\ KeysWellFormed' /\ ImagesWellFormed'

LEMMA InitWellFormed == Init => WellFormed
  BY WardrobeAssumption
  DEF Init, WellFormed, TypeOK, KeysWellFormed, ImagesWellFormed, RequestsWellFormed, Holds,
      RowStates, Phases, Objects, Request, PCs, Idle, Asked

-----------------------------------------------------------------------------
(* What a handler does to the requests.                                     *)

(* One handler gets the request q, the others keep theirs.                  *)
LEMMA MoveWellFormed ==
  ASSUME WellFormed, SharedGrows, NEW h \in Handlers, NEW q \in Request, Holds(q.pc, q)',
         req' = [req EXCEPT ![h] = q]
  PROVE  WellFormed'
  <1>1. /\ req' \in [Handlers -> Request]
        /\ \A g \in Handlers : req'[g] = IF g = h THEN q ELSE req[g]
    BY DEF WellFormed, TypeOK
  <1>2. ASSUME NEW g \in Handlers  PROVE Holds(req[g].pc, req[g])'
    <2>1. CASE g = h
      BY <1>1, <2>1
    <2>2. CASE g # h
      <3>1. Holds(req[g].pc, req[g])
        BY DEF WellFormed, RequestsWellFormed
      <3>. QED
        BY <1>1, <2>2, <3>1, WardrobeAssumption
        DEF Holds, SharedGrows, KeysGrow, Drawn, ByApp, WellFormed, KeysWellFormed
    <2>. QED  BY <2>1, <2>2
  <1>. QED  BY <1>1, <1>2 DEF WellFormed, TypeOK, SharedGrows, TablesTyped, RequestsWellFormed

LEMMA AnswerWellFormed ==
  ASSUME WellFormed, SharedGrows, NEW h \in Handlers, Answer(h)
  PROVE  WellFormed'
  <1>1. Idle \in Request /\ Idle.pc = "idle"
    BY DEF Idle, Asked, Request, PCs
  <1>2. Holds(Idle.pc, Idle)'
    BY <1>1 DEF Holds
  <1>. QED  BY <1>1, <1>2, MoveWellFormed DEF Answer

(* Going on to a point that the handler has what it takes for.              *)
LEMMA GotoWellFormed ==
  ASSUME WellFormed, SharedGrows, UnchangedKeys, NEW h \in Handlers, NEW pc \in PCs,
         NEW seen \in Keys \cup {None}, Goto(h, pc, seen), Holds(pc, req[h])
  PROVE  WellFormed'
  <1>1. [req[h] EXCEPT !.pc = pc, !.seen = seen] \in Request
    BY DEF WellFormed, TypeOK, Request
  <1>2. PICK q \in Request : q = [req[h] EXCEPT !.pc = pc, !.seen = seen]
    BY <1>1
  <1>3. q.pc = pc /\ q.item = req[h].item /\ q.key = req[h].key
    BY <1>2 DEF WellFormed, TypeOK, Request
  <1>4. req' = [req EXCEPT ![h] = q]
    BY <1>2 DEF Goto, WellFormed, TypeOK
  <1>5. Holds(q.pc, q)'
    BY <1>3 DEF Holds, UnchangedKeys, Drawn, ByApp
  <1>. QED  BY <1>4, <1>5, MoveWellFormed

(* What is shared, when the database and the keys are left alone.           *)
LEMMA StoreOnlyGrows ==
  ASSUME WellFormed, UnchangedDb, UnchangedKeys, object' \in [Keys -> Objects]
  PROVE  SharedGrows
  BY DEF WellFormed, TypeOK, UnchangedDb, UnchangedKeys, SharedGrows, TablesTyped, KeysGrow,
     KeysWellFormed, ImagesWellFormed, Drawn

LEMMA RejectWellFormed ==
  ASSUME WellFormed, NEW h \in Handlers, Answer(h), UnchangedDb, UnchangedKeys,
         object' \in [Keys -> Objects]
  PROVE  WellFormed'
  BY AnswerWellFormed, StoreOnlyGrows

-----------------------------------------------------------------------------
(* One lemma per request, then the step of Next.                            *)

LEMMA AskWellFormed ==
  ASSUME WellFormed, NEW h \in Handlers, Ask(h) \/ AskConfirm(h)
  PROVE  WellFormed'
  <1>1. CASE Ask(h)
    <2>1. PICK op \in {"upload_url", "patch", "delete"}, u \in Users, i \in Items :
            req' = [req EXCEPT ![h] = Asked(op, u, i, None)]
      BY <1>1 DEF Ask
    <2> DEFINE q == Asked(op, u, i, None)
    <2>2. q \in Request /\ q.pc = op /\ q.item = i
      BY DEF Asked, Request, PCs
    <2>3. SharedGrows
      BY <1>1, StoreOnlyGrows DEF Ask, UnchangedDb, UnchangedKeys, WellFormed, TypeOK
    <2>4. req' = [req EXCEPT ![h] = q]
      BY <2>1
    <2> HIDE DEF q
    <2>5. Holds(q.pc, q)'
      BY <2>2 DEF Holds
    <2>. QED  BY <2>2, <2>3, <2>4, <2>5, MoveWellFormed
  <1>2. CASE AskConfirm(h)
    <2>1. PICK u \in Users, i \in Items, k \in Keys :
            /\ Drawn(k)
            /\ req' = [req EXCEPT ![h] = Asked("confirm", u, i, k)]
            /\ phase' = [phase EXCEPT ![k] = "confirmed"]
      BY <1>2 DEF AskConfirm
    <2> DEFINE q == Asked("confirm", u, i, k)
    <2>2. q \in Request /\ q.pc = "confirm" /\ q.item = i /\ q.key = k
      BY DEF Asked, Request, PCs
    <2>3. SharedGrows
      BY <1>2, <2>1 DEF AskConfirm, SharedGrows, TablesTyped, KeysGrow, KeysWellFormed,
         ImagesWellFormed, WellFormed, TypeOK, Phases, Drawn
    <2>4. req' = [req EXCEPT ![h] = q] /\ phase'[k] = "confirmed"
      BY <2>1 DEF WellFormed, TypeOK
    <2> HIDE DEF q
    <2>5. Holds(q.pc, q)'
      BY <2>2, <2>4 DEF Holds, Drawn
    <2>. QED  BY <2>2, <2>3, <2>4, <2>5, MoveWellFormed
  <1>. QED  BY <1>1, <1>2

LEMMA UploadUrlWellFormed ==
  ASSUME WellFormed, NEW h \in Handlers, UploadUrl(h) \/ UploadUrlRefused(h)
  PROVE  WellFormed'
  <1>1. CASE UploadUrl(h)
    <2>1. PICK k \in Keys : /\ ~Drawn(k)
                            /\ phase' = [phase EXCEPT ![k] = "issued"]
                            /\ prefix' = [prefix EXCEPT ![k] = req[h].item]
      BY <1>1 DEF UploadUrl
    <2>2. req[h].item \in Items
      BY <1>1 DEF UploadUrl, At, WellFormed, RequestsWellFormed, Holds
    <2>3. SharedGrows
      BY <1>1, <2>1, <2>2, WardrobeAssumption DEF UploadUrl, SharedGrows, TablesTyped,
         KeysGrow, KeysWellFormed, ImagesWellFormed, WellFormed, TypeOK, Phases, Drawn
    <2>. QED  BY <1>1, <2>3, AnswerWellFormed DEF UploadUrl
  <1>2. CASE UploadUrlRefused(h)
    BY <1>2, RejectWellFormed
    DEF UploadUrlRefused, UnchangedDb, UnchangedKeys, WellFormed, TypeOK
  <1>. QED  BY <1>1, <1>2

LEMMA PatchWellFormed ==
  ASSUME WellFormed, NEW h \in Handlers, PatchRead(h) \/ PatchCommit(h)
  PROVE  WellFormed'
  <1>1. CASE PatchRead(h)
    <2>1. /\ req[h].item \in Items /\ image[req[h].item] \in Keys \cup {None}
          /\ Holds("patch_commit", req[h])
      BY <1>1 DEF PatchRead, At, WellFormed, TypeOK, RequestsWellFormed, Holds
    <2>2. object' \in [Keys -> Objects] /\ SharedGrows
      BY <1>1, StoreOnlyGrows DEF PatchRead, WellFormed, TypeOK
    <2>. QED
      BY <1>1, <2>1, <2>2, RejectWellFormed, GotoWellFormed DEF PatchRead, PCs
  <1>2. CASE PatchCommit(h)
    BY <1>2, RejectWellFormed DEF PatchCommit, UnchangedDb, UnchangedKeys, WellFormed, TypeOK
  <1>. QED  BY <1>1, <1>2

LEMMA ConfirmWellFormed ==
  ASSUME WellFormed, NEW h \in Handlers,
         \/ ConfirmRefused(h) \/ ConfirmAccepted(h) \/ ConfirmRejected(h)
         \/ ConfirmReject(h) \/ ConfirmCommit(h) \/ ConfirmCommitFails(h)
  PROVE  WellFormed'
  <1>1. Holds(req[h].pc, req[h])
    BY DEF WellFormed, RequestsWellFormed
  <1>2. CASE ConfirmRefused(h) \/ ConfirmCommitFails(h)
    BY <1>2, RejectWellFormed
    DEF ConfirmRefused, ConfirmCommitFails, UnchangedDb, UnchangedKeys, WellFormed, TypeOK
  <1>3. CASE ConfirmAccepted(h) \/ ConfirmRejected(h)
    <2>1. /\ req[h].item \in Items /\ image[req[h].item] \in Keys \cup {None}
          /\ Holds("confirm_commit", req[h]) /\ Holds("confirm_reject", req[h])
      BY <1>1, <1>3 DEF ConfirmAccepted, ConfirmRejected, PrefixMatches, At, WellFormed,
         TypeOK, Holds
    <2>2. SharedGrows /\ UnchangedKeys
      BY <1>3, StoreOnlyGrows DEF ConfirmAccepted, ConfirmRejected, WellFormed, TypeOK
    <2>. QED
      BY <1>3, <2>1, <2>2, GotoWellFormed DEF ConfirmAccepted, ConfirmRejected, PCs
  <1>4. CASE ConfirmReject(h)
    <2>1. object' \in [Keys -> Objects]
      BY <1>4 DEF ConfirmReject, WellFormed, TypeOK, Objects
    <2>. QED  BY <1>4, <2>1, RejectWellFormed DEF ConfirmReject
  <1>5. CASE ConfirmCommit(h)
    <2>1. req[h].item \in Items /\ req[h].key \in Keys /\ prefix[req[h].key] = req[h].item
      BY <1>1, <1>5 DEF ConfirmCommit, At, Holds
    <2>2. SharedGrows
      BY <1>5, <2>1 DEF ConfirmCommit, UnchangedKeys, SharedGrows, TablesTyped, KeysGrow,
         KeysWellFormed, ImagesWellFormed, WellFormed, TypeOK, Drawn
    <2>. QED  BY <1>5, <2>2, AnswerWellFormed DEF ConfirmCommit
  <1>. QED  BY <1>2, <1>3, <1>4, <1>5

LEMMA DeleteWellFormed ==
  ASSUME WellFormed, NEW h \in Handlers,
         DeleteRefused(h) \/ DeleteObject(h) \/ DeleteObjectFails(h) \/ DeleteCommit(h)
  PROVE  WellFormed'
  <1>1. Holds(req[h].pc, req[h])
    BY DEF WellFormed, RequestsWellFormed
  <1>2. CASE DeleteRefused(h)
    BY <1>2, RejectWellFormed DEF DeleteRefused, UnchangedDb, UnchangedKeys, WellFormed, TypeOK
  <1>3. CASE DeleteObject(h) \/ DeleteObjectFails(h)
    <2>1. /\ req[h].item \in Items /\ image[req[h].item] \in Keys \cup {None}
          /\ Holds("delete_commit", req[h])
      BY <1>1, <1>3 DEF DeleteObject, DeleteObjectFails, At, WellFormed, TypeOK, Holds
    <2>2. object' \in [Keys -> Objects]
      BY <1>3 DEF DeleteObject, DeleteObjectFails, WellFormed, TypeOK, Objects
    <2>3. SharedGrows /\ UnchangedKeys
      BY <1>3, <2>2, StoreOnlyGrows DEF DeleteObject, DeleteObjectFails
    <2>. QED
      BY <1>3, <2>1, <2>2, <2>3, AnswerWellFormed, GotoWellFormed
      DEF DeleteObject, DeleteObjectFails, PCs
  <1>4. CASE DeleteCommit(h)
    <2>1. SharedGrows
      BY <1>4 DEF DeleteCommit, UnchangedKeys, SharedGrows, TablesTyped, KeysGrow,
         KeysWellFormed, ImagesWellFormed, WellFormed, TypeOK, RowStates, Drawn
    <2>. QED  BY <1>4, <2>1, AnswerWellFormed DEF DeleteCommit
  <1>. QED  BY <1>2, <1>3, <1>4

(* Clients, a restart, and steps that leave everything alone.               *)
LEMMA EnvironmentWellFormed ==
  ASSUME WellFormed,
         \/ \E i \in Items : CreateItem(i)
         \/ \E k \in Keys : Upload(k)
         \/ Crash
         \/ UNCHANGED vars
  PROVE  WellFormed'
  <1>1. CASE (\E i \in Items : CreateItem(i)) \/ UNCHANGED vars
    BY <1>1 DEF CreateItem, vars, WellFormed, TypeOK, RowStates, KeysWellFormed,
       ImagesWellFormed, RequestsWellFormed, Holds, Drawn, ByApp
  <1>2. ASSUME NEW k \in Keys, Upload(k)  PROVE WellFormed'
    <2>1. /\ object' \in [Keys -> Objects] /\ phase' \in [Keys -> Phases]
          /\ \A l \in Keys : phase[l] = "undrawn" <=> phase'[l] = "undrawn"
          /\ \A l \in Keys : phase[l] = "confirmed" => phase'[l] = "confirmed"
      BY <1>2 DEF Upload, Drawn, WellFormed, TypeOK, Phases, Objects
    <2>. QED
      BY <1>2, <2>1 DEF Upload, WellFormed, TypeOK, KeysWellFormed, ImagesWellFormed,
         RequestsWellFormed, Holds, Drawn, ByApp
  <1>3. CASE Crash
    BY <1>3 DEF Crash, WellFormed, TypeOK, KeysWellFormed, ImagesWellFormed,
       RequestsWellFormed, Holds, Idle, Asked, Request, PCs
  <1>. QED  BY <1>1, <1>2, <1>3

LEMMA NextWellFormed == WellFormed /\ [Next]_vars => WellFormed'
  <1> SUFFICES ASSUME WellFormed, [Next]_vars  PROVE WellFormed'
    OBVIOUS
  <1>1. ASSUME NEW h \in Handlers, Step(h)  PROVE WellFormed'
    BY <1>1, AskWellFormed, PatchWellFormed, UploadUrlWellFormed, ConfirmWellFormed,
       DeleteWellFormed DEF Step
  <1>. QED  BY <1>1, EnvironmentWellFormed DEF Next

(* What every handler relies on between two awaits holds in every state.   *)
THEOREM AlwaysWellFormed == Spec => []WellFormed
  <1>. QED  BY InitWellFormed, NextWellFormed, PTL DEF Spec

(* Every variable keeps its type, with any number of items and requests.   *)
THEOREM TypeCorrect == Spec => []TypeOK
  <1>1. WellFormed => TypeOK
    BY DEF WellFormed
  <1>. QED  BY <1>1, AlwaysWellFormed, PTL

(* Two items never show one object: each only shows what was uploaded to a  *)
(* key that was made for it.                                                *)
THEOREM ImagesDisjointTheorem == Spec => []ImagesDisjoint
  <1>1. WellFormed => ImagesDisjoint
    BY DEF WellFormed, TypeOK, ImagesWellFormed, ImagesDisjoint
  <1>. QED  BY <1>1, AlwaysWellFormed, PTL

-----------------------------------------------------------------------------
(* Which step can do what, whoever takes it.                                *)

LEMMA NextKeysGrow ==
  ASSUME WellFormed, [Next]_vars  PROVE KeysGrow
  <1>1. ASSUME NEW h \in Handlers, AskConfirm(h) \/ UploadUrl(h)  PROVE KeysGrow
    BY <1>1 DEF AskConfirm, UploadUrl, KeysGrow, Drawn, WellFormed, TypeOK
  <1>2. ASSUME NEW k \in Keys, Upload(k)  PROVE KeysGrow
    BY <1>2 DEF Upload, KeysGrow, Drawn, WellFormed, TypeOK
  <1>3. CASE UnchangedKeys
    BY <1>3 DEF UnchangedKeys, KeysGrow, Drawn
  <1>4. ASSUME NEW h \in Handlers, Step(h)
        PROVE  AskConfirm(h) \/ UploadUrl(h) \/ UnchangedKeys
    BY <1>4 DEF Step, UnchangedKeys, Ask, PatchRead, PatchCommit, UploadUrlRefused,
       ConfirmRefused, ConfirmAccepted, ConfirmRejected, ConfirmReject, ConfirmCommit,
       ConfirmCommitFails, DeleteRefused, DeleteObject, DeleteObjectFails, DeleteCommit
  <1>5. CASE (\E i \in Items : CreateItem(i)) \/ Crash \/ UNCHANGED vars
    BY <1>3, <1>5 DEF CreateItem, Crash, vars, UnchangedKeys
  <1>. QED  BY <1>1, <1>2, <1>3, <1>4, <1>5 DEF Next

LEMMA ImageWrites ==
  ASSUME WellFormed, [Next]_vars, NEW i \in Items, image'[i] # image[i]
  PROVE  \E h \in Handlers : ConfirmCommit(h) /\ req[h].item = i /\ req[h].key = image'[i]
  <1>1. ASSUME NEW h \in Handlers, Step(h), image' # image  PROVE ConfirmCommit(h)
    BY <1>1 DEF Step, UnchangedDb, Ask, AskConfirm, PatchRead, PatchCommit, UploadUrl,
       UploadUrlRefused, ConfirmRefused, ConfirmAccepted, ConfirmRejected, ConfirmReject,
       ConfirmCommitFails, DeleteRefused, DeleteObject, DeleteObjectFails, DeleteCommit
  <1>2. PICK h \in Handlers : ConfirmCommit(h)
    BY <1>1 DEF Next, CreateItem, Upload, Crash, vars
  <1>3. req[h].item = i /\ req[h].key = image'[i]
    BY <1>2 DEF ConfirmCommit, WellFormed, TypeOK
  <1>. QED  BY <1>2, <1>3

LEMMA ObjectWrites ==
  ASSUME WellFormed, [Next]_vars, NEW k \in Keys, object'[k] # object[k]
  PROVE  \/ Upload(k) /\ object'[k] # "none"
         \/ \E h \in Handlers :
              \/ /\ DeleteObject(h) \/ DeleteObjectFails(h)
                 /\ image[req[h].item] = k
              \/ ConfirmReject(h) /\ req[h].key = k
  <1>1. ASSUME NEW h \in Handlers, Step(h)
        PROVE  ConfirmReject(h) \/ DeleteObject(h) \/ DeleteObjectFails(h)
    BY <1>1 DEF Step, Ask, AskConfirm, PatchRead, PatchCommit, UploadUrl,
       UploadUrlRefused, ConfirmRefused, ConfirmAccepted, ConfirmRejected, ConfirmCommit,
       ConfirmCommitFails, DeleteRefused, DeleteCommit
  <1>2. ASSUME NEW l \in Keys, Upload(l)  PROVE Upload(k) /\ object'[k] # "none"
    BY <1>2 DEF Upload, WellFormed, TypeOK
  <1>3. ASSUME NEW h \in Handlers, DeleteObject(h) \/ DeleteObjectFails(h)
        PROVE  image[req[h].item] = k
    BY <1>3 DEF DeleteObject, DeleteObjectFails, WellFormed, TypeOK
  <1>4. ASSUME NEW h \in Handlers, ConfirmReject(h)  PROVE req[h].key = k
    BY <1>4 DEF ConfirmReject, WellFormed, TypeOK
  <1>5. ~ UNCHANGED object
    OBVIOUS
  <1>. QED  BY <1>1, <1>2, <1>3, <1>4, <1>5 DEF Next, CreateItem, Crash, vars

(* Only a confirm of the item changes its key, and only a request for the   *)
(* item, or a confirm of the key, takes the object away that it shows: a    *)
(* key never serves two items, so a delete of another item cannot.          *)
THEOREM ImageOnlyByOwnRequestTheorem == Spec => ImageOnlyByOwnRequest
  <1> DEFINE OwnRequest ==
        \A i \in Items : item[i] = "present" =>
          /\ image'[i] # image[i] =>
               \E h \in Handlers : ConfirmCommit(h) /\ req[h].item = i /\ req[h].key = image'[i]
          /\ image[i] # None /\ object[image[i]] # "none" /\ object'[image[i]] = "none" =>
               \E h \in Handlers :
                 /\ req[h].item = i
                 /\ \/ DeleteObject(h) \/ DeleteObjectFails(h)
                    \/ ConfirmReject(h) /\ req[h].key = image[i]
  <1>1. WellFormed /\ [Next]_vars => [OwnRequest]_vars
    <2> SUFFICES ASSUME WellFormed, [Next]_vars, NEW i \in Items, image[i] # None,
                        object[image[i]] # "none", object'[image[i]] = "none"
                 PROVE  \E h \in Handlers :
                          /\ req[h].item = i
                          /\ \/ DeleteObject(h) \/ DeleteObjectFails(h)
                             \/ ConfirmReject(h) /\ req[h].key = image[i]
      BY ImageWrites
    <2>1. image[i] \in Keys /\ prefix[image[i]] = i
      BY DEF WellFormed, TypeOK, ImagesWellFormed
    <2>2. PICK h \in Handlers :
            \/ /\ DeleteObject(h) \/ DeleteObjectFails(h)
               /\ image[req[h].item] = image[i]
            \/ ConfirmReject(h) /\ req[h].key = image[i]
      BY <2>1, ObjectWrites
    <2>3. Holds(req[h].pc, req[h])
      BY DEF WellFormed, RequestsWellFormed
    <2>4. CASE DeleteObject(h) \/ DeleteObjectFails(h)
      <3>1. req[h].item \in Items /\ image[req[h].item] = image[i]
        BY <2>2, <2>3, <2>4 DEF DeleteObject, DeleteObjectFails, ConfirmReject, At, Holds
      <3>2. prefix[image[req[h].item]] = req[h].item
        BY <3>1 DEF WellFormed, ImagesWellFormed
      <3>. QED  BY <2>1, <2>4, <3>1, <3>2
    <2>5. CASE ConfirmReject(h) /\ req[h].key = image[i]
      BY <2>1, <2>3, <2>5 DEF ConfirmReject, At, Holds
    <2>. QED  BY <2>2, <2>4, <2>5
  <1>. QED  BY <1>1, AlwaysWellFormed, PTL DEF Spec, ImageOnlyByOwnRequest

-----------------------------------------------------------------------------
(* What the app's single PUT and single confirm of a key buy it.            *)

Confirming(h, k) == req[h].pc \in Confirms /\ req[h].key = k

(* One request at most ever confirms a key of the app.                      *)
OneConfirm ==
  \A k \in Keys : ByApp(k) =>
    \A g, h \in Handlers : Confirming(g, k) /\ Confirming(h, k) => g = h

(* Once an item shows the key that request has been answered.               *)
ShownIsConfirmed ==
  \A i \in Items, k \in Keys : image[i] = k /\ ByApp(k) =>
    /\ phase[k] = "confirmed"
    /\ \A h \in Handlers : ~Confirming(h, k)

(* What was accepted is still good when it is committed.                    *)
AcceptedIsGood ==
  \A h \in Handlers : At(h, "confirm_commit") /\ ByApp(req[h].key) => object[req[h].key] = "good"

Once == OneConfirm /\ ShownIsConfirmed /\ AcceptedIsGood

LEMMA InitOnce == Init => Once
  BY WardrobeAssumption
  DEF Init, Once, OneConfirm, ShownIsConfirmed, AcceptedIsGood, Confirming, At, Idle, Asked

(* A handler sets out to confirm a key only by AskConfirm.                  *)
LEMMA StartsConfirm ==
  ASSUME WellFormed, [Next]_vars, NEW h \in Handlers, NEW k \in Keys,
         Confirming(h, k)', ~Confirming(h, k)
  PROVE  /\ Drawn(k) /\ (ByApp(k) => phase[k] = "uploaded")
         /\ \A g \in Handlers \ {h} : req'[g] = req[g]
         /\ image' = image
  <1>1. req'[h] # req[h]
    BY DEF Confirming
  <1>2. ASSUME NEW g \in Handlers, Step(g)  PROVE AskConfirm(g)
    <2>1. CASE Answer(g) \/ Ask(g)
      BY <2>1, WardrobeAssumption
      DEF Answer, Ask, Asked, Idle, Confirming, WellFormed, TypeOK
    <2>2. CASE PatchRead(g) \/ DeleteObject(g)
      BY <2>1, <2>2 DEF PatchRead, DeleteObject, Goto, Confirming, WellFormed, TypeOK, Request
    <2>3. CASE ConfirmAccepted(g) \/ ConfirmRejected(g)
      BY <2>3 DEF ConfirmAccepted, ConfirmRejected, At, Goto, Confirming, WellFormed, TypeOK,
         Request
    <2>. QED
      BY <1>2, <2>1, <2>2, <2>3 DEF Step, PatchCommit, UploadUrl, UploadUrlRefused,
         ConfirmRefused, ConfirmReject, ConfirmCommit, ConfirmCommitFails, DeleteRefused,
         DeleteObjectFails, DeleteCommit
  <1>3. ~ Crash
    BY <1>1 DEF Crash, Idle, Asked, Confirming
  <1>4. PICK g \in Handlers : AskConfirm(g)
    BY <1>1, <1>2, <1>3 DEF Next, CreateItem, Upload, vars
  <1>5. PICK u \in Users, i \in Items, l \in Keys :
          /\ Drawn(l) /\ (ByApp(l) => phase[l] = "uploaded")
          /\ req' = [req EXCEPT ![g] = Asked("confirm", u, i, l)]
          /\ image' = image
    BY <1>4 DEF AskConfirm
  <1>6. g = h /\ l = k
    BY <1>1, <1>5 DEF Asked, Confirming, WellFormed, TypeOK
  <1>. QED  BY <1>5, <1>6 DEF WellFormed, TypeOK

(* A handler comes to the commit with a good object.                        *)
LEMMA ComesToCommit ==
  ASSUME WellFormed, [Next]_vars, NEW h \in Handlers, At(h, "confirm_commit")'
  PROVE  \/ req'[h] = req[h]
         \/ req'[h].key = req[h].key /\ object[req[h].key] = "good" /\ UNCHANGED object
  <1>1. ASSUME NEW g \in Handlers, Step(g), req'[h] # req[h]
        PROVE  g = h /\ ConfirmAccepted(h)
    <2>1. CASE Answer(g) \/ Ask(g) \/ AskConfirm(g)
      BY <1>1, <2>1 DEF Answer, Ask, AskConfirm, Asked, Idle, At, WellFormed, TypeOK
    <2>2. CASE PatchRead(g) \/ DeleteObject(g) \/ ConfirmRejected(g) \/ ConfirmAccepted(g)
      BY <1>1, <2>1, <2>2 DEF PatchRead, DeleteObject, ConfirmRejected, ConfirmAccepted, Goto,
         At, WellFormed, TypeOK, Request
    <2>. QED
      BY <1>1, <2>1, <2>2 DEF Step, PatchCommit, UploadUrl, UploadUrlRefused, ConfirmRefused,
         ConfirmReject, ConfirmCommit, ConfirmCommitFails, DeleteRefused, DeleteObjectFails,
         DeleteCommit
  <1>2. ~ Crash
    BY DEF Crash, Idle, Asked, At
  <1>3. CASE ConfirmAccepted(h)
    BY <1>3 DEF ConfirmAccepted, Verified, Goto, WellFormed, TypeOK, Request
  <1>. QED  BY <1>1, <1>2, <1>3 DEF Next, CreateItem, Upload, vars

LEMMA NextOnce ==
  ASSUME WellFormed, WellFormed', Once, [Next]_vars
  PROVE  Once'
  <1>1. KeysGrow
    BY NextKeysGrow
  <1>2. ASSUME NEW k \in Keys, Drawn(k), ByApp(k)'  PROVE ByApp(k)
    BY <1>1, <1>2 DEF KeysGrow, ByApp
  <1>3. ASSUME NEW h \in Handlers, NEW k \in Keys, Confirming(h, k)
        PROVE  Drawn(k) /\ (ByApp(k) => phase[k] = "confirmed")
    BY <1>3 DEF Confirming, WellFormed, RequestsWellFormed, Holds
  <1>4. ASSUME NEW h \in Handlers, NEW k \in Keys, Confirming(h, k)', ByApp(k)'
        PROVE  \/ Confirming(h, k) /\ ByApp(k)
               \/ /\ phase[k] = "uploaded" /\ ByApp(k) /\ image' = image
                  /\ \A g \in Handlers \ {h} : req'[g] = req[g]
    <2>1. Confirming(h, k) => Drawn(k)
      BY <1>3
    <2>2. ~Confirming(h, k) => /\ Drawn(k) /\ (ByApp(k) => phase[k] = "uploaded")
                               /\ \A g \in Handlers \ {h} : req'[g] = req[g]
                               /\ image' = image
      BY <1>4, StartsConfirm
    <2>. QED  BY <1>2, <1>4, <2>1, <2>2
  <1>5. OneConfirm'
    <2> SUFFICES ASSUME NEW k \in Keys, ByApp(k)', NEW g \in Handlers, NEW h \in Handlers,
                        Confirming(g, k)', Confirming(h, k)', g # h
                 PROVE  FALSE
      BY DEF OneConfirm
    <2>1. ASSUME NEW f \in Handlers, NEW e \in Handlers, f # e, Confirming(e, k)',
                 \A d \in Handlers \ {f} : req'[d] = req[d]
          PROVE  Confirming(e, k)
      BY <2>1 DEF Confirming
    <2>2. ~ (Confirming(g, k) /\ Confirming(h, k))
      BY <1>4 DEF Once, OneConfirm
    <2>. QED  BY <1>3, <1>4, <2>1, <2>2
  <1>6. ShownIsConfirmed'
    <2> SUFFICES ASSUME NEW i \in Items, NEW k \in Keys, image'[i] = k, ByApp(k)'
                 PROVE  /\ phase'[k] = "confirmed"
                        /\ \A h \in Handlers : ~ Confirming(h, k)'
      BY DEF ShownIsConfirmed
    <2>1. CASE image[i] = k
      <3>1. prefix[k] = i /\ Drawn(k)
        BY <2>1, WardrobeAssumption
        DEF WellFormed, TypeOK, ImagesWellFormed, KeysWellFormed, Drawn
      <3>2. ByApp(k) /\ phase[k] = "confirmed" /\ \A h \in Handlers : ~Confirming(h, k)
        BY <1>2, <2>1, <3>1 DEF Once, ShownIsConfirmed
      <3>. QED  BY <1>1, <1>4, <3>1, <3>2 DEF KeysGrow
    <2>2. CASE image[i] # k
      <3>1. PICK g \in Handlers : ConfirmCommit(g) /\ req[g].key = k
        BY <2>2, ImageWrites
      <3>2. Confirming(g, k) /\ req'[g] = Idle /\ image' # image
        BY <2>2, <3>1 DEF ConfirmCommit, Confirming, At, Answer, WellFormed, TypeOK
      <3>3. Drawn(k) /\ ByApp(k) /\ phase[k] = "confirmed"
        BY <1>2, <1>3, <3>2
      <3>4. ASSUME NEW h \in Handlers, Confirming(h, k)'  PROVE FALSE
        <4>1. h # g
          BY <3>2, <3>4 DEF Confirming, Idle, Asked
        <4>2. Confirming(h, k)
          BY <1>4, <3>2, <3>4
        <4>. QED  BY <3>2, <3>3, <4>1, <4>2 DEF Once, OneConfirm
      <3>. QED  BY <1>1, <3>3, <3>4 DEF KeysGrow
    <2>. QED  BY <2>1, <2>2
  <1>7. AcceptedIsGood'
    <2> SUFFICES ASSUME NEW h \in Handlers, At(h, "confirm_commit")', ByApp(req[h].key)'
                 PROVE  object'[req'[h].key] = "good"
      BY DEF AcceptedIsGood
    <2>1. CASE req'[h].key = req[h].key /\ object[req[h].key] = "good" /\ UNCHANGED object
      BY <2>1
    <2>2. CASE req'[h] = req[h]
      <3> DEFINE k == req[h].key
      <3>1. At(h, "confirm_commit") /\ k \in Keys /\ Confirming(h, k)
        BY <2>2 DEF At, Confirming, WellFormed, RequestsWellFormed, Holds
      <3>2. Drawn(k) /\ ByApp(k) /\ phase[k] = "confirmed"
        BY <1>2, <1>3, <2>2, <3>1
      <3>3. object[k] = "good"
        BY <3>1, <3>2 DEF Once, AcceptedIsGood
      <3>4. ~ Upload(k)
        BY <3>2 DEF Upload
      <3>5. ASSUME NEW g \in Handlers, DeleteObject(g) \/ DeleteObjectFails(g)
            PROVE  image[req[g].item] # k
        BY <3>1, <3>2, <3>5 DEF DeleteObject, DeleteObjectFails, At, WellFormed,
           RequestsWellFormed, Holds, Once, ShownIsConfirmed
      <3>6. ASSUME NEW g \in Handlers, ConfirmReject(g)  PROVE req[g].key # k
        BY <3>1, <3>2, <3>6 DEF ConfirmReject, At, Confirming, Once, OneConfirm
      <3> HIDE DEF k
      <3>7. object'[k] = object[k]
        BY <3>1, <3>4, <3>5, <3>6, ObjectWrites
      <3>. QED  BY <2>2, <3>3, <3>7 DEF k
    <2>. QED  BY <2>1, <2>2, ComesToCommit
  <1>. QED  BY <1>5, <1>6, <1>7 DEF Once

(* The object an item of the app shows stays good until a delete of the     *)
(* item: the only request that could confirm its key again, or drop the     *)
(* object, has been answered.                                               *)
THEOREM ShownImageGoodTheorem == Spec => ShownImageGood
  <1> DEFINE StaysGood ==
        \A i \in AppItems :
          image'[i] # None /\ object'[image'[i]] # "good" =>
            \/ image[i] # None /\ object[image[i]] # "good"
            \/ \E h \in Handlers : req[h].item = i /\ (DeleteObject(h) \/ DeleteObjectFails(h))
  <1>1. WellFormed /\ Once /\ [Next]_vars => [StaysGood]_vars
    <2> SUFFICES ASSUME WellFormed, Once, [Next]_vars, NEW i \in AppItems,
                        image'[i] # None, object'[image'[i]] # "good",
                        ~ (image[i] # None /\ object[image[i]] # "good")
                 PROVE  \E h \in Handlers :
                          req[h].item = i /\ (DeleteObject(h) \/ DeleteObjectFails(h))
      OBVIOUS
    <2>1. i \in Items /\ image[i] \in Keys \cup {None}
      BY WardrobeAssumption DEF WellFormed, TypeOK
    <2>2. CASE image'[i] # image[i]
      <3>1. PICK h \in Handlers : ConfirmCommit(h) /\ req[h].item = i /\ req[h].key = image'[i]
        BY <2>1, <2>2, ImageWrites
      <3>2. At(h, "confirm_commit") /\ prefix[req[h].key] = i /\ UNCHANGED object
        BY <3>1 DEF ConfirmCommit, At, WellFormed, RequestsWellFormed, Holds
      <3>3. object[req[h].key] = "good"
        BY <3>2 DEF ByApp, Once, AcceptedIsGood
      <3>. QED  BY <3>1, <3>2, <3>3
    <2>3. CASE image'[i] = image[i]
      <3>1. image[i] \in Keys /\ prefix[image[i]] = i /\ ByApp(image[i])
        BY <2>1, <2>3 DEF WellFormed, ImagesWellFormed, ByApp
      <3>2. /\ phase[image[i]] = "confirmed"
            /\ \A h \in Handlers : ~Confirming(h, image[i])
        BY <2>1, <3>1 DEF Once, ShownIsConfirmed
      <3>3. ~ Upload(image[i])
        BY <3>1, <3>2 DEF Upload
      <3>4. ~ \E h \in Handlers : ConfirmReject(h) /\ req[h].key = image[i]
        BY <3>2 DEF ConfirmReject, At, Confirming
      <3>5. PICK h \in Handlers : /\ DeleteObject(h) \/ DeleteObjectFails(h)
                                  /\ image[req[h].item] = image[i]
        BY <2>3, <3>1, <3>3, <3>4, ObjectWrites
      <3>6. req[h].item \in Items
        BY <3>5 DEF DeleteObject, DeleteObjectFails, At, WellFormed, RequestsWellFormed, Holds
      <3>7. prefix[image[req[h].item]] = req[h].item
        BY <2>3, <3>5, <3>6 DEF WellFormed, ImagesWellFormed
      <3>. QED  BY <3>1, <3>5, <3>7
    <2>. QED  BY <2>2, <2>3
  <1>2. Spec => [](WellFormed /\ Once)
    <2>1. Init => WellFormed /\ Once
      BY InitWellFormed, InitOnce
    <2>2. WellFormed /\ Once /\ [Next]_vars => (WellFormed /\ Once)'
      BY NextWellFormed, NextOnce
    <2>. QED  BY <2>1, <2>2, PTL DEF Spec
  <1>. QED  BY <1>1, <1>2, PTL DEF Spec, ShownImageGood

=============================================================================
