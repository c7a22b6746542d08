------------------------------ MODULE Wardrobe -------------------------------
(***************************************************************************)
(* Clothing items and their images: the handlers of                         *)
(* api/app/api/v1/routers/clothes.py that write, the object store behind    *)
(* services/storage_service.py, and the app that uploads to it              *)
(* (app/lib/features/wardrobe/data/wardrobe_repository.dart).               *)
(*                                                                          *)
(* The client PUTs an image straight into the store, so the store changes   *)
(* between any two steps of a handler.  The calls of the storage client are *)
(* synchronous: while one handler makes them no other handler runs, but the *)
(* store is open to clients even then.  A storage call may fail.            *)
(*                                                                          *)
(* A key begins with clothes/<owner>/<item>/ and ends in a new uuid: it is  *)
(* a model value whose item is in prefix.  An object is good when its type  *)
(* and size are the ones confirm accepts, else bad.  The other columns of   *)
(* an item are left out, and so are the reads.                              *)
(***************************************************************************)
EXTENDS FiniteSets

CONSTANTS Users,
          Items,     \* ids of clothing items, never drawn twice
          ItemOwner, \* who creates the item with this id
          Keys,      \* object keys, never drawn twice
          Handlers,  \* bound: requests in flight at a time
          None,      \* absent value
          AppItems   \* items whose images only come from the app

ASSUME WardrobeAssumption == /\ ItemOwner \in [Items -> Users]
                             /\ None \notin Users \cup Items \cup Keys
                             /\ AppItems \subseteq Items

VARIABLES item,   \* whether each item is in table clothing_items
          image,  \* clothing_items.image_key, kept as it was when the row goes
          prefix, \* the item a key was built for, None until it is drawn
          phase,  \* how far the client that was given the key has got
          object, \* the bucket
          req     \* the request each handler is serving, and what it has read

vars == <<item, image, prefix, phase, object, req>>

-----------------------------------------------------------------------------

RowStates == {"absent", "present", "deleted"}

Phases == {"undrawn", "issued", "uploaded", "confirmed"}

Objects == {"none", "good", "bad"}

PCs == {"idle", "upload_url", "confirm", "confirm_reject", "confirm_commit",
        "patch", "patch_commit", "delete", "delete_commit"}

Request == [pc : PCs, user : Users \cup {None}, item : Items \cup {None},
            key : Keys \cup {None}, seen : Keys \cup {None}]

Asked(op, u, i, k) == [pc |-> op, user |-> u, item |-> i, key |-> k, seen |-> None]

Idle == Asked("idle", None, None, None)

TypeOK == /\ item \in [Items -> RowStates]
          /\ image \in [Items -> Keys \cup {None}]
          /\ prefix \in [Keys -> Items \cup {None}]
          /\ phase \in [Keys -> Phases]
          /\ object \in [Keys -> Objects]
          /\ req \in [Handlers -> Request]

Init == /\ item = [i \in Items |-> "absent"]
        /\ image = [i \in Items |-> None]
        /\ prefix = [k \in Keys |-> None]
        /\ phase = [k \in Keys |-> "undrawn"]
        /\ object = [k \in Keys |-> "none"]
        /\ req = [h \in Handlers |-> Idle]

-----------------------------------------------------------------------------

Owns(u, i) == item[i] = "present" /\ ItemOwner[i] = u

Drawn(k) == phase[k] # "undrawn"

At(h, pc) == req[h].pc = pc

Goto(h, pc, seen) == req' = [req EXCEPT ![h].pc = pc, ![h].seen = seen]

Answer(h) == req' = [req EXCEPT ![h] = Idle]

UnchangedDb == UNCHANGED <<item, image>>
UnchangedKeys == UNCHANGED <<prefix, phase>>

(* No handler holds the event loop in the middle of its storage calls.     *)
LoopFree(h) == \A g \in Handlers \ {h} : ~At(g, "confirm_reject")

-----------------------------------------------------------------------------
(* Clients.                                                                 *)

(* POST /clothes inserts a row with no image and reads nothing before.     *)
CreateItem(i) ==
  /\ item[i] = "absent"
  /\ item' = [item EXCEPT ![i] = "present"]
  /\ UNCHANGED <<image, prefix, phase, object, req>>

Ask(h) ==
  /\ At(h, "idle")
  /\ \E op \in {"upload_url", "patch", "delete"}, u \in Users, i \in Items :
       req' = [req EXCEPT ![h] = Asked(op, u, i, None)]
  /\ UNCHANGED <<item, image, prefix, phase, object>>

(* uploadImage: the app PUTs to a key once, then confirms it once, for the  *)
(* item it asked the URL for.  Another client may use a key as it likes.    *)
ByApp(k) == prefix[k] \in AppItems

AskConfirm(h) ==
  /\ At(h, "idle")
  /\ \E u \in Users, i \in Items, k \in Keys :
       /\ Drawn(k)
       /\ ByApp(k) => phase[k] = "uploaded" /\ prefix[k] = i /\ ItemOwner[i] = u
       /\ req' = [req EXCEPT ![h] = Asked("confirm", u, i, k)]
       /\ phase' = [phase EXCEPT ![k] = "confirmed"]
  /\ UNCHANGED <<item, image, prefix, object>>

(* The PUT of the bytes to the presigned URL, again as often as the client *)
(* likes before the URL expires, unless it is the app.                     *)
Upload(k) ==
  /\ Drawn(k)
  /\ ByApp(k) => phase[k] = "issued"
  /\ \E o \in {"good", "bad"} : object' = [object EXCEPT ![k] = o]
  /\ phase' = [phase EXCEPT ![k] = IF @ = "issued" THEN "uploaded" ELSE @]
  /\ UNCHANGED <<item, image, prefix, req>>

-----------------------------------------------------------------------------
(* PATCH /clothes/{id}                                                      *)

PatchRead(h) ==
  /\ At(h, "patch")
  /\ IF Owns(req[h].user, req[h].item)
     THEN Goto(h, "patch_commit", image[req[h].item])
     ELSE Answer(h)
  /\ UnchangedDb /\ UnchangedKeys /\ UNCHANGED object

(* Should the row be written as it was read:                               *)
PatchWritesRow(h) ==
  /\ At(h, "patch_commit")
  /\ image' = [image EXCEPT ![req[h].item] = req[h].seen]
  /\ Answer(h)
  /\ UnchangedKeys /\ UNCHANGED <<item, object>>

(* Only the columns that were set are written, image_key is not among them; *)
(* 500 for a row that is gone.                                              *)
PatchCommit(h) ==
  /\ At(h, "patch_commit")
  /\ Answer(h)
  /\ UNCHANGED <<item, image, prefix, phase, object>>

-----------------------------------------------------------------------------
(* POST /clothes/{id}/image/upload-url                                      *)

UploadUrl(h) ==
  /\ At(h, "upload_url")
  /\ Owns(req[h].user, req[h].item)
  /\ \E k \in Keys :
       /\ ~Drawn(k)
       /\ phase' = [phase EXCEPT ![k] = "issued"]
       /\ prefix' = [prefix EXCEPT ![k] = req[h].item]
  /\ Answer(h)
  /\ UNCHANGED <<item, image, object>>

(* 404, or 415 for the type of the image.                                  *)
UploadUrlRefused(h) ==
  /\ At(h, "upload_url")
  /\ Answer(h)
  /\ UNCHANGED <<item, image, prefix, phase, object>>

-----------------------------------------------------------------------------
(* POST /clothes/{id}/image/confirm                                         *)

(* Should any key do, or only its owner be looked at:                      *)
AnyPrefix(h) == Drawn(req[h].key)

PrefixMatches(h) == prefix[req[h].key] = req[h].item

(* Should it be enough that the object is there:                           *)
Exists(k) == object[k] # "none"

Verified(k) == object[k] = "good"

(* 404, 400 for the key, 400 for no object, 502 for a store that fails.    *)
ConfirmRefused(h) ==
  /\ At(h, "confirm")
  /\ Answer(h)
  /\ UNCHANGED <<item, image, prefix, phase, object>>

ConfirmAccepted(h) ==
  /\ At(h, "confirm")
  /\ Owns(req[h].user, req[h].item)
  /\ PrefixMatches(h)
  /\ Verified(req[h].key)
  /\ Goto(h, "confirm_commit", image[req[h].item])
  /\ UnchangedDb /\ UnchangedKeys /\ UNCHANGED object

(* The object has the wrong type or size: it will be dropped ...           *)
ConfirmRejected(h) ==
  /\ At(h, "confirm")
  /\ Owns(req[h].user, req[h].item)
  /\ PrefixMatches(h)
  /\ object[req[h].key] # "none"
  /\ ~Verified(req[h].key)
  /\ Goto(h, "confirm_reject", None)
  /\ UnchangedDb /\ UnchangedKeys /\ UNCHANGED object

(* ... whatever it has become, and a failure to drop it is ignored: 400.   *)
ConfirmReject(h) ==
  /\ At(h, "confirm_reject")
  /\ object' \in {object, [object EXCEPT ![req[h].key] = "none"]}
  /\ Answer(h)
  /\ UnchangedDb /\ UnchangedKeys

(* Should the id of the item be stored for its key:                        *)
ConfirmStoresItem(h) ==
  /\ At(h, "confirm_commit")
  /\ item[req[h].item] = "present"
  /\ image' = [image EXCEPT ![req[h].item] = req[h].item]
  /\ Answer(h)
  /\ UnchangedKeys /\ UNCHANGED <<item, object>>

(* UPDATE clothing_items SET image_key WHERE id: sent only if the key is    *)
(* not the one the row was read with.                                       *)
ConfirmCommit(h) ==
  /\ At(h, "confirm_commit")
  /\ item[req[h].item] = "present"
  /\ image' = [image EXCEPT ![req[h].item] = IF req[h].seen = req[h].key
                                             THEN @ ELSE req[h].key]
  /\ Answer(h)
  /\ UnchangedKeys /\ UNCHANGED <<item, object>>

(* The item was deleted meanwhile: StaleDataError, or the row cannot be     *)
(* read back; 500 either way.                                               *)
ConfirmCommitFails(h) ==
  /\ At(h, "confirm_commit")
  /\ item[req[h].item] # "present"
  /\ Answer(h)
  /\ UNCHANGED <<item, image, prefix, phase, object>>

-----------------------------------------------------------------------------
(* DELETE /clothes/{id}: the object first, then the row.                    *)

DeleteRefused(h) ==
  /\ At(h, "delete")
  /\ ~Owns(req[h].user, req[h].item)
  /\ Answer(h)
  /\ UNCHANGED <<item, image, prefix, phase, object>>

(* A key that is not in the store is no error.                             *)
DeleteObject(h) ==
  /\ At(h, "delete")
  /\ Owns(req[h].user, req[h].item)
  /\ LET k == image[req[h].item] IN
       /\ object' = IF k = None THEN object ELSE [object EXCEPT ![k] = "none"]
       /\ Goto(h, "delete_commit", k)
  /\ UnchangedDb /\ UnchangedKeys

(* The store fails, before or after it has done what it was asked: 502 or  *)
(* 500, and the row stays.                                                 *)
DeleteObjectFails(h) ==
  /\ At(h, "delete")
  /\ Owns(req[h].user, req[h].item)
  /\ LET k == image[req[h].item] IN
       /\ k # None
       /\ object' \in {object, [object EXCEPT ![k] = "none"]}
  /\ Answer(h)
  /\ UnchangedDb /\ UnchangedKeys

(* DELETE FROM clothing_items WHERE id, which a row that is gone does not   *)
(* hinder.                                                                  *)
DeleteCommit(h) ==
  /\ At(h, "delete_commit")
  /\ item' = [item EXCEPT ![req[h].item] = "deleted"]
  /\ Answer(h)
  /\ UnchangedKeys /\ UNCHANGED <<image, object>>

-----------------------------------------------------------------------------

(* The process stops and restarts: what was not committed is gone, what     *)
(* the store has done stays.                                                *)
Crash == /\ \E h \in Handlers : ~At(h, "idle")
         /\ req' = [h \in Handlers |-> Idle]
         /\ UNCHANGED <<item, image, prefix, phase, object>>

Step(h) ==
  \/ Ask(h) \/ AskConfirm(h)
  \/ PatchRead(h) \/ PatchCommit(h)
  \/ UploadUrl(h) \/ UploadUrlRefused(h)
  \/ ConfirmRefused(h) \/ ConfirmAccepted(h) \/ ConfirmRejected(h) \/ ConfirmReject(h)
  \/ ConfirmCommit(h) \/ ConfirmCommitFails(h)
  \/ DeleteRefused(h) \/ DeleteObject(h) \/ DeleteObjectFails(h) \/ DeleteCommit(h)

Next == \/ \E h \in Handlers : LoopFree(h) /\ Step(h)
        \/ \E i \in Items : CreateItem(i)
        \/ \E k \in Keys : Upload(k)
        \/ Crash

Spec == Init /\ [][Next]_vars

-----------------------------------------------------------------------------

(* No two items ever show the same object, whatever keys are confirmed and  *)
(* however the handlers interleave: deleting one cannot take the image of   *)
(* another (clothes.py:203-208, 163-165).                                   *)
ImagesDisjoint ==
  \A i, j \in Items : image[i] # None /\ image[i] = image[j] => i = j

(* What an item shows is changed by a request for that very item: its key   *)
(* by a confirm, which no update that read the row before takes back, and   *)
(* its object vanishes by a delete, cut short or refused by the store, or   *)
(* by a confirm of that very key which found the object overwritten with a  *)
(* bad one (clothes.py:92-95, 146-150, 163-174, 208-210).                   *)
ImageOnlyByOwnRequest ==
  [][\A i \in Items : item[i] = "present" =>
       /\ image'[i] # image[i] =>
            \E h \in Handlers : ConfirmCommit(h) /\ req[h].item = i /\ req[h].key = image'[i]
       /\ image[i] # None /\ object[image[i]] # "none" /\ object'[image[i]] = "none" =>
            \E h \in Handlers :
              /\ req[h].item = i
              /\ \/ DeleteObject(h) \/ DeleteObjectFails(h)
                 \/ ConfirmReject(h) /\ req[h].key = image[i]]_vars

(* "verify object existence (HEAD), MIME type, and size before              *)
(* confirm-image accepts a key" (README.md:111-113): an item of the app     *)
(* comes to show nothing but a good image, and keeps it, however many       *)
(* uploads to it are under way and whatever other clients do, until a       *)
(* delete of the item (clothes.py:64-95, 163-174, 207-210).                 *)
ShownImageGood ==
  [][\A i \in AppItems :
       image'[i] # None /\ object'[image'[i]] # "good" =>
         \/ image[i] # None /\ object[image[i]] # "good"
         \/ \E h \in Handlers : req[h].item = i /\ (DeleteObject(h) \/ DeleteObjectFails(h))]_vars
=============================================================================
