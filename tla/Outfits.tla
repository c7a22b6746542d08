------------------------------ MODULE Outfits -------------------------------
(***************************************************************************)
(* Outfits and the clothing items in them: api/app/api/v1/routers/outfits.py*)
(* and the delete handler of clothes.py, over the tables outfits,           *)
(* clothing_items and outfit_items.                                         *)
(*                                                                          *)
(* PUT /outfits/{id}/items is the one handler that writes twice in a        *)
(* transaction: a bulk DELETE of the outfit's links, then one INSERT each   *)
(* at the commit.  At READ COMMITTED the DELETE only sees links committed   *)
(* before it began, even when it has to wait for the row locks of another   *)
(* PUT, and nobody sees it before the commit: the transaction keeps the     *)
(* links it deletes, and the commit takes them out and puts the new ones in.*)
(* A transaction the database aborts to break a deadlock ends as in Crash.  *)
(*                                                                          *)
(* What a handler answers it reads by three statements, each with a         *)
(* snapshot of its own: the outfit, its links, the items of the links.      *)
(* The names of outfits and the other columns of items are left out, and so *)
(* is who may read an outfit, which changes nothing that is read.           *)
(***************************************************************************)
EXTENDS FiniteSets

CONSTANTS Users,
          Items,       \* ids of clothing items, never drawn twice
          Outfits,     \* ids of outfits, never drawn twice
          ItemOwner,   \* who creates the item with this id
          OutfitOwner, \* who creates the outfit with this id
          Handlers,    \* bound: requests in flight at a time
          None         \* absent value

ASSUME OutfitsAssumption == /\ ItemOwner \in [Items -> Users]
                            /\ OutfitOwner \in [Outfits -> Users]
                            /\ None \notin Users \cup Items \cup Outfits

VARIABLES item,   \* whether each item is in table clothing_items
          outfit, \* whether each outfit is in table outfits
          links,  \* rows of outfit_items
          req,    \* the request each handler is serving, and what it has read
          crowded \* history: the PUTs in flight that overlap another of their outfit

vars == <<item, outfit, links, req, crowded>>

-----------------------------------------------------------------------------

RowStates == {"absent", "present", "deleted"}

Ops == {"idle", "create", "get", "patch", "put", "delete_item", "delete_outfit"}

Reads == {"read_row", "read_links", "read_items"}

PCs == Ops \cup Reads \cup {"patch_commit", "put_check", "put_delete", "put_commit",
                            "delete_item_commit", "delete_outfit_commit"}

Links == Outfits \X Items

(* loaded: outfit.item_links in the session of the handler.                *)
Request == [op : Ops, pc : PCs, user : Users \cup {None}, outfit : Outfits \cup {None},
            item : Items \cup {None}, ids : SUBSET Items, dropped : SUBSET Links,
            loaded : SUBSET Items]

Asked(op, u, o, i, ids) ==
  [op |-> op, pc |-> op, user |-> u, outfit |-> o, item |-> i, ids |-> ids,
   dropped |-> {}, loaded |-> {}]

Idle == Asked("idle", None, None, None, {})

TypeOK == /\ item \in [Items -> RowStates]
          /\ outfit \in [Outfits -> RowStates]
          /\ links \subseteq Links
          /\ req \in [Handlers -> Request]
          /\ crowded \subseteq Handlers

Init == /\ item = [i \in Items |-> "absent"]
        /\ outfit = [o \in Outfits |-> "absent"]
        /\ links = {}
        /\ req = [h \in Handlers |-> Idle]
        /\ crowded = {}

-----------------------------------------------------------------------------

OwnsItem(u, i) == item[i] = "present" /\ ItemOwner[i] = u

OwnsOutfit(u, o) == outfit[o] = "present" /\ OutfitOwner[o] = u

LinksOf(o) == {l \in links : l[1] = o}

ItemsIn(ls, o) == {i \in Items : <<o, i>> \in ls}

AllOwned(u, ids) == \A i \in ids : OwnsItem(u, i)

(* Should the links be put in without regard to their parents:             *)
Unconstrained(o, ids) == TRUE

(* The foreign keys of outfit_items.                                       *)
ParentsPresent(o, ids) ==
  outfit[o] = "present" /\ \A i \in ids : item[i] = "present"

At(h, pc) == req[h].pc = pc

(* A PUT that may still write, which another that has not been answered     *)
(* overlaps.                                                                *)
Putting(r, h) == r[h].pc \in {"put_check", "put_delete", "put_commit"}

Overlapped(r) == {h \in Handlers : \E g \in Handlers \ {h} : r[g].outfit = r[h].outfit /\ Putting(r, g)}

(* The requests become r, and the history takes note of it.                *)
Serve(r) ==
  /\ req' = r
  /\ crowded' = {h \in crowded \cup Overlapped(r) :
                   Putting(r, h) \/ (r[h].op = "put" /\ r[h].pc \in Reads)}

Goto(h, pc) == Serve([req EXCEPT ![h].pc = pc])

Answer(h) == Serve([req EXCEPT ![h] = Idle])

UnchangedDb == UNCHANGED <<item, outfit, links>>

-----------------------------------------------------------------------------

Receive(h) ==
  /\ At(h, "idle")
  /\ \E u \in Users :
       \/ \E o \in Outfits, ids \in SUBSET Items :
            Serve([req EXCEPT ![h] = Asked("put", u, o, None, ids)])
       \/ \E i \in Items :
            Serve([req EXCEPT ![h] = Asked("delete_item", u, None, i, {})])
       \/ \E o \in Outfits, op \in {"delete_outfit", "patch"} :
            Serve([req EXCEPT ![h] = Asked(op, u, o, None, {})])
  /\ UnchangedDb

(* POST /clothes and POST /outfits insert a row and read nothing before.   *)
CreateItem(i) ==
  /\ item[i] = "absent"
  /\ item' = [item EXCEPT ![i] = "present"]
  /\ UNCHANGED <<outfit, links, req, crowded>>

CreateOutfit(h, o) ==
  /\ At(h, "idle")
  /\ outfit[o] = "absent"
  /\ outfit' = [outfit EXCEPT ![o] = "present"]
  /\ Serve([req EXCEPT ![h] = [Asked("create", OutfitOwner[o], o, None, {}) EXCEPT !.pc = "read_row"]])
  /\ UNCHANGED <<item, links>>

-----------------------------------------------------------------------------
(* _get_owned_outfit and _get_accessible_outfit: the answer of every        *)
(* handler but the deletes, and all there is to GET.                        *)

Get(h) ==
  /\ At(h, "idle")
  /\ \E o \in Outfits :
       Serve([req EXCEPT ![h] = [Asked("get", None, o, None, {}) EXCEPT !.pc = "read_row"]])
  /\ UnchangedDb

(* 404 for an outfit that is gone, even to the PUT that has been committed. *)
ReadRow(h) ==
  /\ At(h, "read_row")
  /\ IF outfit[req[h].outfit] = "present" THEN Goto(h, "read_links") ELSE Answer(h)
  /\ UnchangedDb

(* Should the links loaded before the change be kept, as they are without   *)
(* populate_existing:                                                       *)
ReadLinksKeepsLoaded(h) ==
  /\ At(h, "read_links")
  /\ Goto(h, "read_items")
  /\ UnchangedDb

ReadLinks(h) ==
  /\ At(h, "read_links")
  /\ Serve([req EXCEPT ![h].pc = "read_items", ![h].loaded = ItemsIn(links, req[h].outfit)])
  /\ UnchangedDb

(* The answer shows the items loaded ...                                   *)
ReadItems(h) ==
  /\ At(h, "read_items")
  /\ \A i \in req[h].loaded : item[i] = "present"
  /\ Answer(h)
  /\ UnchangedDb

(* ... and is 500 when one of them was deleted since its link was read.    *)
ReadItemsFails(h) ==
  /\ At(h, "read_items")
  /\ \E i \in req[h].loaded : item[i] # "present"
  /\ Answer(h)
  /\ UnchangedDb

-----------------------------------------------------------------------------
(* PATCH /outfits/{id}: only the name is written.                           *)

PatchOwned(h) ==
  /\ At(h, "patch")
  /\ IF OwnsOutfit(req[h].user, req[h].outfit)
     THEN Serve([req EXCEPT ![h].pc = "patch_commit", ![h].loaded = ItemsIn(links, req[h].outfit)])
     ELSE Answer(h)
  /\ UnchangedDb

(* Nothing is sent for a name that stays; an outfit that is gone makes the *)
(* UPDATE fail: 500.                                                       *)
PatchCommit(h) ==
  /\ At(h, "patch_commit")
  /\ \/ Goto(h, "read_row")
     \/ outfit[req[h].outfit] # "present" /\ Answer(h)
  /\ UnchangedDb

-----------------------------------------------------------------------------
(* PUT /outfits/{id}/items                                                  *)

(* 404 unless the outfit is the user's.                                    *)
PutOwned(h) ==
  /\ At(h, "put")
  /\ IF OwnsOutfit(req[h].user, req[h].outfit)
     THEN Serve([req EXCEPT ![h].pc = "put_check", ![h].loaded = ItemsIn(links, req[h].outfit)])
     ELSE Answer(h)
  /\ UnchangedDb

(* 400 unless every item asked for is the user's; the empty set is not     *)
(* looked up.                                                              *)
PutCheckItems(h) ==
  /\ At(h, "put_check")
  /\ IF AllOwned(req[h].user, req[h].ids) THEN Goto(h, "put_delete") ELSE Answer(h)
  /\ UnchangedDb

(* DELETE FROM outfit_items WHERE outfit_id = ...: what it sees now.       *)
PutDelete(h) ==
  /\ At(h, "put_delete")
  /\ Serve([req EXCEPT ![h].pc = "put_commit", ![h].dropped = LinksOf(req[h].outfit)])
  /\ UnchangedDb

(* Should the new links be committed one at a time:                        *)
OneLink(h) == LET ids == req[h].ids IN
              IF ids = {} THEN {} ELSE {<<req[h].outfit, CHOOSE i \in ids : TRUE>>}

(* Should the two columns be mixed up:                                     *)
SwappedLinks(h) == req[h].ids \X {req[h].outfit}

NewLinks(h) == {req[h].outfit} \X req[h].ids

Kept(h) == links \ req[h].dropped

(* Should the new links only be added to the old ones:                     *)
PutAppends(h) ==
  /\ At(h, "put_commit")
  /\ ParentsPresent(req[h].outfit, req[h].ids)
  /\ links' = links \cup NewLinks(h)
  /\ Goto(h, "read_row")
  /\ UNCHANGED <<item, outfit>>

PutCommit(h) ==
  /\ At(h, "put_commit")
  /\ ParentsPresent(req[h].outfit, req[h].ids)
  /\ NewLinks(h) \cap Kept(h) = {}
  /\ links' = Kept(h) \cup NewLinks(h)
  /\ Goto(h, "read_row")
  /\ UNCHANGED <<item, outfit>>

(* An item or the outfit is gone, or another PUT has linked the same item: *)
(* IntegrityError, and the DELETE is rolled back with the INSERTs.         *)
PutCommitFails(h) ==
  /\ At(h, "put_commit")
  /\ \/ ~ParentsPresent(req[h].outfit, req[h].ids)
     \/ NewLinks(h) \cap Kept(h) # {}
  /\ Answer(h)
  /\ UnchangedDb

-----------------------------------------------------------------------------
(* DELETE /clothes/{id} and DELETE /outfits/{id}: the links go with the row, *)
(* by the cascade of the ORM or of the foreign key.                         *)

DeleteItemRead(h) ==
  /\ At(h, "delete_item")
  /\ IF OwnsItem(req[h].user, req[h].item) THEN Goto(h, "delete_item_commit") ELSE Answer(h)
  /\ UnchangedDb

DeleteItemCommit(h) ==
  /\ At(h, "delete_item_commit")
  /\ item' = [item EXCEPT ![req[h].item] = "deleted"]
  /\ links' = {l \in links : l[2] # req[h].item}
  /\ Answer(h)
  /\ UNCHANGED outfit

DeleteOutfitRead(h) ==
  /\ At(h, "delete_outfit")
  /\ IF OwnsOutfit(req[h].user, req[h].outfit)
     THEN Goto(h, "delete_outfit_commit")
     ELSE Answer(h)
  /\ UnchangedDb

DeleteOutfitCommit(h) ==
  /\ At(h, "delete_outfit_commit")
  /\ outfit' = [outfit EXCEPT ![req[h].outfit] = "deleted"]
  /\ links' = links \ LinksOf(req[h].outfit)
  /\ Answer(h)
  /\ UNCHANGED item

-----------------------------------------------------------------------------

(* The process stops and restarts: what was not committed is gone.         *)
Crash == /\ \E h \in Handlers : ~At(h, "idle")
         /\ Serve([h \in Handlers |-> Idle])
         /\ UnchangedDb

Step(h) == \/ Receive(h) \/ Get(h)
           \/ ReadRow(h) \/ ReadLinks(h) \/ ReadItems(h) \/ ReadItemsFails(h)
           \/ PatchOwned(h) \/ PatchCommit(h)
           \/ PutOwned(h) \/ PutCheckItems(h) \/ PutDelete(h)
           \/ PutCommit(h) \/ PutCommitFails(h)
           \/ DeleteItemRead(h) \/ DeleteItemCommit(h)
           \/ DeleteOutfitRead(h) \/ DeleteOutfitCommit(h)

Next == \/ \E h \in Handlers : Step(h)
        \/ \E i \in Items : CreateItem(i)
        \/ \E h \in Handlers, o \in Outfits : CreateOutfit(h, o)
        \/ Crash

Spec == Init /\ [][Next]_vars

-----------------------------------------------------------------------------

(* An outfit is made of items that exist and belong to its owner, whatever *)
(* is deleted while a PUT is between its check and its commit              *)
(* (outfits.py:158-176, clothes.py:173-174).                               *)
LinksValid ==
  \A l \in links : /\ outfit[l[1]] = "present"
                   /\ item[l[2]] = "present"
                   /\ ItemOwner[l[2]] = OutfitOwner[l[1]]

(* A PUT that is answered with success has made the outfit exactly what    *)
(* was asked for: "assert item_ids == {top_id, bottom_id}"                 *)
(* (api/tests/test_outfits.py:33).  The code keeps that promise to a PUT   *)
(* that no other PUT of its outfit overlaps, whatever else is deleted while *)
(* it runs (outfits.py:155-176); of two that overlap, the outfit may end    *)
(* with the items of both.                                                  *)
LonePutReplaces ==
  [][\A h \in Handlers \ crowded :
       PutCommit(h) => ItemsIn(links', req[h].outfit) = req[h].ids]_vars

(* ... and shows it: the answer is what was asked for but for items deleted *)
(* since, read anew and not what the session had loaded before the change   *)
(* (outfits.py:48-57, 178-179).  An outfit that is deleted between the      *)
(* first two statements is shown empty.                                     *)
LonePutShows ==
  [][\A h \in Handlers \ crowded :
       ReadItems(h) /\ req[h].op = "put" /\ outfit[req[h].outfit] = "present"
         => req[h].loaded = {i \in req[h].ids : item[i] = "present"}]_vars

(* The items of an outfit become at least those that a PUT asked for, or    *)
(* one fewer for an item that is deleted.                                   *)
WholePutOrDeletion(o) ==
  LET before == ItemsIn(links, o)
      after == ItemsIn(links', o) IN
  \/ \E h \in Handlers : PutCommit(h) /\ req[h].outfit = o /\ req[h].ids \subseteq after
  \/ \E i \in before : item'[i] = "deleted" /\ after = before \ {i}

(* An outfit that is there changes to nothing but a superset of what some  *)
(* PUT asked for, or loses an item that is deleted: a PUT never leaves the *)
(* outfit with its old links removed and some of the new ones missing, not *)
(* even by a crash or a failed commit (outfits.py:173-176).                *)
PutAllOrNothing ==
  [][\A o \in Outfits :
       outfit'[o] = "present" /\ ItemsIn(links', o) # ItemsIn(links, o)
         => WholePutOrDeletion(o)]_vars
=============================================================================
