--------------------------- MODULE OutfitsProofs ----------------------------
(***************************************************************************)
(* Theorems about Outfits, for any sets of users, items, outfits and        *)
(* requests in flight.                                                      *)
(***************************************************************************)
EXTENDS Outfits, TLAPS

Puts == {"put", "put_check", "put_delete", "put_commit"}
PastOwner == {"put_check", "put_delete", "put_commit"}
PastItems == {"put_delete", "put_commit"}
AsksItem == {"delete_item", "delete_item_commit"}
AsksOutfit == Puts \cup Reads \cup {"patch", "patch_commit", "delete_outfit",
                                    "delete_outfit_commit"}

USE DEF Puts, PastOwner, PastItems, AsksItem, AsksOutfit, Reads

(* What a handler that stands at pc may rely on, whatever the others write  *)
(* between two of its awaits.  That the items it asks for are there is not  *)
(* part of it: they may be deleted, and only who owns them cannot change.   *)
Holds(pc, q) ==
  /\ pc \in AsksOutfit => q.outfit \in Outfits
  /\ pc \in AsksItem => q.item \in Items
  /\ pc \in Puts => q.op = "put"
  /\ pc \in {"patch", "patch_commit"} => q.op = "patch"
  /\ pc \in PastOwner => OutfitOwner[q.outfit] = q.user
  /\ pc \in PastItems => \A i \in q.ids : ItemOwner[i] = q.user
  /\ pc = "put_commit" => \A l \in q.dropped : l[1] = q.outfit
  /\ pc \in Reads /\ q.op = "put"
       => outfit[q.outfit] # "absent" /\ \A i \in q.ids : item[i] # "absent"

RequestsWellFormed == \A h \in Handlers : Holds(req[h].pc, req[h])

WellFormed == TypeOK /\ RequestsWellFormed

TablesTyped == /\ item \in [Items -> RowStates]
               /\ outfit \in [Outfits -> RowStates]
               /\ links \subseteq Links

(* No id is drawn twice: a row that was inserted never becomes "absent".    *)
RowsStay == /\ \A i \in Items : item[i] # "absent" => item'[i] # "absent"
            /\ \A o \in Outfits : outfit[o] # "absent" => outfit'[o] # "absent"

TablesGrow == TablesTyped' /\ RowsStay

LEMMA InitWellFormed == Init => WellFormed
  BY DEF Init, WellFormed, TypeOK, RequestsWellFormed, Holds, RowStates, Links, Request,
         Ops, PCs, Idle, Asked

-----------------------------------------------------------------------------
(* What the handlers do to the tables ...                                   *)

LEMMA UnchangedDbGrows ==
  ASSUME WellFormed, UnchangedDb
  PROVE  TablesGrow
  BY DEF WellFormed, TypeOK, UnchangedDb, TablesGrow, TablesTyped, RowsStay

LEMMA PutCommitGrows ==
  ASSUME WellFormed, NEW h \in Handlers, PutCommit(h)
  PROVE  TablesGrow
  <1>1. req[h].outfit \in Outfits /\ req[h].ids \subseteq Items
    BY DEF PutCommit, At, WellFormed, TypeOK, RequestsWellFormed, Holds, Request
  <1>2. links' \subseteq Links
    BY <1>1 DEF PutCommit, Kept, NewLinks, Links, WellFormed, TypeOK
  <1>. QED
    BY <1>2 DEF PutCommit, WellFormed, TypeOK, TablesGrow, TablesTyped, RowsStay

LEMMA DeleteGrows ==
  ASSUME WellFormed, NEW h \in Handlers, DeleteItemCommit(h) \/ DeleteOutfitCommit(h)
  PROVE  TablesGrow
  <1> USE DEF TablesGrow, TablesTyped, RowsStay, RowStates
  <1>1. CASE DeleteItemCommit(h)
    BY <1>1 DEF DeleteItemCommit, WellFormed, TypeOK
  <1>2. CASE DeleteOutfitCommit(h)
    BY <1>2 DEF DeleteOutfitCommit, WellFormed, TypeOK
  <1>. QED  BY <1>1, <1>2

(* ... and to the requests.                                                 *)

(* One handler gets the request q, the others keep theirs.                  *)
LEMMA MoveWellFormed ==
  ASSUME WellFormed, TablesGrow, NEW h \in Handlers, NEW q \in Request, Holds(q.pc, q),
         Serve([req EXCEPT ![h] = q])
  PROVE  WellFormed'
  <1>1. /\ req' \in [Handlers -> Request]
        /\ crowded' \subseteq Handlers
        /\ \A g \in Handlers : req'[g] = IF g = h THEN q ELSE req[g]
    BY DEF Serve, Overlapped, WellFormed, TypeOK
  <1>2. ASSUME NEW g \in Handlers  PROVE Holds(req[g].pc, req[g])'
    <2>1. Holds(req'[g].pc, req'[g])
      BY <1>1 DEF WellFormed, RequestsWellFormed
    <2>. QED  BY <1>1, <2>1 DEF Holds, TablesGrow, RowsStay, Request
  <1>. QED  BY <1>1, <1>2 DEF WellFormed, TypeOK, TablesGrow, TablesTyped, RequestsWellFormed

LEMMA AnswerWellFormed ==
  ASSUME WellFormed, TablesGrow, NEW h \in Handlers, Answer(h)
  PROVE  WellFormed'
  <1>1. Idle \in Request /\ Holds(Idle.pc, Idle)
    BY DEF Idle, Asked, Request, Ops, PCs, Holds
  <1>. QED  BY <1>1, MoveWellFormed DEF Answer

(* Going on to a point that the handler has what it takes for.              *)
LEMMA GotoWellFormed ==
  ASSUME WellFormed, TablesGrow, NEW h \in Handlers, NEW pc \in PCs, Goto(h, pc),
         Holds(pc, req[h])
  PROVE  WellFormed'
  <1> DEFINE q == [req[h] EXCEPT !.pc = pc]
  <1>1. /\ q \in Request /\ q.pc = pc /\ q.op = req[h].op /\ q.outfit = req[h].outfit
        /\ q.item = req[h].item /\ q.user = req[h].user /\ q.ids = req[h].ids
        /\ q.dropped = req[h].dropped
    BY DEF WellFormed, TypeOK, Request
  <1>2. Holds(q.pc, q)
    BY <1>1 DEF Holds
  <1>3. Serve([req EXCEPT ![h] = q])
    BY DEF Goto, WellFormed, TypeOK
  <1>. QED  BY <1>1, <1>2, <1>3, MoveWellFormed

(* Going on with the links the session has loaded.                          *)
LEMMA LoadWellFormed ==
  ASSUME WellFormed, UnchangedDb, NEW h \in Handlers, NEW pc \in PCs \ {"put_commit"},
         NEW is \in SUBSET Items, Holds(pc, req[h]),
         Serve([req EXCEPT ![h].pc = pc, ![h].loaded = is])
  PROVE  WellFormed'
  <1> DEFINE q == [req[h] EXCEPT !.pc = pc, !.loaded = is]
  <1>1. /\ q \in Request /\ q.pc = pc /\ q.op = req[h].op /\ q.outfit = req[h].outfit
        /\ q.item = req[h].item /\ q.user = req[h].user /\ q.ids = req[h].ids
        /\ q.dropped = req[h].dropped
    BY DEF WellFormed, TypeOK, Request
  <1>2. Holds(q.pc, q)
    BY <1>1 DEF Holds
  <1>3. [req EXCEPT ![h].pc = pc, ![h].loaded = is] = [req EXCEPT ![h] = q]
    BY DEF WellFormed, TypeOK
  <1>. QED  BY <1>1, <1>2, <1>3, UnchangedDbGrows, MoveWellFormed

LEMMA RejectWellFormed ==
  ASSUME WellFormed, NEW h \in Handlers, Answer(h), UnchangedDb
  PROVE  WellFormed'
  BY AnswerWellFormed, UnchangedDbGrows

-----------------------------------------------------------------------------
(* One lemma per request, then the step of Next.                            *)

(* A request that arrives, with what is known of it.                        *)
LEMMA AskWellFormed ==
  ASSUME WellFormed, TablesGrow, NEW h \in Handlers,
         NEW op \in Ops, NEW pc \in PCs, NEW u \in Users \cup {None},
         NEW o \in Outfits \cup {None}, NEW i \in Items \cup {None}, NEW ids \in SUBSET Items,
         \/ op = "put" /\ pc = op /\ o \in Outfits
         \/ op = "delete_item" /\ pc = op /\ i \in Items
         \/ op \in {"delete_outfit", "patch"} /\ pc = op /\ o \in Outfits
         \/ op \in {"create", "get"} /\ pc = "read_row" /\ o \in Outfits,
         NEW q, q = [Asked(op, u, o, i, ids) EXCEPT !.pc = pc],
         Serve([req EXCEPT ![h] = q])
  PROVE  WellFormed'
  <1> DEFINE r == [op |-> op, pc |-> pc, user |-> u, outfit |-> o, item |-> i, ids |-> ids,
                   dropped |-> {}, loaded |-> {}]
  <1>1. r \in Request
    BY DEF Request
  <1>2. q = r
    BY DEF Asked
  <1>3. r.op = op /\ r.pc = pc /\ r.outfit = o /\ r.item = i
    OBVIOUS
  <1> HIDE DEF r
  <1>4. Holds(r.pc, r)
    BY <1>3 DEF Holds
  <1>. QED  BY <1>1, <1>2, <1>4, MoveWellFormed

LEMMA ReceiveWellFormed ==
  ASSUME WellFormed, NEW h \in Handlers, Receive(h)
  PROVE  WellFormed'
  <1>1. PICK u \in Users :
          \/ \E o \in Outfits, ids \in SUBSET Items :
               Serve([req EXCEPT ![h] = Asked("put", u, o, None, ids)])
          \/ \E i \in Items :
               Serve([req EXCEPT ![h] = Asked("delete_item", u, None, i, {})])
          \/ \E o \in Outfits, op \in {"delete_outfit", "patch"} :
               Serve([req EXCEPT ![h] = Asked(op, u, o, None, {})])
    BY DEF Receive
  <1>2. TablesGrow
    BY UnchangedDbGrows DEF Receive
  <1> USE DEF Ops, PCs
  <1>3. ASSUME NEW o \in Outfits, NEW ids \in SUBSET Items,
               Serve([req EXCEPT ![h] = Asked("put", u, o, None, ids)])
        PROVE  WellFormed'
    <2>1. Asked("put", u, o, None, ids) = [Asked("put", u, o, None, ids) EXCEPT !.pc = "put"]
      BY DEF Asked
    <2>. QED  BY <1>2, <1>3, <2>1, AskWellFormed
  <1>4. ASSUME NEW i \in Items, Serve([req EXCEPT ![h] = Asked("delete_item", u, None, i, {})])
        PROVE  WellFormed'
    <2>1. Asked("delete_item", u, None, i, {})
            = [Asked("delete_item", u, None, i, {}) EXCEPT !.pc = "delete_item"]
      BY DEF Asked
    <2>. QED  BY <1>2, <1>4, <2>1, AskWellFormed
  <1>5. ASSUME NEW o \in Outfits, NEW op \in {"delete_outfit", "patch"},
               Serve([req EXCEPT ![h] = Asked(op, u, o, None, {})])
        PROVE  WellFormed'
    <2>1. Asked(op, u, o, None, {}) = [Asked(op, u, o, None, {}) EXCEPT !.pc = op]
      BY DEF Asked
    <2>. QED  BY <1>2, <1>5, <2>1, AskWellFormed
  <1>. QED  BY <1>1, <1>3, <1>4, <1>5

LEMMA CreateWellFormed ==
  ASSUME WellFormed,
         \/ \E i \in Items : CreateItem(i)
         \/ \E h \in Handlers, o \in Outfits : CreateOutfit(h, o)
  PROVE  WellFormed'
  <1>1. ASSUME NEW i \in Items, CreateItem(i)  PROVE WellFormed'
    BY <1>1 DEF CreateItem, WellFormed, TypeOK, RowStates, RequestsWellFormed, Holds, Request
  <1>2. ASSUME NEW h \in Handlers, NEW o \in Outfits, CreateOutfit(h, o)  PROVE WellFormed'
    <2>1. TablesGrow
      BY <1>2 DEF CreateOutfit, WellFormed, TypeOK, TablesGrow, TablesTyped, RowsStay, RowStates
    <2>2. OutfitOwner[o] \in Users
      BY OutfitsAssumption
    <2>. QED  BY <1>2, <2>1, <2>2, AskWellFormed DEF CreateOutfit, Ops, PCs
  <1>. QED  BY <1>1, <1>2

LEMMA ReadWellFormed ==
  ASSUME WellFormed, NEW h \in Handlers,
         Get(h) \/ ReadRow(h) \/ ReadLinks(h) \/ ReadItems(h) \/ ReadItemsFails(h)
  PROVE  WellFormed'
  <1>1. CASE Get(h)
    BY <1>1, UnchangedDbGrows, AskWellFormed DEF Get, Ops, PCs
  <1>2. CASE ReadRow(h)
    <2>1. Holds("read_links", req[h])
      BY <1>2 DEF ReadRow, At, WellFormed, RequestsWellFormed, Holds
    <2>. QED
      BY <1>2, <2>1, RejectWellFormed, UnchangedDbGrows, GotoWellFormed DEF ReadRow, PCs
  <1>3. CASE ReadLinks(h)
    <2>1. Holds("read_items", req[h])
      BY <1>3 DEF ReadLinks, At, WellFormed, RequestsWellFormed, Holds
    <2>2. ItemsIn(links, req[h].outfit) \in SUBSET Items
      BY DEF ItemsIn
    <2>. QED  BY <1>3, <2>1, <2>2, LoadWellFormed DEF ReadLinks, PCs
  <1>4. CASE ReadItems(h) \/ ReadItemsFails(h)
    BY <1>4, RejectWellFormed DEF ReadItems, ReadItemsFails
  <1>. QED  BY <1>1, <1>2, <1>3, <1>4

LEMMA PatchWellFormed ==
  ASSUME WellFormed, NEW h \in Handlers, PatchOwned(h) \/ PatchCommit(h)
  PROVE  WellFormed'
  <1>1. CASE PatchOwned(h)
    <2>1. Holds("patch_commit", req[h])
      BY <1>1 DEF PatchOwned, At, WellFormed, RequestsWellFormed, Holds
    <2>2. ItemsIn(links, req[h].outfit) \in SUBSET Items
      BY DEF ItemsIn
    <2>. QED  BY <1>1, <2>1, <2>2, RejectWellFormed, LoadWellFormed DEF PatchOwned, PCs
  <1>2. CASE PatchCommit(h)
    <2>1. CASE Goto(h, "read_row")
      <3>1. Holds("read_row", req[h])
        BY <1>2 DEF PatchCommit, At, WellFormed, RequestsWellFormed, Holds
      <3>. QED  BY <1>2, <2>1, <3>1, UnchangedDbGrows, GotoWellFormed DEF PatchCommit, PCs
    <2>2. CASE Answer(h)
      BY <1>2, <2>2, RejectWellFormed DEF PatchCommit
    <2>. QED  BY <1>2, <2>1, <2>2 DEF PatchCommit
  <1>. QED  BY <1>1, <1>2

LEMMA PutWellFormed ==
  ASSUME WellFormed, NEW h \in Handlers,
         \/ PutOwned(h) \/ PutCheckItems(h) \/ PutDelete(h)
         \/ PutCommit(h) \/ PutCommitFails(h)
  PROVE  WellFormed'
  <1>1. Holds(req[h].pc, req[h])
    BY DEF WellFormed, RequestsWellFormed
  <1>2. CASE PutOwned(h)
    <2>1. CASE OwnsOutfit(req[h].user, req[h].outfit)
      <3>1. Holds("put_check", req[h]) /\ ItemsIn(links, req[h].outfit) \in SUBSET Items
        BY <1>1, <1>2, <2>1 DEF PutOwned, At, OwnsOutfit, Holds, ItemsIn
      <3>. QED  BY <1>2, <2>1, <3>1, LoadWellFormed DEF PutOwned, PCs
    <2>2. CASE ~OwnsOutfit(req[h].user, req[h].outfit)
      BY <1>2, <2>2, RejectWellFormed DEF PutOwned
    <2>. QED  BY <2>1, <2>2
  <1>3. CASE PutCheckItems(h)
    <2>1. CASE AllOwned(req[h].user, req[h].ids)
      <3>1. Holds("put_delete", req[h])
        BY <1>1, <1>3, <2>1 DEF PutCheckItems, At, AllOwned, OwnsItem, Holds
      <3>. QED  BY <1>3, <2>1, <3>1, UnchangedDbGrows, GotoWellFormed DEF PutCheckItems, PCs
    <2>2. CASE ~AllOwned(req[h].user, req[h].ids)
      BY <1>3, <2>2, RejectWellFormed DEF PutCheckItems
    <2>. QED  BY <2>1, <2>2
  <1>4. CASE PutDelete(h)
    <2> DEFINE ls == LinksOf(req[h].outfit)
               q == [req[h] EXCEPT !.pc = "put_commit", !.dropped = ls]
    <2>1. ls \in SUBSET Links /\ \A l \in ls : l[1] = req[h].outfit
      BY DEF LinksOf, WellFormed, TypeOK
    <2> HIDE DEF ls
    <2>2. /\ q \in Request /\ q.pc = "put_commit" /\ q.op = req[h].op
          /\ q.outfit = req[h].outfit /\ q.user = req[h].user /\ q.ids = req[h].ids
          /\ q.dropped = ls
      BY <2>1 DEF WellFormed, TypeOK, Request, PCs
    <2>3. Holds(q.pc, q)
      BY <1>1, <1>4, <2>1, <2>2 DEF PutDelete, At, Holds
    <2>4. [req EXCEPT ![h].pc = "put_commit", ![h].dropped = ls] = [req EXCEPT ![h] = q]
      BY DEF WellFormed, TypeOK
    <2>5. Serve([req EXCEPT ![h] = q]) /\ UnchangedDb
      BY <1>4, <2>4 DEF PutDelete, ls
    <2> HIDE DEF q
    <2>. QED  BY <2>2, <2>3, <2>5, UnchangedDbGrows, MoveWellFormed
  <1>5. CASE PutCommit(h)
    <2>1. Holds("read_row", req[h])
      BY <1>1, <1>5 DEF PutCommit, ParentsPresent, At, Holds
    <2>. QED  BY <1>5, <2>1, PutCommitGrows, GotoWellFormed DEF PutCommit, PCs
  <1>6. CASE PutCommitFails(h)
    BY <1>6, RejectWellFormed DEF PutCommitFails
  <1>. QED  BY <1>2, <1>3, <1>4, <1>5, <1>6

LEMMA DeleteWellFormed ==
  ASSUME WellFormed, NEW h \in Handlers,
         \/ DeleteItemRead(h) \/ DeleteItemCommit(h)
         \/ DeleteOutfitRead(h) \/ DeleteOutfitCommit(h)
  PROVE  WellFormed'
  <1>1. CASE DeleteItemRead(h) \/ DeleteOutfitRead(h)
    <2>1. UnchangedDb
      BY <1>1 DEF DeleteItemRead, DeleteOutfitRead
    <2>2. CASE Answer(h)
      BY <2>1, <2>2, RejectWellFormed
    <2>3. CASE DeleteItemRead(h) /\ Goto(h, "delete_item_commit")
      <3>1. Holds("delete_item_commit", req[h])
        BY <2>3 DEF DeleteItemRead, At, WellFormed, RequestsWellFormed, Holds
      <3>. QED  BY <2>1, <2>3, <3>1, UnchangedDbGrows, GotoWellFormed DEF PCs
    <2>4. CASE DeleteOutfitRead(h) /\ Goto(h, "delete_outfit_commit")
      <3>1. Holds("delete_outfit_commit", req[h])
        BY <2>4 DEF DeleteOutfitRead, At, WellFormed, RequestsWellFormed, Holds
      <3>. QED  BY <2>1, <2>4, <3>1, UnchangedDbGrows, GotoWellFormed DEF PCs
    <2>. QED  BY <1>1, <2>2, <2>3, <2>4 DEF DeleteItemRead, DeleteOutfitRead
  <1>2. CASE DeleteItemCommit(h) \/ DeleteOutfitCommit(h)
    BY <1>2, DeleteGrows, AnswerWellFormed DEF DeleteItemCommit, DeleteOutfitCommit
  <1>. QED  BY <1>1, <1>2

LEMMA RestartWellFormed ==
  ASSUME WellFormed, Crash \/ UNCHANGED vars
  PROVE  WellFormed'
  <1>1. CASE Crash
    <2>1. /\ UnchangedDb /\ crowded' \subseteq Handlers
          /\ req' = [h \in Handlers |-> Idle]
      BY <1>1 DEF Crash, Serve, Overlapped, WellFormed, TypeOK
    <2>2. Idle \in Request /\ Idle.pc = "idle"
      BY DEF Idle, Asked, Request, Ops, PCs
    <2>. QED
      BY <2>1, <2>2 DEF UnchangedDb, WellFormed, TypeOK, RequestsWellFormed, Holds
  <1>2. CASE UNCHANGED vars
    BY <1>2 DEF vars, WellFormed, TypeOK, RequestsWellFormed, Holds
  <1>. QED  BY <1>1, <1>2

LEMMA NextWellFormed == WellFormed /\ [Next]_vars => WellFormed'
  <1> SUFFICES ASSUME WellFormed, [Next]_vars  PROVE WellFormed'
    OBVIOUS
  <1>1. ASSUME NEW h \in Handlers, Step(h)  PROVE WellFormed'
    BY <1>1, ReceiveWellFormed, ReadWellFormed, PatchWellFormed, PutWellFormed,
       DeleteWellFormed DEF Step
  <1>. QED  BY <1>1, CreateWellFormed, RestartWellFormed DEF Next

(* What every handler relies on between two awaits holds in every state.   *)
THEOREM AlwaysWellFormed == Spec => []WellFormed
  <1>. QED  BY InitWellFormed, NextWellFormed, PTL DEF Spec

(* Every variable keeps its type, with any number of users and requests.   *)
THEOREM TypeCorrect == Spec => []TypeOK
  <1>1. WellFormed => TypeOK
    BY DEF WellFormed
  <1>. QED  BY <1>1, AlwaysWellFormed, PTL

-----------------------------------------------------------------------------
(* What a step does to the tables, whoever takes it.                        *)

(* No row is written but those whose ids have not been drawn.               *)
Creates == /\ UNCHANGED links
           /\ \A i \in Items : item[i] # "absent" => item'[i] = item[i]
           /\ \A o \in Outfits : outfit[o] # "absent" => outfit'[o] = outfit[o]

Writes(h) == PutCommit(h) \/ DeleteItemCommit(h) \/ DeleteOutfitCommit(h)

LEMMA NextWrites ==
  ASSUME WellFormed, [Next]_vars
  PROVE  Creates \/ \E h \in Handlers : Writes(h)
  <1>1. ASSUME NEW h \in Handlers, Step(h), ~Writes(h)  PROVE Creates
    BY <1>1 DEF Step, Writes, Creates, Receive, Get, ReadRow, ReadLinks, ReadItems,
       ReadItemsFails, PatchOwned, PatchCommit, PutOwned, PutCheckItems, PutDelete,
       PutCommitFails, DeleteItemRead, DeleteOutfitRead, UnchangedDb
  <1>2. CASE \/ \E i \in Items : CreateItem(i)
             \/ \E h \in Handlers, o \in Outfits : CreateOutfit(h, o)
    BY <1>2 DEF CreateItem, CreateOutfit, Creates, WellFormed, TypeOK
  <1>3. CASE Crash \/ UNCHANGED vars
    BY <1>3 DEF Crash, UnchangedDb, vars, Creates
  <1>. QED  BY <1>1, <1>2, <1>3 DEF Next

LEMMA LinkPair ==
  ASSUME TypeOK, NEW l \in links
  PROVE  l[1] \in Outfits /\ l[2] \in Items /\ l = <<l[1], l[2]>>
  BY DEF TypeOK, Links

-----------------------------------------------------------------------------

(* An outfit only has items that exist and are its owner's: a PUT relies    *)
(* on its check for the owner, and on the foreign keys for the rest.        *)
THEOREM LinksValidTheorem == Spec => []LinksValid
  <1>1. Init => LinksValid
    BY DEF Init, LinksValid
  <1>2. WellFormed /\ LinksValid /\ [Next]_vars => LinksValid'
    <2> SUFFICES ASSUME WellFormed, LinksValid, [Next]_vars  PROVE LinksValid'
      OBVIOUS
    <2>1. \A l \in links : l[1] \in Outfits /\ l[2] \in Items
      BY LinkPair DEF WellFormed
    <2>2. CASE Creates
      BY <2>1, <2>2 DEF Creates, LinksValid
    <2>3. ASSUME NEW h \in Handlers, PutCommit(h)  PROVE LinksValid'
      <3>1. /\ \A i \in req[h].ids : ItemOwner[i] = req[h].user
            /\ OutfitOwner[req[h].outfit] = req[h].user
        BY <2>3 DEF PutCommit, At, WellFormed, RequestsWellFormed, Holds
      <3>2. ASSUME NEW l \in NewLinks(h)
            PROVE  l[1] = req[h].outfit /\ l[2] \in req[h].ids
        BY DEF NewLinks
      <3>. QED
        BY <2>3, <3>1, <3>2 DEF PutCommit, ParentsPresent, Kept, LinksValid
    <2>4. ASSUME NEW h \in Handlers, DeleteItemCommit(h)  PROVE LinksValid'
      BY <2>1, <2>4 DEF DeleteItemCommit, LinksValid, WellFormed, TypeOK
    <2>5. ASSUME NEW h \in Handlers, DeleteOutfitCommit(h)  PROVE LinksValid'
      BY <2>1, <2>5 DEF DeleteOutfitCommit, LinksOf, LinksValid, WellFormed, TypeOK
    <2>. QED  BY <2>2, <2>3, <2>4, <2>5, NextWrites DEF Writes
  <1>. QED  BY <1>1, <1>2, AlwaysWellFormed, PTL DEF Spec

-----------------------------------------------------------------------------
(* What the writes do to the items of an outfit.                            *)

LEMMA PutCommitItems ==
  ASSUME WellFormed, NEW h \in Handlers, PutCommit(h)
  PROVE  /\ ItemsIn(links', req[h].outfit)
              = ItemsIn(Kept(h), req[h].outfit) \cup req[h].ids
         /\ \A o \in Outfits \ {req[h].outfit} : ItemsIn(links', o) = ItemsIn(links, o)
  <1>1. /\ req[h].outfit \in Outfits /\ req[h].ids \subseteq Items
        /\ \A l \in req[h].dropped : l[1] = req[h].outfit
    BY DEF PutCommit, At, WellFormed, TypeOK, RequestsWellFormed, Holds, Request
  <1>2. ASSUME NEW o, NEW i \in Items
        PROVE  <<o, i>> \in NewLinks(h) <=> o = req[h].outfit /\ i \in req[h].ids
    BY DEF NewLinks
  <1>3. ASSUME NEW o \in Outfits \ {req[h].outfit}, NEW i \in Items
        PROVE  <<o, i>> \in Kept(h) <=> <<o, i>> \in links
    BY <1>1 DEF Kept
  <1>. QED  BY <1>1, <1>2, <1>3 DEF PutCommit, ItemsIn

LEMMA DeleteItems ==
  ASSUME NEW h \in Handlers
  PROVE  /\ DeleteItemCommit(h)
              => \A o \in Outfits : ItemsIn(links', o) = ItemsIn(links, o) \ {req[h].item}
         /\ DeleteOutfitCommit(h)
              => \A o \in Outfits \ {req[h].outfit} : ItemsIn(links', o) = ItemsIn(links, o)
  BY DEF DeleteItemCommit, DeleteOutfitCommit, LinksOf, ItemsIn

(* An outfit that stays is changed by nothing but a whole PUT or the        *)
(* deletion of one of its items.                                            *)
THEOREM PutAllOrNothingTheorem == Spec => PutAllOrNothing
  <1>1. WellFormed /\ [Next]_vars
          => [\A o \in Outfits :
                outfit'[o] = "present" /\ ItemsIn(links', o) # ItemsIn(links, o)
                  => WholePutOrDeletion(o)]_vars
    <2> SUFFICES ASSUME WellFormed, [Next]_vars, NEW o \in Outfits,
                        outfit'[o] = "present", ItemsIn(links', o) # ItemsIn(links, o)
                 PROVE  WholePutOrDeletion(o)
      OBVIOUS
    <2>1. PICK h \in Handlers : Writes(h)
      BY NextWrites DEF Creates
    <2>2. CASE PutCommit(h)
      BY <2>2, PutCommitItems DEF WholePutOrDeletion
    <2>3. CASE DeleteItemCommit(h)
      <3>1. ItemsIn(links', o) = ItemsIn(links, o) \ {req[h].item}
        BY <2>3, DeleteItems
      <3>2. req[h].item \in ItemsIn(links, o)
        BY <3>1
      <3>3. item'[req[h].item] = "deleted"
        BY <2>3, <3>2 DEF DeleteItemCommit, ItemsIn, WellFormed, TypeOK
      <3>. QED  BY <3>1, <3>2, <3>3 DEF WholePutOrDeletion
    <2>4. ~DeleteOutfitCommit(h)
      BY DeleteItems DEF DeleteOutfitCommit, WellFormed, TypeOK
    <2>. QED  BY <2>1, <2>2, <2>3, <2>4 DEF Writes
  <1>. QED  BY <1>1, AlwaysWellFormed, PTL DEF Spec, PutAllOrNothing

-----------------------------------------------------------------------------
(* A PUT that no other PUT of its outfit overlaps.                          *)

PutInFlight(h) == Putting(req, h) \/ (req[h].op = "put" /\ req[h].pc \in Reads)

(* No overlap has escaped the history.                                      *)
CrowdedKnown ==
  \A g, h \in Handlers :
    g # h /\ req[g].outfit = req[h].outfit /\ Putting(req, g) /\ PutInFlight(h)
      => h \in crowded

Wanted(h) == {i \in req[h].ids : item[i] = "present"}

(* What the transaction deletes stays all there is to delete; once it is    *)
(* committed the outfit stays what was asked for, but for the items that    *)
(* are deleted; and so does what has been loaded.                           *)
OnCourse(h) ==
  /\ At(h, "put_commit") => LinksOf(req[h].outfit) \subseteq req[h].dropped
  /\ req[h].pc \in {"read_row", "read_links"} /\ outfit[req[h].outfit] = "present"
       => ItemsIn(links, req[h].outfit) = Wanted(h)
  /\ At(h, "read_items") /\ outfit[req[h].outfit] = "present"
       => Wanted(h) \subseteq req[h].loaded /\ req[h].loaded \subseteq req[h].ids

LonePutOnCourse == \A h \in Handlers \ crowded : req[h].op = "put" => OnCourse(h)

LoneInv == WellFormed /\ LinksValid /\ CrowdedKnown /\ LonePutOnCourse

LEMMA ServeNotes ==
  ASSUME TypeOK, NEW r, Serve(r)
  PROVE  /\ CrowdedKnown'
         /\ \A h \in Handlers \ crowded' : PutInFlight(h)' => h \notin crowded
  BY DEF TypeOK, Serve, Overlapped, CrowdedKnown, PutInFlight, Putting

(* Every step is served, and so noted, or leaves the requests alone.        *)
LEMMA NextNotes ==
  ASSUME TypeOK, CrowdedKnown, [Next]_vars
  PROVE  /\ CrowdedKnown'
         /\ \A h \in Handlers \ crowded' : PutInFlight(h)' => h \notin crowded
  <1>1. (\E r : Serve(r)) \/ UNCHANGED <<req, crowded>>
    <2>1. ASSUME NEW h \in Handlers, Step(h)  PROVE \E r : Serve(r)
      BY <2>1 DEF Step, Receive, Get, ReadRow, ReadLinks, ReadItems, ReadItemsFails,
         PatchOwned, PatchCommit, PutOwned, PutCheckItems, PutDelete, PutCommit,
         PutCommitFails, DeleteItemRead, DeleteItemCommit, DeleteOutfitRead,
         DeleteOutfitCommit, Goto, Answer
    <2>. QED  BY <2>1 DEF Next, CreateItem, CreateOutfit, Crash, vars
  <1>2. CASE UNCHANGED <<req, crowded>>
    BY <1>2 DEF CrowdedKnown, PutInFlight, Putting
  <1>. QED  BY <1>1, <1>2, ServeNotes

(* A handler is left alone, takes the step itself, or serves no PUT after.  *)
LEMMA OneMoves ==
  ASSUME WellFormed, [Next]_vars, NEW h \in Handlers
  PROVE  req'[h] = req[h] \/ Step(h) \/ req'[h].op # "put"
  <1>1. ASSUME NEW g \in Handlers \ {h}, Step(g)  PROVE req'[h] = req[h]
    BY <1>1 DEF Step, Receive, Get, ReadRow, ReadLinks, ReadItems, ReadItemsFails,
       PatchOwned, PatchCommit, PutOwned, PutCheckItems, PutDelete, PutCommit,
       PutCommitFails, DeleteItemRead, DeleteItemCommit, DeleteOutfitRead,
       DeleteOutfitCommit, Goto, Answer, Serve, WellFormed, TypeOK
  <1>2. ASSUME NEW g \in Handlers, NEW o \in Outfits, CreateOutfit(g, o)
        PROVE  req'[h] = req[h] \/ req'[h].op # "put"
    BY <1>2 DEF CreateOutfit, Serve, Asked, WellFormed, TypeOK
  <1>3. CASE Crash
    BY <1>3 DEF Crash, Serve, Idle, Asked
  <1>4. CASE (\E i \in Items : CreateItem(i)) \/ UNCHANGED vars
    BY <1>4 DEF CreateItem, vars
  <1>. QED  BY <1>1, <1>2, <1>3, <1>4 DEF Next

(* What the others do to a PUT they do not overlap.                         *)
LEMMA OthersKeepCourse ==
  ASSUME LoneInv, [Next]_vars, NEW h \in Handlers \ crowded',
         req'[h] = req[h], req[h].op = "put"
  PROVE  OnCourse(h)'
  <1> DEFINE o == req[h].outfit
  <1> SUFFICES ASSUME PutInFlight(h)  PROVE OnCourse(h)'
    BY DEF OnCourse, PutInFlight, Putting, At
  <1>1. OnCourse(h) /\ h \notin crowded
    BY NextNotes DEF LoneInv, WellFormed, LonePutOnCourse, PutInFlight, Putting
  <1>2. o \in Outfits /\ req[h].ids \subseteq Items
    BY DEF LoneInv, WellFormed, TypeOK, RequestsWellFormed, Holds, PutInFlight, Putting, Request
  <1>3. CASE Creates
    <2>1. At(h, "put_commit") => LinksOf(o)' \subseteq req[h].dropped
      BY <1>1, <1>3 DEF Creates, OnCourse, LinksOf
    <2>2. req[h].pc \in Reads => outfit'[o] = outfit[o] /\ Wanted(h)' = Wanted(h)
      BY <1>2, <1>3 DEF Creates, LoneInv, WellFormed, RequestsWellFormed, Holds, Wanted
    <2>3. ItemsIn(links', o) = ItemsIn(links, o)
      BY <1>3 DEF Creates
    <2>. QED  BY <1>1, <2>1, <2>2, <2>3 DEF OnCourse, At, LinksOf, ItemsIn
  <1>4. ASSUME NEW g \in Handlers, PutCommit(g)  PROVE OnCourse(h)'
    <2>1. g # h
      BY <1>4 DEF PutCommit, Goto, Serve, At, LoneInv, WellFormed, TypeOK, Request
    <2>2. req[g].outfit # o
      BY <1>1, <1>4, <2>1 DEF LoneInv, CrowdedKnown, PutCommit, At, Putting
    <2>3. ItemsIn(links', o) = ItemsIn(links, o)
      BY <1>2, <1>4, <2>2, PutCommitItems DEF LoneInv
    <2>4. \A l \in NewLinks(g) : l[1] = req[g].outfit
      BY DEF NewLinks
    <2>5. LinksOf(o)' \subseteq LinksOf(o)
      BY <1>4, <2>2, <2>4 DEF PutCommit, Kept, LinksOf
    <2>6. item' = item /\ outfit' = outfit
      BY <1>4 DEF PutCommit
    <2>. QED  BY <1>1, <2>3, <2>5, <2>6 DEF OnCourse, At, LinksOf, ItemsIn, Wanted
  <1>5. ASSUME NEW g \in Handlers, DeleteItemCommit(g)  PROVE OnCourse(h)'
    <2>1. LinksOf(o)' \subseteq LinksOf(o) /\ outfit' = outfit
      BY <1>5 DEF DeleteItemCommit, LinksOf
    <2>2. ItemsIn(links', o) = ItemsIn(links, o) \ {req[g].item}
      BY <1>2, <1>5, DeleteItems
    <2>3. Wanted(h)' = Wanted(h) \ {req[g].item}
      BY <1>2, <1>5 DEF DeleteItemCommit, Wanted, LoneInv, WellFormed, TypeOK
    <2>. QED  BY <1>1, <2>1, <2>2, <2>3 DEF OnCourse, At, LinksOf, ItemsIn
  <1>6. ASSUME NEW g \in Handlers, DeleteOutfitCommit(g)  PROVE OnCourse(h)'
    <2>1. LinksOf(o)' \subseteq LinksOf(o) /\ item' = item
      BY <1>6 DEF DeleteOutfitCommit, LinksOf
    <2>2. \/ outfit'[o] = "deleted"
          \/ outfit'[o] = outfit[o] /\ ItemsIn(links', o) = ItemsIn(links, o)
      BY <1>2, <1>6, DeleteItems DEF DeleteOutfitCommit, LoneInv, WellFormed, TypeOK
    <2>. QED  BY <1>1, <2>1, <2>2 DEF OnCourse, At, LinksOf, ItemsIn, Wanted
  <1>. QED  BY <1>3, <1>4, <1>5, <1>6, NextWrites DEF LoneInv, Writes

(* What the handler of the PUT does itself.                                 *)
LEMMA OwnStepKeepsCourse ==
  ASSUME LoneInv, [Next]_vars, NEW h \in Handlers \ crowded', Step(h), req'[h].op = "put"
  PROVE  OnCourse(h)'
  <1> DEFINE o == req[h].outfit
  <1> USE DEF LoneInv, WellFormed, TypeOK
  <1>1. PutInFlight(h)' => h \notin crowded
    BY NextNotes
  <1>2. CASE ReadRow(h)
    <2>1. /\ req' = [req EXCEPT ![h].pc = "read_links"] /\ outfit[o] = "present" /\ UnchangedDb
          /\ At(h, "read_row")
      BY <1>2 DEF ReadRow, Goto, Answer, Serve, Idle, Asked
    <2>2. /\ req'[h].pc = "read_links" /\ req'[h].op = req[h].op /\ req'[h].outfit = o
          /\ req'[h].ids = req[h].ids
      BY <2>1 DEF Request
    <2>3. ItemsIn(links, o) = Wanted(h)
      BY <1>1, <2>1, <2>2 DEF PutInFlight, LonePutOnCourse, OnCourse, At
    <2>. QED  BY <2>1, <2>2, <2>3 DEF UnchangedDb, OnCourse, At, ItemsIn, Wanted
  <1>3. CASE ReadLinks(h)
    <2> DEFINE is == ItemsIn(links, o)
    <2>1. req' = [req EXCEPT ![h].pc = "read_items", ![h].loaded = is] /\ UnchangedDb
          /\ At(h, "read_links")
      BY <1>3 DEF ReadLinks, Serve
    <2> HIDE DEF is
    <2>2. /\ req'[h].pc = "read_items" /\ req'[h].op = req[h].op /\ req'[h].outfit = o
          /\ req'[h].ids = req[h].ids /\ req'[h].loaded = is
      BY <2>1 DEF Request
    <2>3. outfit[o] = "present" => is = Wanted(h)
      BY <1>1, <2>1, <2>2 DEF PutInFlight, LonePutOnCourse, OnCourse, At, is
    <2>. QED  BY <2>1, <2>2, <2>3 DEF UnchangedDb, OnCourse, At, Wanted
  <1>4. CASE PutDelete(h)
    <2> DEFINE ls == LinksOf(o)
    <2>1. req' = [req EXCEPT ![h].pc = "put_commit", ![h].dropped = ls] /\ UnchangedDb
      BY <1>4 DEF PutDelete, Serve
    <2> HIDE DEF ls
    <2>2. req'[h].pc = "put_commit" /\ req'[h].outfit = o /\ req'[h].dropped = ls
      BY <2>1 DEF Request
    <2>. QED  BY <2>1, <2>2 DEF UnchangedDb, OnCourse, At, LinksOf, ls
  <1>5. CASE PutCommit(h)
    <2>1. /\ req' = [req EXCEPT ![h].pc = "read_row"] /\ At(h, "put_commit")
          /\ item' = item /\ ParentsPresent(o, req[h].ids)
      BY <1>5 DEF PutCommit, Goto, Serve
    <2>2. /\ req'[h].pc = "read_row" /\ req'[h].op = req[h].op /\ req'[h].outfit = o
          /\ req'[h].ids = req[h].ids
      BY <2>1 DEF Request
    <2>3. LinksOf(o) \subseteq req[h].dropped
      BY <1>1, <2>1, <2>2 DEF PutInFlight, LonePutOnCourse, OnCourse
    <2>4. ItemsIn(Kept(h), o) = {}
      BY <2>3 DEF ItemsIn, Kept, LinksOf
    <2>5. ItemsIn(links', o) = req[h].ids
      BY <1>5, <2>4, PutCommitItems
    <2>6. Wanted(h)' = req[h].ids
      BY <2>1, <2>2 DEF Wanted, ParentsPresent
    <2>. QED  BY <2>2, <2>5, <2>6 DEF OnCourse, At, ItemsIn
  <1>6. CASE req'[h].pc \notin {"read_row", "read_links", "read_items", "put_commit"}
    BY <1>6 DEF OnCourse, At
  <1>7. ASSUME NEW pc, Goto(h, pc)
        PROVE  req'[h].pc = pc /\ req'[h].op = req[h].op
    BY <1>7 DEF Goto, Serve, Request
  <1>8. CASE Answer(h)
    BY <1>6, <1>8 DEF Answer, Serve, Idle, Asked
  <1>9. CASE Receive(h)
    <2>1. PICK op \in {"put", "delete_item", "delete_outfit", "patch"}, u \in Users,
               p \in Outfits \cup {None}, i \in Items \cup {None}, ids \in SUBSET Items :
            req' = [req EXCEPT ![h] = Asked(op, u, p, i, ids)]
      <3>1. {} \in SUBSET Items
        OBVIOUS
      <3>. QED  BY <1>9, <3>1, Zenon DEF Receive, Serve
    <2>2. req'[h].pc = op
      BY <2>1 DEF Asked
    <2>. QED  BY <1>6, <2>2
  <1>10. CASE Get(h)
    BY <1>10 DEF Get, Serve, Asked
  <1>11. CASE PatchCommit(h)
    <2>1. req[h].op = "patch"
      BY <1>11 DEF PatchCommit, At, RequestsWellFormed, Holds
    <2>. QED  BY <1>7, <1>8, <1>11, <2>1 DEF PatchCommit
  <1>12. CASE PatchOwned(h) \/ PutOwned(h)
    <2>1. CASE ~Answer(h)
      <3>1. PICK pc \in {"patch_commit", "put_check"}, is \in SUBSET Items :
              req' = [req EXCEPT ![h].pc = pc, ![h].loaded = is]
        BY <1>12, <2>1 DEF PatchOwned, PutOwned, Serve, ItemsIn
      <3>2. req'[h].pc = pc
        BY <3>1 DEF Request
      <3>. QED  BY <1>6, <3>2
    <2>. QED  BY <1>8, <2>1
  <1>13. CASE PutCheckItems(h) \/ DeleteItemRead(h) \/ DeleteOutfitRead(h)
    <2>1. \/ Answer(h) \/ Goto(h, "put_delete")
          \/ Goto(h, "delete_item_commit") \/ Goto(h, "delete_outfit_commit")
      BY <1>13 DEF PutCheckItems, DeleteItemRead, DeleteOutfitRead
    <2>. QED  BY <1>6, <1>7, <1>8, <2>1
  <1>14. CASE \/ ReadItems(h) \/ ReadItemsFails(h) \/ PutCommitFails(h)
              \/ DeleteItemCommit(h) \/ DeleteOutfitCommit(h)
    BY <1>8, <1>14 DEF ReadItems, ReadItemsFails, PutCommitFails, DeleteItemCommit,
       DeleteOutfitCommit
  <1>. QED
    BY <1>2, <1>3, <1>4, <1>5, <1>9, <1>10, <1>11, <1>12, <1>13, <1>14 DEF Step

LEMMA InitLone == Init => LoneInv
  BY InitWellFormed DEF Init, LoneInv, LinksValid, CrowdedKnown, LonePutOnCourse, Putting,
     Idle, Asked

LEMMA NextLonePutOnCourse == LoneInv /\ [Next]_vars => LonePutOnCourse'
  <1> SUFFICES ASSUME LoneInv, [Next]_vars, NEW h \in Handlers \ crowded',
                      req'[h].op = "put"
               PROVE  OnCourse(h)'
    BY DEF LonePutOnCourse
  <1>. QED  BY OneMoves, OthersKeepCourse, OwnStepKeepsCourse DEF LoneInv

LEMMA NextCrowdedKnown == WellFormed /\ CrowdedKnown /\ [Next]_vars => CrowdedKnown'
  BY NextNotes DEF WellFormed

(* What holds of the PUTs that are not overlapped, in every state.          *)
THEOREM AlwaysLone == Spec => []LoneInv
  <1>1. WellFormed /\ LinksValid /\ WellFormed' /\ LinksValid' /\ LoneInv /\ [Next]_vars
          => LoneInv'
    BY NextCrowdedKnown, NextLonePutOnCourse DEF LoneInv
  <1>. QED  BY <1>1, InitLone, AlwaysWellFormed, LinksValidTheorem, PTL DEF Spec

(* A PUT that no other overlaps leaves the outfit with what was asked for.  *)
THEOREM LonePutReplacesTheorem == Spec => LonePutReplaces
  <1>1. LoneInv /\ [Next]_vars
          => [\A h \in Handlers \ crowded :
                PutCommit(h) => ItemsIn(links', req[h].outfit) = req[h].ids]_vars
    <2> SUFFICES ASSUME LoneInv, NEW h \in Handlers \ crowded, PutCommit(h)
                 PROVE  ItemsIn(links', req[h].outfit) = req[h].ids
      OBVIOUS
    <2>1. LinksOf(req[h].outfit) \subseteq req[h].dropped
      BY DEF PutCommit, At, LoneInv, WellFormed, RequestsWellFormed, Holds,
         LonePutOnCourse, OnCourse
    <2>2. ItemsIn(Kept(h), req[h].outfit) = {}
      BY <2>1 DEF ItemsIn, Kept, LinksOf
    <2>. QED  BY <2>2, PutCommitItems DEF LoneInv
  <1>. QED  BY <1>1, AlwaysLone, PTL DEF Spec, LonePutReplaces

(* ... and answers with it, but for what has been deleted since.            *)
THEOREM LonePutShowsTheorem == Spec => LonePutShows
  <1>1. LoneInv /\ [Next]_vars
          => [\A h \in Handlers \ crowded :
                ReadItems(h) /\ req[h].op = "put" /\ outfit[req[h].outfit] = "present"
                  => req[h].loaded = {i \in req[h].ids : item[i] = "present"}]_vars
    <2> SUFFICES ASSUME LoneInv, NEW h \in Handlers \ crowded, ReadItems(h),
                        req[h].op = "put", outfit[req[h].outfit] = "present"
                 PROVE  req[h].loaded = {i \in req[h].ids : item[i] = "present"}
      OBVIOUS
    <2>1. Wanted(h) \subseteq req[h].loaded /\ req[h].loaded \subseteq req[h].ids
      BY DEF ReadItems, LoneInv, LonePutOnCourse, OnCourse
    <2>. QED  BY <2>1 DEF ReadItems, Wanted
  <1>. QED  BY <1>1, AlwaysLone, PTL DEF Spec, LonePutShows

=============================================================================
